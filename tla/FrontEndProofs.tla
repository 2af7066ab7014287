--------------------------- MODULE FrontEndProofs ---------------------------
(***************************************************************************)
(* Proofs about the parser and its driver, for every text: the stack of    *)
(* bison's automaton never underflows and always leads on, each of the 50  *)
(* semantic actions keeps the text of what it reads, and so the stack      *)
(* spells the tokens used and the module the whole text; and a visitor of  *)
(* the module is called in the order of that text.                         *)
(***************************************************************************)
EXTENDS FrontEnd, BasicLemmas, FiniteSetTheorems

-----------------------------------------------------------------------------
(* The list of productions.                                                *)

HasLength(rhs) ==
  /\ Len(rhs) \in Nat /\ DOMAIN rhs = 1 .. Len(rhs)
  /\ rhs # <<>> => Len(rhs) > 0

\* The grammar has 10 productions about groups.
LEMMA GroupList ==
  GroupProductions \in Seq({GroupProductions[i] : i \in 1 .. 10}) /\ Len(GroupProductions) = 10
BY DEF GroupProductions

\* The right-hand side of a production about groups is a list.
LEMMA GroupSides ==
  \A i \in 1 .. 10 : HasLength(GroupProductions[i][2])
BY DEF HasLength, GroupProductions

\* The grammar has 11 productions about rules.
LEMMA RuleList ==
  RuleProductions \in Seq({RuleProductions[i] : i \in 1 .. 11}) /\ Len(RuleProductions) = 11
BY DEF RuleProductions

\* The right-hand side of a production about rules is a list.
LEMMA RuleSides ==
  \A i \in 1 .. 11 : HasLength(RuleProductions[i][2])
BY DEF HasLength, RuleProductions

\* The grammar has 12 productions about premises.
LEMMA PremiseList ==
  PremiseProductions \in Seq({PremiseProductions[i] : i \in 1 .. 12}) /\ Len(PremiseProductions) = 12
BY DEF PremiseProductions

\* The right-hand side of a production about premises is a list.
LEMMA PremiseSides ==
  \A i \in 1 .. 12 : HasLength(PremiseProductions[i][2])
BY DEF HasLength, PremiseProductions

\* The grammar has 17 productions about targets.
LEMMA TargetList ==
  TargetProductions \in Seq({TargetProductions[i] : i \in 1 .. 17}) /\ Len(TargetProductions) = 17
BY DEF TargetProductions

\* The right-hand side of a production about targets is a list.
LEMMA TargetSides ==
  \A i \in 1 .. 17 : HasLength(TargetProductions[i][2])
BY DEF HasLength, TargetProductions

\* r is s and then t.
LEMMA ConcatIs ==
  ASSUME NEW S, NEW s \in Seq(S), NEW t \in Seq(S), NEW r, r = s \o t
  PROVE  /\ r \in Seq(S) /\ Len(r) = Len(s) + Len(t)
         /\ \A i \in 1 .. Len(s) + Len(t) :
              r[i] = IF i <= Len(s) THEN s[i] ELSE t[i - Len(s)]
BY ConcatProperties

\* The production with the number i.
ProductionAt(i) ==
  IF i <= 10 THEN GroupProductions[i]
  ELSE IF i <= 21 THEN RuleProductions[i - 10]
  ELSE IF i <= 33 THEN PremiseProductions[i - 21]
  ELSE TargetProductions[i - 33]

\* There are 50, in the four lists.
LEMMA ProductionsList ==
  DOMAIN Productions = 1 .. 50 /\ \A i \in 1 .. 50 : Productions[i] = ProductionAt(i)
<1> DEFINE
  S == {GroupProductions[i] : i \in 1 .. 10} \cup {RuleProductions[i] : i \in 1 .. 11}
         \cup {PremiseProductions[i] : i \in 1 .. 12} \cup {TargetProductions[i] : i \in 1 .. 17}
<1>0. /\ GroupProductions \in Seq(S) /\ RuleProductions \in Seq(S)
      /\ PremiseProductions \in Seq(S) /\ TargetProductions \in Seq(S)
  BY GroupList, RuleList, PremiseList, TargetList
<1> HIDE DEF S
<1>1. PICK a : a = GroupProductions \o RuleProductions
  OBVIOUS
<1>2. PICK b : b = a \o PremiseProductions
  OBVIOUS
<1>3. Productions = b \o TargetProductions
  BY <1>1, <1>2 DEF Productions
<1>4. /\ a \in Seq(S) /\ Len(a) = Len(GroupProductions) + Len(RuleProductions)
      /\ \A i \in 1 .. Len(GroupProductions) + Len(RuleProductions) :
           a[i] = IF i <= Len(GroupProductions) THEN GroupProductions[i]
                  ELSE RuleProductions[i - Len(GroupProductions)]
  BY ONLY <1>0, <1>1, ConcatIs
<1>5. /\ Len(a) = 21
      /\ \A i \in 1 .. 21 :
           a[i] = IF i <= 10 THEN GroupProductions[i] ELSE RuleProductions[i - 10]
  BY ONLY <1>4, GroupList, RuleList
<1>6. /\ b \in Seq(S) /\ Len(b) = Len(a) + Len(PremiseProductions)
      /\ \A i \in 1 .. Len(a) + Len(PremiseProductions) :
           b[i] = IF i <= Len(a) THEN a[i] ELSE PremiseProductions[i - Len(a)]
  BY ONLY <1>0, <1>2, <1>4, ConcatIs
<1>7. /\ Len(b) = 33
      /\ \A i \in 1 .. 33 : b[i] = IF i <= 21 THEN a[i] ELSE PremiseProductions[i - 21]
  BY ONLY <1>5, <1>6, PremiseList
<1>8. /\ Productions \in Seq(S) /\ Len(Productions) = Len(b) + Len(TargetProductions)
      /\ \A i \in 1 .. Len(b) + Len(TargetProductions) :
           Productions[i] = IF i <= Len(b) THEN b[i] ELSE TargetProductions[i - Len(b)]
  BY ONLY <1>0, <1>3, <1>6, ConcatIs
<1>9. /\ Len(Productions) = 50
      /\ \A i \in 1 .. 50 : Productions[i] = IF i <= 33 THEN b[i] ELSE TargetProductions[i - 33]
  BY ONLY <1>7, <1>8, TargetList
<1>10. ASSUME NEW i \in 1 .. 50
       PROVE  Productions[i] = ProductionAt(i)
  <2>1. Productions[i] = IF i <= 33 THEN b[i] ELSE TargetProductions[i - 33]
    BY ONLY <1>9, i \in 1 .. 50
  <2>2. i \in 1 .. 33 => b[i] = IF i <= 21 THEN a[i] ELSE PremiseProductions[i - 21]
    BY ONLY <1>7, Zenon
  <2>3. i \in 1 .. 21 =>
          a[i] = IF i <= 10 THEN GroupProductions[i] ELSE RuleProductions[i - 10]
    BY ONLY <1>5, Zenon
  <2> QED
    BY ONLY <2>1, <2>2, <2>3, i \in 1 .. 50 DEF ProductionAt
<1>11. DOMAIN Productions = 1 .. 50
  <2>1. DOMAIN Productions = 1 .. Len(Productions)
    BY ONLY <1>8, LenProperties
  <2> QED
    BY ONLY <2>1, <1>9
<1> QED
  BY ONLY <1>10, <1>11, Zenon

\* Each has a right-hand side.
LEMMA ProductionType ==
  ASSUME NEW p \in DOMAIN Productions
  PROVE  /\ p \in Nat /\ p # NoProduction
         /\ Len(Rhs(p)) \in Nat /\ DOMAIN Rhs(p) = 1 .. Len(Rhs(p))
         /\ Rhs(p) # <<>> => Len(Rhs(p)) > 0
<1>1. p \in 1 .. 50 /\ Rhs(p) = ProductionAt(p)[2]
  BY ProductionsList DEF Rhs
<1>2. HasLength(ProductionAt(p)[2])
  <2>1. CASE p <= 10
    <3>1. p \in 1 .. 10
      BY <1>1, <2>1
    <3> QED
      BY <3>1, <2>1, GroupSides DEF ProductionAt
  <2>2. CASE 11 <= p /\ p <= 21
    <3>1. p - 10 \in 1 .. 11 /\ ~(p <= 10)
      BY <1>1, <2>2
    <3> QED
      BY <3>1, <2>2, RuleSides DEF ProductionAt
  <2>3. CASE 22 <= p /\ p <= 33
    <3>1. p - 21 \in 1 .. 12 /\ ~(p <= 10) /\ ~(p <= 21)
      BY <1>1, <2>3
    <3> QED
      BY <3>1, <2>3, PremiseSides DEF ProductionAt
  <2>4. CASE 34 <= p
    <3>1. p - 33 \in 1 .. 17 /\ ~(p <= 10) /\ ~(p <= 21) /\ ~(p <= 33)
      BY <1>1, <2>4
    <3> QED
      BY <3>1, TargetSides DEF ProductionAt
  <2> QED
    BY <1>1, <2>1, <2>2, <2>3, <2>4
<1>3. p \in Nat /\ p # 0
  BY <1>1
<1> QED
  BY ONLY <1>1, <1>2, <1>3, Zenon DEF NoProduction, HasLength


\* The production p replaces lhs by rhs.
IsRule(p, lhs, rhs) == Lhs(p) = lhs /\ Rhs(p) = rhs

\* The productions about groups, by their numbers (parser.yy).
LEMMA GroupRules ==
  /\ IsRule(1, "$accept", <<"input", "END">>)
  /\ IsRule(2, "input", <<"inference_group_list">>)
  /\ IsRule(3, "inference_group_list", <<>>)
  /\ IsRule(4, "inference_group_list", <<"inference_group_list", "inference_group">>)
  /\ IsRule(5, "inference_group", <<"KEYWORD_GROUP", "IDENTIFIER", "LBRACE", "environment_defn_list", "inference_defn_list", "RBRACE">>)
  /\ IsRule(6, "environment_defn_list", <<>>)
  /\ IsRule(7, "environment_defn_list", <<"environment_defn_list", "environment_defn">>)
  /\ IsRule(8, "environment_defn", <<"IDENTIFIER", "COLON", "IDENTIFIER", "SEMICOLON">>)
  /\ IsRule(9, "inference_defn_list", <<>>)
  /\ IsRule(10, "inference_defn_list", <<"inference_defn_list", "inference_defn">>)
<1>1. \A i \in 1 .. 10 : Productions[i] = GroupProductions[i]
  BY ProductionsList DEF ProductionAt
<1>2. /\ Productions[1] = GroupProductions[1]
      /\ Productions[2] = GroupProductions[2]
      /\ Productions[3] = GroupProductions[3]
      /\ Productions[4] = GroupProductions[4]
      /\ Productions[5] = GroupProductions[5]
      /\ Productions[6] = GroupProductions[6]
      /\ Productions[7] = GroupProductions[7]
      /\ Productions[8] = GroupProductions[8]
      /\ Productions[9] = GroupProductions[9]
      /\ Productions[10] = GroupProductions[10]
  BY ONLY <1>1
<1> QED
  BY <1>2 DEF IsRule, Lhs, Rhs, GroupProductions

\* The productions about rules, by their numbers (parser.yy).
LEMMA RuleRules ==
  /\ IsRule(11, "inference_defn", <<"KEYWORD_INFERENCE", "IDENTIFIER", "LBRACE", "global_decl_set", "argument_set", "premise_set", "proposition_defn", "RBRACE">>)
  /\ IsRule(12, "global_decl_set", <<>>)
  /\ IsRule(13, "global_decl_set", <<"KEYWORD_GLOBALS", "COLON", "LBRACKET", "global_decl_list", "RBRACKET">>)
  /\ IsRule(14, "global_decl_list", <<"global_decl">>)
  /\ IsRule(15, "global_decl_list", <<"global_decl_list", "COMMA", "global_decl">>)
  /\ IsRule(16, "global_decl", <<"IDENTIFIER">>)
  /\ IsRule(17, "argument_set", <<"KEYWORD_ARGUMENTS", "COLON", "LBRACKET", "RBRACKET">>)
  /\ IsRule(18, "argument_set", <<"KEYWORD_ARGUMENTS", "COLON", "LBRACKET", "argument_list", "RBRACKET">>)
  /\ IsRule(19, "argument_list", <<"inference_argument">>)
  /\ IsRule(20, "argument_list", <<"argument_list", "COMMA", "inference_argument">>)
  /\ IsRule(21, "inference_argument", <<"IDENTIFIER", "COLON", "IDENTIFIER">>)
<1>1. \A i \in 1 .. 11 : Productions[i + 10] = RuleProductions[i]
  BY ProductionsList DEF ProductionAt
<1>2. /\ Productions[11] = RuleProductions[1]
      /\ Productions[12] = RuleProductions[2]
      /\ Productions[13] = RuleProductions[3]
      /\ Productions[14] = RuleProductions[4]
      /\ Productions[15] = RuleProductions[5]
      /\ Productions[16] = RuleProductions[6]
      /\ Productions[17] = RuleProductions[7]
      /\ Productions[18] = RuleProductions[8]
      /\ Productions[19] = RuleProductions[9]
      /\ Productions[20] = RuleProductions[10]
      /\ Productions[21] = RuleProductions[11]
  BY ONLY <1>1
<1> QED
  BY <1>2 DEF IsRule, Lhs, Rhs, RuleProductions

\* The productions about premises, by their numbers (parser.yy).
LEMMA PremiseRules ==
  /\ IsRule(22, "premise_set", <<"KEYWORD_PREMISES", "COLON", "LBRACKET", "premise_defn_list", "RBRACKET">>)
  /\ IsRule(23, "premise_defn_list", <<>>)
  /\ IsRule(24, "premise_defn_list", <<"premise_defn_list", "premise_defn">>)
  /\ IsRule(25, "premise_defn", <<"premise_type_inference_defn">>)
  /\ IsRule(26, "premise_defn", <<"premise_type_equality_defn">>)
  /\ IsRule(27, "premise_type_inference_defn", <<"identifiable", "COLON", "deduction_target", "SEMICOLON">>)
  /\ IsRule(28, "premise_type_inference_defn", <<"identifiable", "COLON", "deduction_target", "while_clause", "SEMICOLON">>)
  /\ IsRule(29, "while_clause", <<"KEYWORD_WHILE", "LBRACE", "premise_defn_list", "RBRACE">>)
  /\ IsRule(30, "premise_type_equality_defn", <<"deduction_target", "equality_operator", "deduction_target", "SEMICOLON">>)
  /\ IsRule(31, "premise_type_equality_defn", <<"deduction_target", "equality_operator", "deduction_target", "range_clause", "SEMICOLON">>)
  /\ IsRule(32, "range_clause", <<"KEYWORD_INRANGE", "INTEGER_LITERAL", "ELLIPSIS", "INTEGER_LITERAL", "ELLIPSIS", "deduction_target">>)
  /\ IsRule(33, "proposition_defn", <<"KEYWORD_PROPOSITION", "COLON", "deduction_target", "SEMICOLON">>)
<1>1. \A i \in 1 .. 12 : Productions[i + 21] = PremiseProductions[i]
  BY ProductionsList DEF ProductionAt
<1>2. /\ Productions[22] = PremiseProductions[1]
      /\ Productions[23] = PremiseProductions[2]
      /\ Productions[24] = PremiseProductions[3]
      /\ Productions[25] = PremiseProductions[4]
      /\ Productions[26] = PremiseProductions[5]
      /\ Productions[27] = PremiseProductions[6]
      /\ Productions[28] = PremiseProductions[7]
      /\ Productions[29] = PremiseProductions[8]
      /\ Productions[30] = PremiseProductions[9]
      /\ Productions[31] = PremiseProductions[10]
      /\ Productions[32] = PremiseProductions[11]
      /\ Productions[33] = PremiseProductions[12]
  BY ONLY <1>1
<1> QED
  BY <1>2 DEF IsRule, Lhs, Rhs, PremiseProductions

\* The productions about targets, by their numbers (parser.yy).
LEMMA TargetRules ==
  /\ IsRule(34, "identifiable", <<"identifier">>)
  /\ IsRule(35, "identifiable", <<"identifiable", "DOT", "identifier">>)
  /\ IsRule(36, "identifier", <<"IDENTIFIER">>)
  /\ IsRule(37, "deduction_target_list", <<"deduction_target">>)
  /\ IsRule(38, "deduction_target_list", <<"deduction_target_list", "COMMA", "deduction_target">>)
  /\ IsRule(39, "deduction_target", <<"deduction_target_singular">>)
  /\ IsRule(40, "deduction_target", <<"deduction_target_array">>)
  /\ IsRule(41, "deduction_target", <<"deduction_target_computed">>)
  /\ IsRule(42, "deduction_target_singular", <<"IDENTIFIER">>)
  /\ IsRule(43, "deduction_target_array", <<"IDENTIFIER", "LBRACKET", "RBRACKET">>)
  /\ IsRule(44, "deduction_target_array", <<"IDENTIFIER", "LBRACKET", "INTEGER_LITERAL", "RBRACKET">>)
  /\ IsRule(45, "deduction_target_computed", <<"IDENTIFIER", "LPAREN", "RPAREN">>)
  /\ IsRule(46, "deduction_target_computed", <<"IDENTIFIER", "LPAREN", "deduction_target_list", "RPAREN">>)
  /\ IsRule(47, "equality_operator", <<"OPERATOR_EQ">>)
  /\ IsRule(48, "equality_operator", <<"OPERATOR_NEQ">>)
  /\ IsRule(49, "equality_operator", <<"OPERATOR_LT">>)
  /\ IsRule(50, "equality_operator", <<"OPERATOR_LTE">>)
<1>1. \A i \in 1 .. 17 : Productions[i + 33] = TargetProductions[i]
  BY ProductionsList DEF ProductionAt
<1>2. /\ Productions[34] = TargetProductions[1]
      /\ Productions[35] = TargetProductions[2]
      /\ Productions[36] = TargetProductions[3]
      /\ Productions[37] = TargetProductions[4]
      /\ Productions[38] = TargetProductions[5]
      /\ Productions[39] = TargetProductions[6]
      /\ Productions[40] = TargetProductions[7]
      /\ Productions[41] = TargetProductions[8]
      /\ Productions[42] = TargetProductions[9]
      /\ Productions[43] = TargetProductions[10]
      /\ Productions[44] = TargetProductions[11]
      /\ Productions[45] = TargetProductions[12]
      /\ Productions[46] = TargetProductions[13]
      /\ Productions[47] = TargetProductions[14]
      /\ Productions[48] = TargetProductions[15]
      /\ Productions[49] = TargetProductions[16]
      /\ Productions[50] = TargetProductions[17]
  BY ONLY <1>1
<1> QED
  BY <1>2 DEF IsRule, Lhs, Rhs, TargetProductions

NodeKinds == {"module", "group", "env", "defn", "global", "argument", "premise", "target",
              "inference", "equality", "range", "proposition", "singular", "array", "computed"}

Elsewhere(symbol) == symbol \notin {"$accept", "input", "END"} /\ symbol \notin NodeKinds

\* The start, an input and the end of the text are not in the production p, whose
\* right-hand side has the length n; and no symbol is a kind of nodes.
Inner(p, n) ==
  /\ Elsewhere(Lhs(p))
  /\ Len(Rhs(p)) = n /\ \A i \in 1 .. n : Elsewhere(Rhs(p)[i])

\* Neither the start, an input nor the end of the text is in a production about
\* groups.
LEMMA InnerGroup ==
  /\ Inner(3, 0)  /\ Inner(4, 2)  /\ Inner(5, 6)  /\ Inner(6, 0)  /\ Inner(7, 2)  /\ Inner(8, 4)  /\ Inner(9, 0)  /\ Inner(10, 2)
BY GroupRules DEF IsRule, Inner, Elsewhere, NodeKinds

\* Neither the start, an input nor the end of the text is in a production about
\* rules.
LEMMA InnerRule ==
  /\ Inner(11, 8)  /\ Inner(12, 0)  /\ Inner(13, 5)  /\ Inner(14, 1)  /\ Inner(15, 3)  /\ Inner(16, 1)  /\ Inner(17, 4)  /\ Inner(18, 5)  /\ Inner(19, 1)  /\ Inner(20, 3)  /\ Inner(21, 3)
BY RuleRules DEF IsRule, Inner, Elsewhere, NodeKinds

\* Neither the start, an input nor the end of the text is in a production about
\* premises.
LEMMA InnerPremise ==
  /\ Inner(22, 5)  /\ Inner(23, 0)  /\ Inner(24, 2)  /\ Inner(25, 1)  /\ Inner(26, 1)  /\ Inner(27, 4)  /\ Inner(28, 5)  /\ Inner(29, 4)  /\ Inner(30, 4)  /\ Inner(31, 5)  /\ Inner(32, 6)  /\ Inner(33, 4)
BY PremiseRules DEF IsRule, Inner, Elsewhere, NodeKinds

\* Neither the start, an input nor the end of the text is in a production about
\* targets.
LEMMA InnerTarget ==
  /\ Inner(34, 1)  /\ Inner(35, 3)  /\ Inner(36, 1)  /\ Inner(37, 1)  /\ Inner(38, 3)  /\ Inner(39, 1)  /\ Inner(40, 1)  /\ Inner(41, 1)  /\ Inner(42, 1)  /\ Inner(43, 3)  /\ Inner(44, 4)  /\ Inner(45, 3)  /\ Inner(46, 4)  /\ Inner(47, 1)  /\ Inner(48, 1)  /\ Inner(49, 1)  /\ Inner(50, 1)
BY TargetRules DEF IsRule, Inner, Elsewhere, NodeKinds

\* No production rewrites to the start, and only the first rewrites to an input
\* or the end of the text.
LEMMA OuterSymbols ==
  ASSUME NEW p \in DOMAIN Productions
  PROVE  /\ p # 1 /\ p # 2 => Elsewhere(Lhs(p))
         /\ p # 1 => \A i \in 1 .. Len(Rhs(p)) : Elsewhere(Rhs(p)[i])
<1>1. p \in 1 .. 50
  BY ProductionsList
<1>2. ASSUME p \notin {1, 2} PROVE \E n : Inner(p, n)
  <2>1. CASE p \in 3 .. 10
    BY <2>1, InnerGroup
  <2>2. CASE p \in 11 .. 21
    BY <2>2, InnerRule
  <2>3. CASE p \in 22 .. 33
    BY <2>3, InnerPremise
  <2>4. CASE p \in 34 .. 50
    BY <2>4, InnerTarget
  <2> QED
    BY <1>1, <1>2, <2>1, <2>2, <2>3, <2>4
<1>3. Len(Rhs(2)) = 1 /\ \A i \in 1 .. 1 : Elsewhere(Rhs(2)[i])
  BY GroupRules DEF IsRule, Elsewhere, NodeKinds
<1> QED
  BY <1>2, <1>3 DEF Inner

\* The end of the text is never rewritten; the first production is the only one
\* that rewrites the start, the second the only one that rewrites an input.
LEMMA LeftSides ==
  /\ "END" \notin Nonterminal
  /\ \A p \in DOMAIN Productions : Lhs(p) \in Nonterminal
  /\ \A p \in DOMAIN Productions : (Lhs(p) = "$accept" <=> p = 1) /\ (Lhs(p) = "input" <=> p = 2)
<1>1. Lhs(1) = "$accept" /\ Lhs(2) = "input"
  BY GroupRules DEF IsRule
<1>2. \A p \in DOMAIN Productions : p = 1 \/ p = 2 \/ Elsewhere(Lhs(p))
  BY OuterSymbols
<1> QED
  BY <1>1, <1>2 DEF Nonterminal, Elsewhere

\* There are finitely many values of a function on a finite set.
LEMMA ImageFinite ==
  ASSUME NEW S, IsFiniteSet(S), NEW f, DOMAIN f = S, f = [x \in S |-> f[x]]
  PROVE  IsFiniteSet({f[x] : x \in S})
<1> DEFINE T == {f[x] : x \in S}
<1>1. f \in Surjection(S, T)
  <2>1. f \in [S -> T]
    OBVIOUS
  <2>2. \A t \in T : \E x \in S : f[x] = t
    OBVIOUS
  <2> QED
    BY <2>1, <2>2 DEF Surjection
<1> HIDE DEF T
<1>2. IsFiniteSet(T)
  BY <1>1, FS_Surjection
<1> QED
  BY <1>2 DEF T

\* There are finitely many nonterminals.
LEMMA NonterminalsAreFinite == Cardinality(Nonterminal) \in Nat
<1> DEFINE f == [p \in DOMAIN Productions |-> Lhs(p)]
<1>1. IsFiniteSet(DOMAIN Productions)
  <2>1. PICK n \in Int : n = 50
    OBVIOUS
  <2>2. 1 \in Int
    OBVIOUS
  <2>3. IsFiniteSet(1 .. n)
    BY ONLY <2>1, <2>2, FS_Interval
  <2> QED
    BY <2>1, <2>3, ProductionsList
<1>2. IsFiniteSet({f[p] : p \in DOMAIN Productions})
  <2>1. DOMAIN f = DOMAIN Productions /\ f = [p \in DOMAIN Productions |-> f[p]]
    OBVIOUS
  <2> HIDE DEF f
  <2> QED
    BY <1>1, <2>1, ImageFinite
<1>3. {f[p] : p \in DOMAIN Productions} = Nonterminal
  BY DEF Nonterminal
<1>4. IsFiniteSet(Nonterminal)
  BY <1>2, <1>3
<1> QED
  BY <1>4, FS_CardinalityType

\* The productions that rewrite A to something that begins with a nonterminal.
Beginning(A) == {p \in DOMAIN Productions :
                   Lhs(p) = A /\ Rhs(p) # <<>> /\ Rhs(p)[1] \in Nonterminal}

\* chains with those that are one production longer.
Longer(chains) ==
  UNION {{c} \cup {<<c[1], Rhs(p)[1]>> : p \in Beginning(c[2])} : c \in chains}

IsWithin(f, n) ==
  f = [i \in 0 .. n |-> IF i = 0 THEN {<<A, A>> : A \in Nonterminal} ELSE Longer(f[i - 1])]

\* The chains of at most n productions are defined for every n: the function
\* that LeftCorner is taken from exists.
LEMMA WithinExists ==
  ASSUME NEW n \in Nat
  PROVE  \E f : IsWithin(f, n)
<1> DEFINE wrong == {m \in Nat : ~ \E f : IsWithin(f, m)}
<1> SUFFICES ASSUME wrong # {} PROVE FALSE
  OBVIOUS
<1>1. PICK m \in wrong : \A k \in wrong : m <= k
  <2>1. wrong \in SUBSET Nat
    OBVIOUS
  <2> HIDE DEF wrong
  <2> QED
    BY <2>1, HasLeast
<1>2. m \in Nat /\ ~ \E f : IsWithin(f, m)
  BY <1>1
<1> DEFINE start == {<<A, A>> : A \in Nonterminal}
<1>3. CASE m = 0
  <2> DEFINE h == [i \in 0 .. 0 |-> start]
  <2>1. h = [i \in 0 .. 0 |-> IF i = 0 THEN start ELSE Longer(h[i - 1])]
    OBVIOUS
  <2>2. IsWithin(h, 0)
    BY <2>1 DEF IsWithin
  <2> QED
    BY <1>2, <1>3, <2>2
<1>4. CASE m > 0
  <2>1. m - 1 \in Nat /\ m - 1 \notin wrong
    <3>1. m - 1 \in Nat /\ ~(m <= m - 1)
      BY <1>2, <1>4
    <3> HIDE DEF wrong
    <3> QED
      BY <1>1, <3>1
  <2>2. PICK f : IsWithin(f, m - 1)
    BY <2>1
  <2> HIDE DEF start
  <2> DEFINE h == [i \in 0 .. m |-> IF i < m THEN f[i] ELSE Longer(f[m - 1])]
  <2>3. \A i \in 0 .. m - 1 : f[i] = IF i = 0 THEN start ELSE Longer(f[i - 1])
    BY <2>2 DEF IsWithin, start
  <2>4. ASSUME NEW i \in 0 .. m PROVE h[i] = IF i = 0 THEN start ELSE Longer(h[i - 1])
    <3>1. CASE i = m
      <4>1. h[m - 1] = f[m - 1] /\ h[i] = Longer(f[m - 1])
        BY <1>2, <1>4, <3>1
      <4> QED
        BY <1>4, <3>1, <4>1
    <3>2. CASE i < m
      <4>1. i \in 0 .. m - 1 /\ h[i] = f[i]
        BY <1>2, <3>2
      <4>2. CASE i = 0
        BY <2>3, <4>1, <4>2
      <4>3. CASE i # 0
        <5>1. i - 1 \in 0 .. m /\ i - 1 < m
          BY <1>2, <3>2, <4>3
        <5>2. h[i - 1] = f[i - 1]
          BY <5>1
        <5> QED
          BY <2>3, <4>1, <4>3, <5>2
      <4> QED
        BY <4>2, <4>3
    <3> QED
      BY <1>2, <3>1, <3>2
  <2>5. h = [i \in 0 .. m |-> h[i]]
    OBVIOUS
  <2> HIDE DEF h
  <2>6. h = [i \in 0 .. m |-> IF i = 0 THEN start ELSE Longer(h[i - 1])]
    BY <2>4, <2>5
  <2>7. IsWithin(h, m)
    BY <2>6 DEF IsWithin, start
  <2> QED
    BY <1>2, <2>7
<1> QED
  BY <1>2, <1>3, <1>4

\* LeftCorner is the last value of that function.
LEMMA LeftCornerIs ==
  \E f : IsWithin(f, Cardinality(Nonterminal)) /\ LeftCorner = f[Cardinality(Nonterminal)]
<1> DEFINE n == Cardinality(Nonterminal)
<1>1. PICK f : IsWithin(f, n)
  BY NonterminalsAreFinite, WithinExists
<1> DEFINE g == CHOOSE g : IsWithin(g, n)
<1>2. IsWithin(g, n)
  BY <1>1
<1>3. LeftCorner = g[n]
  BY DEF LeftCorner, IsWithin, Longer, Beginning
<1> HIDE DEF g
<1> QED
  BY <1>2, <1>3

\* If an A may start with a B, they are the same, or B begins a production with
\* whose left-hand side an A may start.
LEMMA Corners ==
  ASSUME NEW A, NEW B, <<A, B>> \in LeftCorner
  PROVE  \/ A = B
         \/ \E q \in DOMAIN Productions :
              Rhs(q) # <<>> /\ Rhs(q)[1] = B /\ <<A, Lhs(q)>> \in LeftCorner
<1> DEFINE n == Cardinality(Nonterminal)
<1>0. n \in Nat
  BY NonterminalsAreFinite
<1>1. PICK f : IsWithin(f, n) /\ LeftCorner = f[n]
  BY LeftCornerIs
<1> HIDE DEF n
<1>2. \A i \in 0 .. n : f[i] = IF i = 0 THEN {<<X, X>> : X \in Nonterminal} ELSE Longer(f[i - 1])
  BY <1>1 DEF IsWithin
<1>3. \A i \in 1 .. n : f[i - 1] \subseteq f[i]
  <2>1. \A chains : chains \subseteq Longer(chains)
    BY DEF Longer
  <2>2. ASSUME NEW i \in 1 .. n PROVE f[i] = Longer(f[i - 1])
    <3>1. i \in 0 .. n /\ i # 0
      BY <1>0
    <3> QED
      BY <1>2, <3>1
  <2> QED
    BY <2>1, <2>2
<1>4. \A i \in 0 .. n : f[i] \subseteq f[n]
  <2> DEFINE bad == {i \in Nat : i <= n /\ ~(f[n - i] \subseteq f[n])}
  <2>0. ASSUME bad = {}, NEW i \in 0 .. n PROVE f[i] \subseteq f[n]
    <3>1. n - i \in Nat /\ n - i <= n /\ n - (n - i) = i
      BY <1>0
    <3>2. n - i \notin bad
      BY <2>0
    <3>3. f[n - (n - i)] \subseteq f[n]
      BY <3>1, <3>2
    <3> QED
      BY <3>1, <3>3
  <2> SUFFICES ASSUME bad # {} PROVE FALSE
    BY <2>0
  <2>1. PICK m \in bad : \A k \in bad : m <= k
    <3>1. bad \in SUBSET Nat
      OBVIOUS
    <3> HIDE DEF bad
    <3> QED
      BY <3>1, HasLeast
  <2>2. m \in Nat /\ m <= n /\ ~(f[n - m] \subseteq f[n])
    BY <2>1
  <2>3. m # 0
    BY <1>0, <2>2
  <2>4. m - 1 \in Nat /\ m - 1 <= n /\ m - 1 \notin bad
    <3>1. m - 1 \in Nat /\ m - 1 <= n /\ ~(m <= m - 1)
      BY <1>0, <2>2, <2>3
    <3> HIDE DEF bad
    <3> QED
      BY <2>1, <3>1
  <2>5. f[n - (m - 1)] \subseteq f[n]
    BY <2>4
  <2>6. n - (m - 1) \in 1 .. n /\ (n - (m - 1)) - 1 = n - m
    BY <1>0, <2>2, <2>3
  <2>7. f[n - m] \subseteq f[n - (m - 1)]
    BY <1>3, <2>6
  <2> QED
    BY <2>2, <2>5, <2>7
<1>10. \A i \in 0 .. n : \A x \in f[i] : x = <<x[1], x[2]>>
  <2> DEFINE bad == {i \in Nat : i <= n /\ \E x \in f[i] : x # <<x[1], x[2]>>}
  <2> SUFFICES ASSUME bad # {} PROVE FALSE
    BY <1>0
  <2>1. PICK m \in bad : \A k \in bad : m <= k
    <3>1. bad \in SUBSET Nat
      OBVIOUS
    <3> HIDE DEF bad
    <3> QED
      BY <3>1, HasLeast
  <2>2. PICK x \in f[m] : x # <<x[1], x[2]>>
    BY <2>1
  <2>3. m \in 0 .. n
    BY <1>0, <2>1
  <2>4. m # 0
    <3> SUFFICES ASSUME m = 0 PROVE FALSE
      OBVIOUS
    <3>1. x \in {<<X, X>> : X \in Nonterminal}
      BY <1>2, <2>2, <2>3
    <3> QED
      BY <2>2, <3>1
  <2>5. m - 1 \in 0 .. n /\ m - 1 \in Nat /\ m - 1 <= n /\ ~(m <= m - 1)
    BY <1>0, <2>3, <2>4
  <2>6. m - 1 \notin bad
    <3> HIDE DEF bad
    <3> QED
      BY <2>1, <2>5
  <2>7. x \in Longer(f[m - 1])
    BY <1>2, <2>2, <2>3, <2>4
  <2>8. PICK c \in f[m - 1] : x \in {c} \cup {<<c[1], Rhs(p)[1]>> : p \in Beginning(c[2])}
    BY <2>7 DEF Longer
  <2>9. c = <<c[1], c[2]>>
    BY <2>5, <2>6
  <2> QED
    BY <2>2, <2>8, <2>9
<1> DEFINE in == {i \in Nat : i <= n /\ <<A, B>> \in f[i]}
<1>5. in # {}
  BY <1>0, <1>1
<1>6. PICK m \in in : \A k \in in : m <= k
  <2>1. in \in SUBSET Nat
    OBVIOUS
  <2> HIDE DEF in
  <2> QED
    BY <1>5, <2>1, HasLeast
<1>7. m \in Nat /\ m <= n /\ <<A, B>> \in f[m]
  BY <1>6
<1>8. CASE m = 0
  <2>0. 0 \in 0 .. n
    BY <1>0
  <2>1. <<A, B>> \in {<<X, X>> : X \in Nonterminal}
    BY <1>2, <1>7, <1>8, <2>0
  <2> QED
    BY <2>1
<1>9. CASE m # 0
  <2>1. m \in 0 .. n /\ m - 1 \in 0 .. n /\ m - 1 \in Nat /\ m - 1 <= n /\ ~(m <= m - 1)
    BY <1>0, <1>7, <1>9
  <2>2. <<A, B>> \in Longer(f[m - 1])
    BY <1>2, <1>7, <1>9, <2>1
  <2>3. <<A, B>> \notin f[m - 1]
    <3>1. m - 1 \notin in
      <4> HIDE DEF in
      <4> QED
        BY <1>6, <2>1
    <3> QED
      BY <2>1, <3>1
  <2>4. PICK c \in f[m - 1] : <<A, B>> \in {c} \cup {<<c[1], Rhs(p)[1]>> : p \in Beginning(c[2])}
    BY <2>2 DEF Longer
  <2>5. PICK q \in Beginning(c[2]) : <<A, B>> = <<c[1], Rhs(q)[1]>>
    BY <2>3, <2>4
  <2>6. q \in DOMAIN Productions /\ Lhs(q) = c[2] /\ Rhs(q) # <<>> /\ Rhs(q)[1] = B /\ c[1] = A
    BY <2>5 DEF Beginning
  <2>7. c \in f[n]
    BY <1>4, <2>1
  <2>8. c = <<c[1], c[2]>>
    BY <1>10, <2>1
  <2> QED
    BY <1>1, <2>6, <2>7, <2>8
<1> QED
  BY <1>8, <1>9

-----------------------------------------------------------------------------
(* The automaton.                                                          *)

\* Where the symbols of the first production may be.
LEMMA OuterPlaces ==
  ASSUME NEW p \in DOMAIN Productions, NEW i \in 1 .. Len(Rhs(p))
  PROVE  /\ Rhs(p)[i] # "$accept"
         /\ Rhs(p)[i] = "input" => p = 1 /\ i = 1
         /\ Rhs(p)[i] = "END" => p = 1 /\ i = 2
<1>1. CASE p # 1
  BY <1>1, OuterSymbols DEF Elsewhere
<1>2. CASE p = 1
  <2>1. Rhs(1) = <<"input", "END">>
    BY GroupRules DEF IsRule
  <2>2. Len(Rhs(1)) = 2 /\ Rhs(1)[1] = "input" /\ Rhs(1)[2] = "END"
    BY <2>1
  <2>3. i \in 1 .. Len(Rhs(1))
    BY <1>2, Zenon
  <2>4. i = 1 \/ i = 2
    <3>1. Len(Rhs(1)) = 2
      BY <2>2
    <3>2. i \in 1 .. 2
      BY ONLY <2>3, <3>1, Zenon
    <3> QED
      BY ONLY <3>2
  <2> QED
    <3>1. Rhs(p)[1] = "input" /\ Rhs(p)[2] = "END"
      BY ONLY <1>2, <2>2
    <3>2. CASE i = 1
      BY ONLY <1>2, <3>1, <3>2
    <3>3. CASE i = 2
      BY ONLY <1>2, <3>1, <3>3
    <3> QED
      BY ONLY <2>4, <3>2, <3>3
<1> QED
  BY <1>1, <1>2

Item == (DOMAIN Productions) \X Nat

\* Closing a state adds only productions of which nothing was seen.
LEMMA ClosureItems ==
  ASSUME NEW s \in SUBSET Item
  PROVE  /\ Closure(s) \in SUBSET Item
         /\ \A it \in Closure(s) : it \in s \/ it[2] = 0
<1>1. ASSUME NEW A \in Nonterminal PROVE Starting[A] \subseteq DOMAIN Productions
  BY DEF Starting
<1> QED
  BY <1>1 DEF Closure, Item

\* A move sees one symbol more.
LEMMA GotoItems ==
  ASSUME NEW s \in SUBSET Item, NEW symbol
  PROVE  /\ Goto(s, symbol) \in SUBSET Item
         /\ \A it \in Goto(s, symbol) :
              /\ it[2] # 0
              /\ <<it[1], it[2] - 1>> \in Closure(s)
              /\ it[2] <= Len(Rhs(it[1])) /\ Rhs(it[1])[it[2]] = symbol
<1> SUFFICES ASSUME NEW it \in Goto(s, symbol)
             PROVE  /\ it \in Item
                    /\ it[2] # 0
                    /\ <<it[1], it[2] - 1>> \in Closure(s)
                    /\ it[2] <= Len(Rhs(it[1])) /\ Rhs(it[1])[it[2]] = symbol
  OBVIOUS
<1>1. PICK i \in Closure(s) : /\ it = <<i[1], i[2] + 1>>
                              /\ i[2] < Len(Rhs(i[1])) /\ Rhs(i[1])[i[2] + 1] = symbol
  BY DEF Goto
<1>2. i \in Item
  BY ClosureItems
<1>3. i[1] \in DOMAIN Productions /\ i[2] \in Nat /\ i = <<i[1], i[2]>>
  BY <1>2 DEF Item
<1>4. Len(Rhs(i[1])) \in Nat
  BY <1>3, ProductionType
<1>5. it[1] = i[1] /\ it[2] = i[2] + 1
  BY <1>1
<1>6. <<it[1], it[2] - 1>> = i
  BY <1>3, <1>5
<1> QED
  BY <1>1, <1>3, <1>4, <1>5, <1>6 DEF Item

\* What is reduced by default is complete, and a state that does not wait for a
\* token has something to reduce.
LEMMA DefaultIsComplete ==
  ASSUME NEW state, NEW lookahead
  PROVE  /\ yydefact(state, lookahead) # NoProduction =>
              yydefact(state, lookahead) \in Complete(state)
         /\ Complete(state) # {} => yydefact(state, lookahead) \in Complete(state)
         /\ IsConsistent(state) => Complete(state) # {}
<1>1. IsConsistent(state) => Complete(state) # {}
  BY FS_EmptySet DEF IsConsistent
<1>2. Complete(state) # {} => yydefact(state, lookahead) \in Complete(state)
  BY DEF yydefact
<1>3. Complete(state) = {} => yydefact(state, lookahead) = NoProduction
  BY DEF yydefact
<1> QED
  BY <1>1, <1>2, <1>3

SymbolAt(stack, k) == SymbolOf(State(stack[k]))

\* The state at k is the one its symbol leads to from the state below.
Entered(stack, k) ==
  IF k = 1 THEN State(stack[k]) = InitialState
  ELSE State(stack[k]) # {} /\ State(stack[k]) = Goto(State(stack[k - 1]), SymbolAt(stack, k))

\* What was seen of a production is on the stack up to k, and the state below was
\* about to begin it.
SeenItem(stack, k, it) ==
  /\ it[2] < k
  /\ it[2] = 0 => it[1] = 1
  /\ <<it[1], 0>> \in Closure(State(stack[k - it[2]]))
  /\ \A i \in 1 .. it[2] : SymbolAt(stack, k - it[2] + i) = Rhs(it[1])[i]

\* What makes an item a seen one.
LEMMA SeenIs ==
  ASSUME NEW stack, NEW k, NEW it,
         it[2] < k, it[2] = 0 => it[1] = 1, <<it[1], 0>> \in Closure(State(stack[k - it[2]])),
         \A i \in 1 .. it[2] : SymbolAt(stack, k - it[2] + i) = Rhs(it[1])[i]
  PROVE  SeenItem(stack, k, it)
BY DEF SeenItem

Path(stack) ==
  /\ Listed(stack) /\ Len(stack) >= 1
  /\ \A k \in 1 .. Len(stack) :
       /\ State(stack[k]) \in SUBSET Item
       /\ Entered(stack, k)
       /\ \A it \in State(stack[k]) : SeenItem(stack, k, it)

\* The stack of the parser is a list of states, and not empty.
LEMMA PathType ==
  ASSUME NEW stack, Path(stack)
  PROVE  /\ Listed(stack) /\ Len(stack) \in Nat /\ Len(stack) >= 1
         /\ \A k \in 1 .. Len(stack) : State(stack[k]) \in SUBSET Item
         /\ State(stack[Len(stack)]) \in SUBSET Item
<1>1. Len(stack) \in Nat /\ Len(stack) >= 1
  BY ListedAppend DEF Path
<1>2. Len(stack) \in 1 .. Len(stack)
  BY <1>1
<1> QED
  BY <1>1, <1>2 DEF Path

\* It depends on the entries up to k only.
LEMMA SameBelow ==
  ASSUME NEW stack, NEW other, NEW k \in Nat, k >= 1,
         \A i \in 1 .. k : stack[i] = other[i],
         State(stack[k]) \in SUBSET Item,
         Entered(stack, k), \A it \in State(stack[k]) : SeenItem(stack, k, it)
  PROVE  /\ State(other[k]) \in SUBSET Item
         /\ Entered(other, k) /\ \A it \in State(other[k]) : SeenItem(other, k, it)
<1>1. stack[k] = other[k] /\ (k # 1 => stack[k - 1] = other[k - 1])
  <2>1. k \in 1 .. k /\ (k # 1 => k - 1 \in 1 .. k)
    OBVIOUS
  <2> QED
    BY <2>1
<1>2. Entered(other, k)
  BY <1>1 DEF Entered, SymbolAt
<1>3. ASSUME NEW it \in State(other[k]) PROVE SeenItem(other, k, it)
  <2>1. SeenItem(stack, k, it) /\ it \in Item
    BY <1>1, <1>3
  <2>2. it[2] \in Nat /\ it[2] < k
    BY <2>1 DEF Item, SeenItem
  <2>3. k - it[2] \in 1 .. k /\ \A i \in 1 .. it[2] : k - it[2] + i \in 1 .. k
    BY <2>2
  <2> QED
    BY <2>1, <2>3 DEF SeenItem, SymbolAt
<1> QED
  BY <1>1, <1>2, <1>3

\* The symbol with which a state is entered is the one that was moved over.
LEMMA MoveSymbol ==
  ASSUME NEW s \in SUBSET Item, NEW symbol, Goto(s, symbol) # {}
  PROVE  SymbolOf(Goto(s, symbol)) = symbol
BY GotoItems DEF SymbolOf

\* The stack that parse() starts with.
LEMMA PathBegins ==
  ASSUME NEW value
  PROVE  Path(push(<<>>, stack_symbol(InitialState, value)))
<1> DEFINE stack == push(<<>>, stack_symbol(InitialState, value))
<1>1. Listed(<<>>) /\ Len(<<>>) = 0
  BY NothingListed
<1>2. Listed(stack) /\ Len(stack) = 1 /\ stack[1] = stack_symbol(InitialState, value)
  <2>1. /\ Listed(stack) /\ Len(stack) = Len(<<>>) + 1
        /\ stack[Len(<<>>) + 1] = stack_symbol(InitialState, value)
    BY ONLY <1>1, ListedAppend, Zenon DEF push, stack
  <2> QED
    BY ONLY <1>1, <2>1
<1>3. <<1, 0>> \in Item
  BY ProductionsList DEF Item
<1> HIDE DEF stack
<1>4. State(stack[1]) = {<<1, 0>>}
  BY <1>2 DEF stack_symbol, State, InitialState
<1>5. ASSUME NEW k \in 1 .. Len(stack)
      PROVE  /\ State(stack[k]) \in SUBSET Item
             /\ Entered(stack, k)
             /\ \A it \in State(stack[k]) : SeenItem(stack, k, it)
  <2>1. k = 1
    BY <1>2
  <2>2. Entered(stack, 1)
    BY <1>4 DEF Entered, InitialState
  <2>3. SeenItem(stack, 1, <<1, 0>>)
    <3>1. <<1, 0>> \in Closure(State(stack[1]))
      BY <1>4 DEF Closure
    <3>2. <<1, 0>>[1] = 1 /\ <<1, 0>>[2] = 0
      OBVIOUS
    <3> QED
      BY <3>1, <3>2 DEF SeenItem
  <2> QED
    BY <1>3, <1>4, <2>1, <2>2, <2>3
<1>6. Path(stack)
  BY <1>2, <1>5 DEF Path
<1> QED
  BY <1>6 DEF stack

\* A symbol more on the stack.
Pushed(stack, symbol, value) ==
  push(stack, stack_symbol(Goto(State(stack[Len(stack)]), symbol), value))

\* The stack after a push, by a shift or a reduction, of a symbol that leads on
\* from the state on top.
LEMMA PathPushed ==
  ASSUME NEW stack, Path(stack), NEW symbol, NEW value,
         Goto(State(stack[Len(stack)]), symbol) # {}
  PROVE  /\ Path(Pushed(stack, symbol, value))
         /\ Len(Pushed(stack, symbol, value)) = Len(stack) + 1
         /\ Pushed(stack, symbol, value)[Len(stack) + 1]
              = stack_symbol(Goto(State(stack[Len(stack)]), symbol), value)
         /\ SymbolAt(Pushed(stack, symbol, value), Len(stack) + 1) = symbol
         /\ \A i \in 1 .. Len(stack) : Pushed(stack, symbol, value)[i] = stack[i]
<1> DEFINE s == State(stack[Len(stack)])
           entered == stack_symbol(Goto(s, symbol), value)
           longer == Pushed(stack, symbol, value)
           n == Len(stack)
<1>1. n \in Nat /\ n >= 1 /\ s \in SUBSET Item /\ Listed(stack)
  BY PathType
<1>2. /\ Listed(longer) /\ Len(longer) = n + 1
      /\ longer[n + 1] = entered
      /\ \A i \in 1 .. n : longer[i] = stack[i]
  BY <1>1, ListedAppend DEF push, Pushed
<1>3. State(entered) = Goto(s, symbol)
  BY DEF State, stack_symbol
<1> HIDE DEF longer, entered
<1>4. Goto(s, symbol) # {} /\ SymbolOf(Goto(s, symbol)) = symbol /\ Goto(s, symbol) \in SUBSET Item
  BY <1>1, MoveSymbol, GotoItems
<1>5. SymbolAt(longer, n + 1) = symbol
  BY <1>2, <1>3, <1>4 DEF SymbolAt
<1>6. State(longer[n]) = s
  BY <1>1, <1>2
<1>7. Entered(longer, n + 1)
  BY <1>1, <1>2, <1>3, <1>4, <1>5, <1>6 DEF Entered
<1>8. \A it \in s : SeenItem(stack, n, it)
  BY <1>1 DEF Path
<1> HIDE DEF s
<1>9. ASSUME NEW it \in Goto(s, symbol) PROVE SeenItem(longer, n + 1, it)
  <2>1. it[2] \in Nat
    BY <1>4, <1>9 DEF Item
  <2>2. /\ it[2] # 0 /\ <<it[1], it[2] - 1>> \in Closure(s)
        /\ Rhs(it[1])[it[2]] = symbol
    BY <1>1, GotoItems
  <2>3. CASE <<it[1], it[2] - 1>> \in s
    <3>1. SeenItem(stack, n, <<it[1], it[2] - 1>>)
      BY <1>8, <2>3
    <3>2. /\ it[2] - 1 < n
          /\ <<it[1], 0>> \in Closure(State(stack[n - (it[2] - 1)]))
          /\ \A i \in 1 .. it[2] - 1 : SymbolAt(stack, n - (it[2] - 1) + i) = Rhs(it[1])[i]
      BY <3>1 DEF SeenItem
    <3>3. n - (it[2] - 1) = (n + 1) - it[2] /\ (n + 1) - it[2] \in 1 .. n
      BY <1>1, <2>1, <2>2, <3>2
    <3>4. <<it[1], 0>> \in Closure(State(longer[(n + 1) - it[2]]))
      BY <1>2, <3>2, <3>3
    <3>5. ASSUME NEW i \in 1 .. it[2] PROVE SymbolAt(longer, (n + 1) - it[2] + i) = Rhs(it[1])[i]
      <4>1. CASE i = it[2]
        <5>1. (n + 1) - it[2] + i = n + 1
          BY <1>1, <2>1, <4>1
        <5> QED
          BY <1>5, <2>2, <4>1, <5>1
      <4>2. CASE i # it[2]
        <5>1. i \in 1 .. it[2] - 1 /\ (n + 1) - it[2] + i \in 1 .. n
              /\ n - (it[2] - 1) + i = (n + 1) - it[2] + i
          BY <1>1, <2>1, <3>3, <4>2
        <5>2. SymbolAt(stack, (n + 1) - it[2] + i) = Rhs(it[1])[i]
          BY <3>2, <5>1
        <5> QED
          BY <1>2, <5>1, <5>2 DEF SymbolAt
      <4> QED
        BY <4>1, <4>2
    <3>6. it[2] < n + 1
      BY <1>1, <2>1, <3>2
    <3> QED
      <4>1. it[2] = 0 => it[1] = 1
        BY ONLY <2>2
      <4> QED
        BY ONLY <3>4, <3>5, <3>6, <4>1, SeenIs
  <2>4. CASE <<it[1], it[2] - 1>> \notin s
    <3>1. it[2] = 1
      <4>1. <<it[1], it[2] - 1>>[2] = 0
        BY <1>1, <2>2, <2>4, ClosureItems
      <4> QED
        BY <2>1, <4>1
    <3>2. <<it[1], 0>> \in Closure(s) /\ (n + 1) - it[2] = n
      BY <1>1, <2>2, <3>1
    <3>3. <<it[1], 0>> \in Closure(State(longer[(n + 1) - it[2]]))
      BY <1>6, <3>2
    <3>4. ASSUME NEW i \in 1 .. it[2] PROVE SymbolAt(longer, (n + 1) - it[2] + i) = Rhs(it[1])[i]
      <4>1. i = 1 /\ (n + 1) - it[2] + i = n + 1
        BY <1>1, <3>1
      <4> QED
        BY <1>5, <2>2, <3>1, <4>1
    <3>5. it[2] < n + 1
      BY <1>1, <3>1
    <3> QED
      <4>1. it[2] = 0 => it[1] = 1
        BY ONLY <2>2
      <4> QED
        BY ONLY <3>3, <3>4, <3>5, <4>1, SeenIs
  <2> QED
    BY <2>3, <2>4
<1>10. ASSUME NEW k \in 1 .. n + 1
       PROVE  /\ State(longer[k]) \in SUBSET Item /\ Entered(longer, k)
              /\ \A it \in State(longer[k]) : SeenItem(longer, k, it)
  <2>1. CASE k = n + 1
    BY <1>2, <1>3, <1>4, <1>7, <1>9, <2>1
  <2>2. CASE k # n + 1
    <3>1. k \in 1 .. n /\ k \in Nat /\ k >= 1 /\ \A i \in 1 .. k : stack[i] = longer[i]
      BY <1>1, <1>2, <2>2
    <3>2. /\ State(stack[k]) \in SUBSET Item /\ Entered(stack, k)
          /\ \A it \in State(stack[k]) : SeenItem(stack, k, it)
      BY <3>1 DEF Path
    <3> QED
      BY ONLY <3>1, <3>2, SameBelow
  <2> QED
    BY <2>1, <2>2
<1>11. Path(longer)
  BY <1>1, <1>2, <1>10 DEF Path
<1> QED
  BY <1>2, <1>5, <1>11 DEF longer, entered, s

\* The stack after a reduction has popped n symbols.
LEMMA PathPopped ==
  ASSUME NEW stack, Path(stack), NEW n \in Nat, n < Len(stack)
  PROVE  /\ Path(pop(stack, n)) /\ Len(pop(stack, n)) = Len(stack) - n
         /\ \A i \in 1 .. Len(stack) - n : pop(stack, n)[i] = stack[i]
<1> DEFINE m == Len(stack) - n
           rest == pop(stack, n)
<1>1. Len(stack) \in Nat /\ Listed(stack)
  BY PathType
<1>2. m \in 0 .. Len(stack) /\ m >= 1 /\ m \in Nat
  BY <1>1
<1>3. Listed(rest) /\ Len(rest) = m /\ \A i \in 1 .. m : rest[i] = stack[i]
  BY <1>1, <1>2, ListedSubSeq DEF pop
<1> HIDE DEF rest
<1>4. ASSUME NEW k \in 1 .. m
      PROVE  /\ State(rest[k]) \in SUBSET Item /\ Entered(rest, k)
             /\ \A it \in State(rest[k]) : SeenItem(rest, k, it)
  <2>1. k \in Nat /\ k >= 1 /\ k \in 1 .. Len(stack) /\ \A i \in 1 .. k : stack[i] = rest[i]
    BY <1>1, <1>2, <1>3
  <2>2. /\ State(stack[k]) \in SUBSET Item /\ Entered(stack, k)
        /\ \A it \in State(stack[k]) : SeenItem(stack, k, it)
    BY <2>1 DEF Path
  <2> QED
    BY ONLY <2>1, <2>2, SameBelow
<1>5. Path(rest)
  BY <1>2, <1>3, <1>4 DEF Path
<1> QED
  BY <1>3, <1>5 DEF rest

\* A complete production is on the stack.
LEMMA CompleteIsOnTheStack ==
  ASSUME NEW stack, Path(stack), NEW p \in Complete(State(stack[Len(stack)]))
  PROVE  LET n == Len(Rhs(p))
         IN  /\ p \in DOMAIN Productions /\ n \in Nat /\ n < Len(stack)
             /\ \A i \in 1 .. n : SymbolAt(stack, Len(stack) - n + i) = Rhs(p)[i]
             /\ <<p, 0>> \in Closure(State(stack[Len(stack) - n]))
<1> DEFINE s == State(stack[Len(stack)])
<1>1. Len(stack) \in Nat /\ Len(stack) >= 1 /\ s \in SUBSET Item
  BY PathType
<1>0. \A it \in s : SeenItem(stack, Len(stack), it)
  BY <1>1 DEF Path
<1>2. PICK it \in Closure(s) : p = it[1] /\ it[2] = Len(Rhs(it[1]))
  BY DEF Complete
<1> HIDE DEF s
<1>3. it \in Item /\ (it \in s \/ it[2] = 0)
  BY <1>1, ClosureItems
<1>4. it[1] \in DOMAIN Productions /\ it[2] \in Nat /\ it = <<it[1], it[2]>>
  BY <1>3 DEF Item
<1>5. CASE it \in s
  <2>1. SeenItem(stack, Len(stack), it)
    BY <1>0, <1>5
  <2> QED
    BY <1>2, <1>4, <2>1 DEF SeenItem
<1>6. CASE it[2] = 0
  <2>1. Len(Rhs(p)) = 0 /\ Len(stack) - 0 = Len(stack)
    BY <1>1, <1>2, <1>6
  <2>2. <<p, 0>> \in Closure(s)
    BY <1>2, <1>4, <1>6
  <2>3. <<p, 0>> \in Closure(State(stack[Len(stack) - Len(Rhs(p))]))
    BY <2>1, <2>2 DEF s
  <2>4. 0 < Len(stack) /\ 1 .. 0 = {}
    BY <1>1
  <2> QED
    BY <1>2, <1>4, <2>1, <2>3, <2>4
<1> QED
  BY <1>3, <1>5, <1>6

\* A production about to begin can be gone over.
LEMMA BegunCanBePassed ==
  ASSUME NEW s \in SUBSET Item, NEW p \in DOMAIN Productions, <<p, 0>> \in Closure(s),
         <<p, 0>> \notin s
  PROVE  Goto(s, Lhs(p)) # {}
<1>1. PICK A \in Wanted(s) \cap Nonterminal : p \in Starting[A]
  BY DEF Closure
<1>2. <<A, Lhs(p)>> \in LeftCorner
  BY <1>1 DEF Starting
<1>3. CASE A = Lhs(p)
  <2>1. PICK it \in s : it[2] < Len(Rhs(it[1])) /\ Rhs(it[1])[it[2] + 1] = A
    BY <1>1 DEF Wanted
  <2>2. it \in Closure(s)
    BY DEF Closure
  <2>3. <<it[1], it[2] + 1>> \in Goto(s, Lhs(p))
    BY <1>3, <2>1, <2>2 DEF Goto
  <2> QED
    BY <2>3
<1>4. CASE A # Lhs(p)
  <2>1. PICK q \in DOMAIN Productions :
          Rhs(q) # <<>> /\ Rhs(q)[1] = Lhs(p) /\ <<A, Lhs(q)>> \in LeftCorner
    BY <1>2, <1>4, Corners
  <2>2. q \in Starting[A]
    BY <1>1, <2>1 DEF Starting
  <2>3. <<q, 0>> \in Closure(s)
    BY <1>1, <2>2 DEF Closure
  <2>4. 0 < Len(Rhs(q))
    BY <2>1, ProductionType
  <2>5. <<q, 0 + 1>> \in Goto(s, Lhs(p))
    BY <2>1, <2>3, <2>4 DEF Goto
  <2> QED
    BY <2>5
<1> QED
  BY <1>3, <1>4

\* What can be shifted leads on.
LEMMA ExpectedCanBeShifted ==
  ASSUME NEW s, NEW kind \in Expected(s)
  PROVE  kind \in Terminal /\ Goto(s, kind) # {}
BY DEF Expected, Wanted, Goto

\* A text begins at the bottom of the stack.
LEMMA StartIsFirst ==
  ASSUME NEW stack, Path(stack), NEW k \in 1 .. Len(stack), <<1, 0>> \in Closure(State(stack[k]))
  PROVE  k = 1
<1> SUFFICES ASSUME k # 1 PROVE FALSE
  OBVIOUS
<1> DEFINE s == State(stack[k])
<1>1. s \in SUBSET Item /\ s = Goto(State(stack[k - 1]), SymbolAt(stack, k))
  BY DEF Path, Entered
<1>2. State(stack[k - 1]) \in SUBSET Item
  <2>1. Len(stack) \in Nat
    BY PathType
  <2>2. k - 1 \in 1 .. Len(stack)
    BY <2>1
  <2> QED
    BY <2>2, PathType
<1> HIDE DEF s
<1>3. <<1, 0>> \notin s
  <2> SUFFICES ASSUME <<1, 0>> \in s PROVE FALSE
    OBVIOUS
  <2>1. \A it \in s : it[2] # 0
    <3>1. PICK below \in SUBSET Item : below = State(stack[k - 1])
      BY <1>2
    <3>2. \A it \in Goto(below, SymbolAt(stack, k)) : it[2] # 0
      BY ONLY below \in SUBSET Item, GotoItems
    <3> QED
      BY <1>1, <3>1, <3>2
  <2>2. <<1, 0>>[2] # 0
    BY <2>1
  <2> QED
    BY <2>2
<1>4. PICK A \in Wanted(s) \cap Nonterminal : 1 \in Starting[A]
  BY <1>3 DEF Closure, s
<1>5. <<A, "$accept">> \in LeftCorner
  BY <1>4, LeftSides, ProductionsList DEF Starting
<1>6. PICK p \in DOMAIN Productions : \E i \in 1 .. Len(Rhs(p)) : Rhs(p)[i] = "$accept"
  <2>1. CASE A = "$accept"
    <3>1. PICK it \in s : it[2] < Len(Rhs(it[1])) /\ Rhs(it[1])[it[2] + 1] = A
      BY <1>4 DEF Wanted
    <3>2. it[1] \in DOMAIN Productions /\ it[2] \in Nat
      BY <1>1 DEF Item
    <3>3. it[2] + 1 \in 1 .. Len(Rhs(it[1]))
      BY <3>1, <3>2, ProductionType
    <3> QED
      BY <2>1, <3>1, <3>2, <3>3
  <2>2. CASE A # "$accept"
    <3>1. PICK q \in DOMAIN Productions : Rhs(q) # <<>> /\ Rhs(q)[1] = "$accept"
      BY <1>5, <2>2, Corners
    <3>2. 1 \in 1 .. Len(Rhs(q))
      BY <3>1, ProductionType
    <3> QED
      BY <3>1, <3>2
  <2> QED
    BY <2>1, <2>2
<1> QED
  BY <1>6, OuterPlaces

\* A complete production other than the first can be reduced.
LEMMA CompleteCanBeReduced ==
  ASSUME NEW stack, Path(stack), NEW p \in Complete(State(stack[Len(stack)])), p # 1
  PROVE  LET below == pop(stack, Len(Rhs(p)))
         IN  Goto(State(below[Len(below)]), Lhs(p)) # {}
<1> DEFINE n == Len(Rhs(p))
           m == Len(stack) - n
           s == State(stack[m])
           below == pop(stack, n)
<1>1. /\ p \in DOMAIN Productions /\ n \in Nat /\ n < Len(stack)
      /\ <<p, 0>> \in Closure(s)
  BY CompleteIsOnTheStack
<1>2. Len(stack) \in Nat
  BY PathType
<1>3. m \in 1 .. Len(stack) /\ m \in 1 .. m
  BY <1>1, <1>2
<1>4. Len(below) = m /\ below[m] = stack[m]
  BY <1>1, <1>3, PathPopped
<1>5. s \in SUBSET Item /\ \A it \in s : SeenItem(stack, m, it)
  BY <1>3 DEF Path
<1>6. <<p, 0>> \notin s
  <2> SUFFICES ASSUME <<p, 0>> \in s PROVE FALSE
    OBVIOUS
  <2>1. SeenItem(stack, m, <<p, 0>>)
    BY <1>5
  <2>2. <<p, 0>>[2] = 0 => <<p, 0>>[1] = 1
    BY <2>1 DEF SeenItem
  <2> QED
    BY <2>2
<1> HIDE DEF s
<1>7. Goto(s, Lhs(p)) # {}
  BY <1>1, <1>5, <1>6, BegunCanBePassed
<1> QED
  BY <1>4, <1>7 DEF s

\* The numbers of the places above an input.
LEMMA Fourth == \A n \in Nat : n >= 3 /\ n # 3 => 4 \in 1 .. n /\ 4 # 1 /\ 4 - 1 = 3
OBVIOUS

\* No place among two has one before it that is the second.
LEMMA Beyond == \A i \in Nat : ~(i - 1 = 2 /\ i \in 1 .. 2)
OBVIOUS

\* The places of the last two symbols of a stack.
LEMMA LastTwo ==
  \A n \in Nat : 2 < n => /\ n - 2 + 1 = n - 1 /\ n - 2 + 2 = n
                          /\ 1 \in 1 .. 2 /\ 2 \in 1 .. 2 /\ n - 1 \in 1 .. n /\ n - 1 # 1
OBVIOUS

\* Above an input there is at most the end of the text, and nothing to reduce.
LEMMA InputIsSecond ==
  ASSUME NEW stack, Path(stack), NEW k \in 1 .. Len(stack), k # 1,
         SymbolAt(stack, k) = "input"
  PROVE  /\ k = 2 /\ Len(stack) <= 3 /\ Complete(State(stack[Len(stack)])) \subseteq {1}
         /\ Len(stack) = 2 \/ IsFinal(State(stack[Len(stack)]))
<1>1. Len(stack) \in Nat /\ Listed(stack) /\ \A j \in 1 .. Len(stack) : State(stack[j]) \in SUBSET Item
  BY PathType
<1>2. ASSUME NEW j \in 1 .. Len(stack), j # 1
      PROVE  /\ j - 1 \in 1 .. Len(stack)
             /\ State(stack[j]) # {}
             /\ \A it \in State(stack[j]) :
                  /\ it[1] \in DOMAIN Productions /\ it[2] \in Nat /\ it = <<it[1], it[2]>>
                  /\ it[2] # 0 /\ it[2] \in 1 .. Len(Rhs(it[1]))
                  /\ <<it[1], it[2] - 1>> \in Closure(State(stack[j - 1]))
                  /\ Rhs(it[1])[it[2]] = SymbolAt(stack, j)
  <2>1. j - 1 \in 1 .. Len(stack)
    BY <1>1, <1>2
  <2>2. State(stack[j]) # {} /\ State(stack[j]) = Goto(State(stack[j - 1]), SymbolAt(stack, j))
    BY <1>2 DEF Path, Entered
  <2>3. ASSUME NEW it \in State(stack[j])
        PROVE  /\ it[1] \in DOMAIN Productions /\ it[2] \in Nat /\ it = <<it[1], it[2]>>
               /\ it[2] # 0 /\ it[2] \in 1 .. Len(Rhs(it[1]))
               /\ <<it[1], it[2] - 1>> \in Closure(State(stack[j - 1]))
               /\ Rhs(it[1])[it[2]] = SymbolAt(stack, j)
    <3>1. it[1] \in DOMAIN Productions /\ it[2] \in Nat /\ it = <<it[1], it[2]>>
      BY <1>1 DEF Item
    <3>2. /\ it[2] # 0 /\ <<it[1], it[2] - 1>> \in Closure(State(stack[j - 1]))
          /\ it[2] <= Len(Rhs(it[1])) /\ Rhs(it[1])[it[2]] = SymbolAt(stack, j)
      <4>1. it \in Goto(State(stack[j - 1]), SymbolAt(stack, j))
        BY <2>2
      <4> QED
        BY ONLY <1>1, <2>1, <4>1, GotoItems
    <3>3. it[2] \in 1 .. Len(Rhs(it[1]))
      BY <3>1, <3>2, ProductionType
    <3> QED
      BY <3>1, <3>2, <3>3
  <2> QED
    BY <2>1, <2>2, <2>3
<1>3. ASSUME NEW it \in State(stack[k]) PROVE it = <<1, 1>>
  <2>1. /\ it[1] \in DOMAIN Productions /\ it = <<it[1], it[2]>>
        /\ it[2] \in 1 .. Len(Rhs(it[1])) /\ Rhs(it[1])[it[2]] = "input"
    BY <1>2
  <2>2. it[1] = 1 /\ it[2] = 1
    BY <2>1, OuterPlaces
  <2> QED
    BY <2>1, <2>2
<1>4. State(stack[k]) = {<<1, 1>>}
  BY <1>2, <1>3
<1>5. k = 2
  <2>1. <<1, 0>> \in Closure(State(stack[k - 1]))
    <3>1. <<1, 1>> \in State(stack[k])
      BY <1>4
    <3>2. <<<<1, 1>>[1], <<1, 1>>[2] - 1>> \in Closure(State(stack[k - 1]))
      BY <1>2, <3>1
    <3> QED
      BY <3>2
  <2>2. k - 1 = 1
    BY <1>2, <2>1, StartIsFirst
  <2> QED
    BY <1>1, <2>2
<1>6. Len(Rhs(1)) = 2 /\ Rhs(1)[1] = "input" /\ Rhs(1)[2] = "END"
  <2>1. Rhs(1) = <<"input", "END">>
    BY GroupRules DEF IsRule
  <2> QED
    BY <2>1
<1>0. Len(Rhs(1)) = 2
  BY <1>6
<1>7. ASSUME NEW j \in {1, 2} PROVE Closure({<<1, j>>}) = {<<1, j>>}
  <2>1. Wanted({<<1, j>>}) \cap Nonterminal = {}
    <3> SUFFICES ASSUME NEW A \in Wanted({<<1, j>>}) PROVE A \notin Nonterminal
      OBVIOUS
    <3>1. j < Len(Rhs(1)) /\ A = Rhs(1)[j + 1]
      BY DEF Wanted
    <3>2. j = 1
      BY ONLY <1>0, <3>1, j \in {1, 2}
    <3>3. A = Rhs(1)[2]
      BY ONLY <3>1, <3>2
    <3> QED
      BY <1>6, <3>3, LeftSides
  <2> QED
    BY <2>1 DEF Closure
<1>8. Complete({<<1, 1>>}) = {}
  <2> SUFFICES ASSUME NEW it \in Closure({<<1, 1>>}), it[2] = Len(Rhs(it[1])) PROVE FALSE
    BY DEF Complete
  <2>1. it = <<1, 1>>
    BY <1>7
  <2>2. it[1] = 1 /\ it[2] = 1
    BY <2>1
  <2> QED
    <3>1. it[2] = Len(Rhs(1))
      BY <2>2, Zenon
    <3>2. 1 = 2
      BY ONLY <1>0, <2>2, <3>1, Zenon
    <3> QED
      BY ONLY <3>2
<1>9. CASE Len(stack) = 2
  BY <1>4, <1>5, <1>8, <1>9
<1>10. CASE Len(stack) # 2
  <2>0. Len(stack) \in Nat /\ Len(stack) >= 3
    <3>1. Len(stack) \in Nat
      BY <1>1
    <3>2. 2 \in 1 .. Len(stack) /\ Len(stack) # 2
      BY <1>5, <1>10, Zenon
    <3>3. \A L \in Nat : 2 \in 1 .. L /\ L # 2 => L >= 3
      BY ONLY TRUE
    <3> QED
      BY ONLY <3>1, <3>2, <3>3, Zenon
  <2>1. 3 \in 1 .. Len(stack) /\ 3 # 1 /\ 3 - 1 = 2
    BY ONLY <2>0
  <2>2. ASSUME NEW it \in State(stack[3]) PROVE it = <<1, 2>>
    <3>1. /\ it[1] \in DOMAIN Productions /\ it[2] \in Nat /\ it = <<it[1], it[2]>>
          /\ <<it[1], it[2] - 1>> \in Closure(State(stack[3 - 1]))
      BY <1>2, <2>1
    <3>2. <<it[1], it[2] - 1>> \in Closure({<<1, 1>>})
      BY <1>4, <1>5, <2>1, <3>1
    <3>3. <<it[1], it[2] - 1>> = <<1, 1>>
      BY <1>7, <3>2
    <3>4. it[1] = 1 /\ it[2] - 1 = 1
      BY <3>3
    <3>5. it[2] = 2
      BY <3>1, <3>4
    <3> QED
      BY <3>1, <3>4, <3>5
  <2>3. State(stack[3]) = {<<1, 2>>}
    <3>1. State(stack[3]) # {}
      BY <1>2, <2>1
    <3> QED
      BY <2>2, <3>1
  <2>4. Len(stack) = 3
    <3> SUFFICES ASSUME Len(stack) # 3 PROVE FALSE
      OBVIOUS
    <3>1. 4 \in 1 .. Len(stack) /\ 4 # 1 /\ 4 - 1 = 3
      <4>1. Len(stack) # 3
        OBVIOUS
      <4> QED
        BY ONLY <2>0, <4>1, Fourth, Zenon
    <3>2. PICK it \in State(stack[4]) : TRUE
      BY <1>2, <3>1
    <3>3. /\ it[2] \in 1 .. Len(Rhs(it[1])) /\ it[2] \in Nat
          /\ <<it[1], it[2] - 1>> \in Closure(State(stack[4 - 1]))
      BY <1>2, <3>1, <3>2
    <3>4. <<it[1], it[2] - 1>> \in Closure({<<1, 2>>})
      BY <2>3, <3>1, <3>3
    <3>5. <<it[1], it[2] - 1>> = <<1, 2>>
      BY <1>7, <3>4
    <3>6. it[1] = 1 /\ it[2] - 1 = 2
      BY <3>5
    <3> QED
      <4>1. it[2] \in 1 .. Len(Rhs(1)) /\ it[2] \in Nat
        BY <3>3, <3>6, Zenon
      <4> QED
        BY ONLY <1>0, <3>6, <4>1, Beyond, Zenon
  <2>5. Complete({<<1, 2>>}) \subseteq {1}
    BY <1>7 DEF Complete
  <2>6. 1 \in Complete({<<1, 2>>})
    <3>1. <<1, 2>> \in Closure({<<1, 2>>})
      BY DEF Closure
    <3>2. <<1, 2>>[1] = 1 /\ <<1, 2>>[2] = Len(Rhs(<<1, 2>>[1]))
      BY ONLY <1>0
    <3> QED
      BY ONLY <3>1, <3>2 DEF Complete
  <2>7. IsFinal(State(stack[3]))
    BY <2>3, <2>6 DEF IsFinal
  <2> QED
    BY <1>5, <2>3, <2>4, <2>5, <2>7
<1> QED
  BY <1>9, <1>10

\* A text that can be accepted is an input and the end.
LEMMA FinalStack ==
  ASSUME NEW stack, Path(stack), IsFinal(State(stack[Len(stack)]))
  PROVE  Len(stack) = 3 /\ SymbolAt(stack, 2) = "input" /\ SymbolAt(stack, 3) = "END"
<1>1. Len(stack) \in Nat
  BY PathType
<1>2. Len(Rhs(1)) = 2 /\ Rhs(1)[1] = "input" /\ Rhs(1)[2] = "END"
  <2>1. Rhs(1) = <<"input", "END">>
    BY GroupRules DEF IsRule
  <2> QED
    BY <2>1
<1>0. Len(Rhs(1)) = 2
  BY <1>2
<1>3. 1 \in Complete(State(stack[Len(stack)]))
  BY DEF IsFinal
<1>4. /\ Len(Rhs(1)) < Len(stack)
      /\ \A i \in 1 .. Len(Rhs(1)) : SymbolAt(stack, Len(stack) - Len(Rhs(1)) + i) = Rhs(1)[i]
  BY <1>3, CompleteIsOnTheStack
<1>5. 2 < Len(stack) /\ \A i \in 1 .. 2 : SymbolAt(stack, Len(stack) - 2 + i) = Rhs(1)[i]
  BY ONLY <1>0, <1>4, Zenon
<1>6. /\ Len(stack) - 2 + 1 = Len(stack) - 1 /\ Len(stack) - 2 + 2 = Len(stack)
      /\ 1 \in 1 .. 2 /\ 2 \in 1 .. 2 /\ Len(stack) - 1 \in 1 .. Len(stack) /\ Len(stack) - 1 # 1
  <2>1. 2 < Len(stack)
    BY ONLY <1>5, Zenon
  <2> QED
    BY ONLY <1>1, <2>1, LastTwo, Zenon
<1>7. SymbolAt(stack, Len(stack) - 1) = Rhs(1)[1] /\ SymbolAt(stack, Len(stack)) = Rhs(1)[2]
  BY ONLY <1>5, <1>6, Zenon
<1>8. Len(stack) - 1 = 2
  BY <1>2, <1>6, <1>7, InputIsSecond
<1>9. Len(stack) = 3
  BY <1>1, <1>8
<1>10. SymbolAt(stack, 2) = Rhs(1)[1] /\ SymbolAt(stack, 3) = Rhs(1)[2]
  BY ONLY <1>7, <1>8, <1>9, Zenon
<1> QED
  BY <1>2, <1>9, <1>10

\* An element follows.
LEMMA MapGrows ==
  ASSUME NEW N, NEW s \in Seq(N), NEW x \in N
  PROVE  /\ Append(s, x) \in Seq(N) /\ Len(s) \in Nat /\ Len(Append(s, x)) = Len(s) + 1
         /\ DOMAIN s = 1 .. Len(s) /\ DOMAIN Append(s, x) = 1 .. Len(s) + 1
         /\ \A i \in 1 .. Len(s) : Append(s, x)[i] = s[i] /\ s[i] \in N
         /\ Append(s, x)[Len(s) + 1] = x
BY AppendProperties, LenProperties, ElementOfSeq

-----------------------------------------------------------------------------
(* Unfolding.                                                              *)

\* The texts of the nodes N are made of nodes of N.
Closed(N) == \A n \in N : Unfold(n) \in Seq(N)

\* An empty text stays empty.
LEMMA NothingUnfolds == Unfolding(<<>>) = <<>>
<1> DEFINE e == [j \in DOMAIN <<>> |-> Unfold(<<>>[j])]
<1>1. e \in [1 .. 0 -> {}]
  OBVIOUS
<1>2. Unfolding(<<>>) = FlattenSeq(e)
  BY DEF Unfolding
<1> HIDE DEF e
<1>3. 0 \in Nat
  OBVIOUS
<1>4. FlattenSeq(e) = <<>>
  BY ONLY <1>1, <1>3, FlattenIs
<1> QED
  BY <1>2, <1>4

\* A node more is unfolded after the others.
LEMMA UnfoldingGrows ==
  ASSUME NEW N, Closed(N), NEW s \in Seq(N), NEW x \in N
  PROVE  /\ Unfolding(s) \in Seq(N)
         /\ Unfolding(Append(s, x)) = Unfolding(s) \o Unfold(x)
<1> DEFINE l == Append(s, x)
           n == Len(s)
           f == [j \in 1 .. n |-> Unfold(s[j])]
           g == [j \in 1 .. n + 1 |-> Unfold(l[j])]
<1>1. /\ n \in Nat /\ DOMAIN s = 1 .. n /\ DOMAIN l = 1 .. n + 1
      /\ \A i \in 1 .. n : l[i] = s[i] /\ s[i] \in N
      /\ l[n + 1] = x
  BY MapGrows
<1> HIDE DEF l, n
<1>2. \A i \in 1 .. n : Unfold(s[i]) \in Seq(N) /\ Unfold(l[i]) = Unfold(s[i])
  BY <1>1 DEF Closed
<1>3. Unfold(l[n + 1]) = Unfold(x) /\ Unfold(x) \in Seq(N)
  BY <1>1 DEF Closed
<1>4. f \in [1 .. n -> Seq(N)]
  BY <1>2
<1>5. g \in [1 .. n + 1 -> Seq(N)]
  <2>1. ASSUME NEW j \in 1 .. n + 1 PROVE Unfold(l[j]) \in Seq(N)
    <3>1. j \in 1 .. n \/ j = n + 1
      BY <1>1
    <3> QED
      BY <1>2, <1>3, <3>1
  <2> QED
    BY <2>1
<1>6. \A i \in 1 .. n : f[i] = g[i]
  <2>1. \A i \in 1 .. n : i \in 1 .. n + 1
    BY <1>1
  <2> QED
    BY <1>2, <2>1
<1>7. g[n + 1] = Unfold(x)
  <2>1. n + 1 \in 1 .. n + 1
    BY <1>1
  <2> QED
    BY <1>3, <2>1
<1>8. Unfolding(s) = FlattenSeq(f) /\ Unfolding(l) = FlattenSeq(g)
  BY <1>1 DEF Unfolding
<1> HIDE DEF f, g
<1>9. FlattenSeq(f) \in Seq(N) /\ FlattenSeq(g) = FlattenSeq(f) \o g[n + 1]
  BY ONLY <1>1, <1>4, <1>5, <1>6, FlattenType, FlattenStep
<1>10. Unfolding(l) = Unfolding(s) \o Unfold(x)
  BY ONLY <1>7, <1>8, <1>9, Zenon
<1>11. Unfolding(s) \in Seq(N)
  BY ONLY <1>8, <1>9, Zenon
<1> QED
  BY <1>10, <1>11 DEF l

\* Unfolding stays within the nodes.
LEMMA UnfoldingType ==
  ASSUME NEW N, Closed(N), NEW s \in Seq(N)
  PROVE  Unfolding(s) \in Seq(N)
<1>1. CASE s = <<>>
  BY <1>1, NothingUnfolds
<1>2. CASE s # <<>>
  <2>1. Len(s) \in 1 .. Len(s)
    <3>1. Len(s) \in Nat \ {0}
      BY <1>2, EmptySeq
    <3> QED
      BY <3>1
  <2>2. s[1] \in N
    <3>1. 1 \in 1 .. Len(s)
      BY <2>1
    <3> QED
      BY <3>1, ElementOfSeq
  <2> QED
    BY <2>2, UnfoldingGrows
<1> QED
  BY <1>1, <1>2

\* A node alone is unfolded to its text.
LEMMA UnfoldingOne ==
  ASSUME NEW N, Closed(N), NEW x \in N
  PROVE  Unfolding(<<x>>) = Unfold(x)
<1>1. <<>> \in Seq(N) /\ Append(<<>>, x) = <<x>>
  OBVIOUS
<1>2. Unfolding(Append(<<>>, x)) = Unfolding(<<>>) \o Unfold(x) /\ Unfolding(<<>>) = <<>>
  BY ONLY <1>1, UnfoldingGrows, NothingUnfolds, Closed(N), x \in N
<1>3. Unfold(x) \in Seq(N)
  BY DEF Closed
<1>4. <<>> \o Unfold(x) = Unfold(x)
  BY ONLY <1>3, ConcatEmptySeq
<1> QED
  BY ONLY <1>1, <1>2, <1>4, Zenon

\* Two texts are unfolded one after the other.
LEMMA UnfoldingConcat ==
  ASSUME NEW N, Closed(N), NEW s \in Seq(N), NEW t \in Seq(N)
  PROVE  Unfolding(s \o t) = Unfolding(s) \o Unfolding(t)
<1> DEFINE upTo(j) == SubSeq(t, 1, j)
           right(j) == Unfolding(s \o upTo(j)) = Unfolding(s) \o Unfolding(upTo(j))
           wrong == {j \in 0 .. Len(t) : ~right(j)}
<1>1. Len(t) \in Nat
  BY LenProperties
<1>2. ASSUME NEW j \in 0 .. Len(t) PROVE upTo(j) \in Seq(N)
  <2>1. \A i \in 1 .. j : t[i] \in N
    BY <1>1, ElementOfSeq
  <2> QED
    BY <2>1, SubSeqProperties
<1>3. right(0)
  <2>1. upTo(0) = <<>>
    BY SubSeqEmpty
  <2>2. Unfolding(s) \in Seq(N) /\ Unfolding(<<>>) = <<>>
    BY UnfoldingType, NothingUnfolds
  <2>3. s \o <<>> = s /\ Unfolding(s) \o <<>> = Unfolding(s)
    BY <2>2, ConcatEmptySeq
  <2> QED
    BY ONLY <2>1, <2>2, <2>3, Zenon
<1>4. ASSUME NEW j \in 0 .. Len(t), j # Len(t), right(j) PROVE right(j + 1)
  <2> DEFINE u == upTo(j)
             x == t[j + 1]
  <2>1. j + 1 \in 1 .. Len(t) /\ (j + 1) - 1 = j /\ 1 \in 1 .. Len(t) /\ j + 1 \in 1 .. Len(t)
    BY <1>1, <1>4
  <2>2. x \in N /\ u \in Seq(N)
    BY <1>2, <2>1, ElementOfSeq
  <2>3. upTo(j + 1) = u \o <<x>>
    BY <2>1, SubSeqRecursiveSecond
  <2> HIDE DEF u, x
  <2>4. u \o <<x>> = Append(u, x)
    BY <2>2, AppendIsConcat
  <2>5. s \o u \in Seq(N) /\ s \o (u \o <<x>>) = Append(s \o u, x)
    <3>1. s \o u \in Seq(N) /\ <<x>> \in Seq(N)
      BY <2>2, ConcatProperties
    <3>2. (s \o u) \o <<x>> = s \o (u \o <<x>>)
      BY <2>2, <3>1, ConcatAssociative
    <3>3. Append(s \o u, x) = (s \o u) \o <<x>>
      BY <2>2, <3>1, AppendIsConcat
    <3> QED
      BY <3>1, <3>2, <3>3
  <2>6. /\ Unfolding(Append(s \o u, x)) = Unfolding(s \o u) \o Unfold(x)
        /\ Unfolding(Append(u, x)) = Unfolding(u) \o Unfold(x)
        /\ Unfolding(u) \in Seq(N) /\ Unfolding(s) \in Seq(N)
    BY ONLY Closed(N), s \in Seq(N), <2>2, <2>5, UnfoldingGrows
  <2>7. Unfold(x) \in Seq(N)
    BY <2>2 DEF Closed
  <2>8. Unfolding(s \o u) = Unfolding(s) \o Unfolding(u)
    BY <1>4 DEF u
  <2>9. (Unfolding(s) \o Unfolding(u)) \o Unfold(x) = Unfolding(s) \o (Unfolding(u) \o Unfold(x))
    BY ONLY <2>6, <2>7, ConcatAssociative, SMTT(30)
  <2> QED
    BY ONLY <2>3, <2>4, <2>5, <2>6, <2>8, <2>9, Zenon
<1>5. wrong = {}
  <2> SUFFICES ASSUME wrong # {} PROVE FALSE
    OBVIOUS
  <2>1. PICK m \in wrong : \A k \in wrong : m <= k
    <3>1. wrong \in SUBSET Nat
      BY <1>1
    <3> HIDE DEF wrong
    <3> QED
      BY <3>1, HasLeast
  <2> HIDE DEF right
  <2>2. m \in 0 .. Len(t) /\ ~right(m)
    BY <2>1
  <2>3. m # 0
    BY <1>3, <2>2
  <2>4. m - 1 \in 0 .. Len(t) /\ m - 1 # Len(t) /\ (m - 1) + 1 = m /\ ~(m <= m - 1)
    BY <1>1, <2>2, <2>3
  <2>5. right(m - 1)
    BY <2>1, <2>4
  <2>6. right((m - 1) + 1)
    BY <1>4, <2>4, <2>5
  <2> QED
    BY <2>2, <2>4, <2>6
<1>6. Len(t) \in 0 .. Len(t)
  BY <1>1
<1>7. right(Len(t))
  BY <1>5, <1>6
<1>8. upTo(Len(t)) = t
  BY SubSeqFull
<1> QED
  BY <1>7, <1>8

IsUnfolded(f, text, k) == f = [i \in 0 .. k |-> IF i = 0 THEN text ELSE Unfolding(f[i - 1])]

\* The function of which Unfolded is a value, level by level.
LEMMA UnfoldedStep ==
  ASSUME NEW f, NEW text, NEW k \in Nat, IsUnfolded(f, text, k), NEW i \in 0 .. k
  PROVE  f[i] = IF i = 0 THEN text ELSE Unfolding(f[i - 1])
BY DEF IsUnfolded

\* That function exists for every number of levels.
LEMMA UnfoldedExists == \A text : \A k \in Nat : \E f : IsUnfolded(f, text, k)
<1> TAKE text
<1> DEFINE S == {k \in Nat : \E f : IsUnfolded(f, text, k)}
<1>1. 0 \in S
  <2> DEFINE f == [i \in 0 .. 0 |-> text]
  <2>1. f = [i \in 0 .. 0 |-> IF i = 0 THEN text ELSE Unfolding(f[i - 1])]
    OBVIOUS
  <2>2. IsUnfolded(f, text, 0)
    BY <2>1 DEF IsUnfolded
  <2> QED
    BY <2>2
<1>2. ASSUME NEW k \in Nat, k \in S PROVE k + 1 \in S
  <2>1. PICK f : IsUnfolded(f, text, k)
    BY <1>2
  <2> DEFINE h == [i \in 0 .. k + 1 |-> IF i <= k THEN f[i] ELSE Unfolding(f[k])]
  <2>2. ASSUME NEW i \in 0 .. k + 1 PROVE h[i] = IF i = 0 THEN text ELSE Unfolding(h[i - 1])
    <3>1. CASE i <= k
      <4>1. i \in 0 .. k
        BY <3>1
      <4>2. f[i] = IF i = 0 THEN text ELSE Unfolding(f[i - 1])
        BY <2>1, <4>1, UnfoldedStep
      <4>3. h[i] = f[i] /\ (i # 0 => h[i - 1] = f[i - 1])
        BY <4>1
      <4> HIDE DEF h
      <4> QED
        BY <4>2, <4>3
    <3>2. CASE ~(i <= k)
      <4>1. i = k + 1 /\ i # 0 /\ i - 1 = k /\ k \in 0 .. k + 1
        BY <3>2
      <4>2. h[i] = Unfolding(f[k]) /\ h[k] = f[k]
        BY <3>2, <4>1
      <4> HIDE DEF h
      <4> QED
        BY <4>1, <4>2
    <3> QED
      BY <3>1, <3>2
  <2>3. h = [i \in 0 .. k + 1 |-> h[i]]
    OBVIOUS
  <2> HIDE DEF h
  <2>4. IsUnfolded(h, text, k + 1)
    BY <2>2, <2>3 DEF IsUnfolded
  <2> QED
    BY <2>4
<1> HIDE DEF S
<1>3. \A k \in Nat : k \in S
  BY <1>1, <1>2, Induct
<1> QED
  BY <1>3 DEF S

\* It does not depend on the number of levels it is defined for.
LEMMA UnfoldedAgrees ==
  ASSUME NEW f, NEW h, NEW text, NEW k \in Nat, NEW m \in Nat, k <= m,
         IsUnfolded(f, text, k), IsUnfolded(h, text, m)
  PROVE  f[k] = h[k]
<1> DEFINE S == {i \in Nat : i <= k => f[i] = h[i]}
<1>1. 0 \in S
  <2>1. 0 \in 0 .. k /\ 0 \in 0 .. m
    OBVIOUS
  <2>2. f[0] = text /\ h[0] = text
    BY <2>1, UnfoldedStep
  <2> QED
    BY <2>2
<1>2. ASSUME NEW i \in Nat, i \in S PROVE i + 1 \in S
  <2> SUFFICES ASSUME i + 1 <= k PROVE f[i + 1] = h[i + 1]
    OBVIOUS
  <2>1. i + 1 \in 0 .. k /\ i + 1 \in 0 .. m /\ i + 1 # 0 /\ (i + 1) - 1 = i
    OBVIOUS
  <2>2. f[i + 1] = Unfolding(f[(i + 1) - 1]) /\ h[i + 1] = Unfolding(h[(i + 1) - 1])
    BY <2>1, UnfoldedStep
  <2>3. f[i] = h[i]
    BY <1>2
  <2> QED
    BY <2>1, <2>2, <2>3
<1> HIDE DEF S
<1>3. k \in S
  BY <1>1, <1>2, Induct
<1> QED
  BY <1>3 DEF S

\* Unfolded is its last value.
LEMMA UnfoldedIs ==
  ASSUME NEW text, NEW k \in Nat
  PROVE  \E f : IsUnfolded(f, text, k) /\ Unfolded(text, k) = f[k]
<1> DEFINE g == CHOOSE g : IsUnfolded(g, text, k)
<1>1. IsUnfolded(g, text, k)
  BY UnfoldedExists, Zenon
<1>2. Unfolded(text, k) = g[k]
  BY DEF Unfolded, IsUnfolded
<1> HIDE DEF g
<1> QED
  BY <1>1, <1>2

\* A text is unfolded level by level.
LEMMA UnfoldedLevels ==
  ASSUME NEW text, NEW k \in Nat
  PROVE  /\ Unfolded(text, 0) = text
         /\ Unfolded(text, k + 1) = Unfolding(Unfolded(text, k))
<1>1. Unfolded(text, 0) = text
  <2>1. PICK f : IsUnfolded(f, text, 0) /\ Unfolded(text, 0) = f[0]
    BY UnfoldedIs
  <2>2. 0 \in 0 .. 0
    OBVIOUS
  <2> QED
    BY <2>1, <2>2, UnfoldedStep
<1>2. PICK f : IsUnfolded(f, text, k) /\ Unfolded(text, k) = f[k]
  BY UnfoldedIs
<1>3. PICK h : IsUnfolded(h, text, k + 1) /\ Unfolded(text, k + 1) = h[k + 1]
  BY UnfoldedIs
<1>4. k + 1 \in Nat /\ k + 1 \in 0 .. k + 1 /\ k + 1 # 0 /\ (k + 1) - 1 = k /\ k <= k + 1
  OBVIOUS
<1>5. h[k + 1] = Unfolding(h[(k + 1) - 1])
  BY ONLY <1>3, <1>4, UnfoldedStep
<1>6. f[k] = h[k]
  BY ONLY <1>2, <1>3, <1>4, k \in Nat, UnfoldedAgrees
<1> QED
  BY ONLY <1>1, <1>2, <1>3, <1>4, <1>5, <1>6, Zenon

\* Unfolding a text any number of times stays within the nodes.
LEMMA UnfoldedType ==
  ASSUME NEW N, Closed(N), NEW s \in Seq(N)
  PROVE  \A k \in Nat : Unfolded(s, k) \in Seq(N)
<1> DEFINE S == {k \in Nat : Unfolded(s, k) \in Seq(N)}
<1>1. 0 \in S
  BY UnfoldedLevels
<1>2. ASSUME NEW k \in Nat, k \in S PROVE k + 1 \in S
  BY UnfoldedLevels, UnfoldingType, <1>2
<1> HIDE DEF S
<1>3. \A k \in Nat : k \in S
  BY <1>1, <1>2, Induct
<1> QED
  BY <1>3 DEF S

\* Two texts are unfolded one after the other, at every level.
LEMMA UnfoldedConcat ==
  ASSUME NEW N, Closed(N), NEW s \in Seq(N), NEW t \in Seq(N)
  PROVE  \A k \in Nat : Unfolded(s \o t, k) = Unfolded(s, k) \o Unfolded(t, k)
<1> DEFINE S == {k \in Nat : Unfolded(s \o t, k) = Unfolded(s, k) \o Unfolded(t, k)}
<1>1. 0 \in S
  BY UnfoldedLevels
<1>2. ASSUME NEW k \in Nat, k \in S PROVE k + 1 \in S
  <2>1. /\ Unfolded(s, k) \in Seq(N) /\ Unfolded(t, k) \in Seq(N)
        /\ Unfolded(s \o t, k) = Unfolded(s, k) \o Unfolded(t, k)
    BY <1>2, UnfoldedType
  <2>2. /\ Unfolded(s, k + 1) = Unfolding(Unfolded(s, k))
        /\ Unfolded(t, k + 1) = Unfolding(Unfolded(t, k))
        /\ Unfolded(s \o t, k + 1) = Unfolding(Unfolded(s \o t, k))
    BY UnfoldedLevels
  <2>3. Unfolding(Unfolded(s, k) \o Unfolded(t, k))
          = Unfolding(Unfolded(s, k)) \o Unfolding(Unfolded(t, k))
    BY <2>1, UnfoldingConcat
  <2>4. Unfolded(s \o t, k + 1) = Unfolded(s, k + 1) \o Unfolded(t, k + 1)
    BY ONLY <2>1, <2>2, <2>3, Zenon
  <2> QED
    BY <2>4
<1> HIDE DEF S
<1>3. \A k \in Nat : k \in S
  BY <1>1, <1>2, Induct
<1> QED
  BY <1>3 DEF S

\* A node is unfolded one level after its text.
LEMMA UnfoldedNode ==
  ASSUME NEW N, Closed(N), NEW n \in N
  PROVE  \A k \in Nat : Unfolded(<<n>>, k + 1) = Unfolded(Unfold(n), k)
<1> DEFINE S == {k \in Nat : Unfolded(<<n>>, k + 1) = Unfolded(Unfold(n), k)}
<1>1. 0 \in S
  <2>1. Unfolded(<<n>>, 0 + 1) = Unfolding(Unfolded(<<n>>, 0)) /\ Unfolded(<<n>>, 0) = <<n>>
    BY UnfoldedLevels
  <2>2. Unfolding(<<n>>) = Unfold(n) /\ Unfolded(Unfold(n), 0) = Unfold(n)
    BY UnfoldingOne, UnfoldedLevels
  <2> QED
    BY <2>1, <2>2
<1>2. ASSUME NEW k \in Nat, k \in S PROVE k + 1 \in S
  <2>1. Unfolded(<<n>>, k + 1) = Unfolded(Unfold(n), k) /\ k + 1 \in Nat
    BY <1>2
  <2>2. /\ Unfolded(<<n>>, (k + 1) + 1) = Unfolding(Unfolded(<<n>>, k + 1))
        /\ Unfolded(Unfold(n), k + 1) = Unfolding(Unfolded(Unfold(n), k))
    BY <2>1, UnfoldedLevels
  <2> QED
    BY <2>1, <2>2
<1> HIDE DEF S
<1>3. \A k \in Nat : k \in S
  BY <1>1, <1>2, Induct
<1> QED
  BY <1>3 DEF S

\* What is its own text.
Plain(ts) == \A i \in DOMAIN ts : Unfold(ts[i]) = <<ts[i]>>

\* Tokens are their own text.
LEMMA PlainStays ==
  ASSUME NEW N, Closed(N), NEW ts \in Seq(N), Plain(ts)
  PROVE  Unfolding(ts) = ts
<1> DEFINE upTo(j) == SubSeq(ts, 1, j)
           S == {j \in Nat : j <= Len(ts) => Unfolding(upTo(j)) = upTo(j)}
<1>1. Len(ts) \in Nat /\ DOMAIN ts = 1 .. Len(ts)
  BY LenProperties
<1>2. ASSUME NEW j \in 0 .. Len(ts) PROVE upTo(j) \in Seq(N)
  <2>1. \A i \in 1 .. j : ts[i] \in N
    BY <1>1, ElementOfSeq
  <2> QED
    BY <2>1, SubSeqProperties
<1>3. 0 \in S
  <2>1. upTo(0) = <<>>
    BY SubSeqEmpty
  <2>2. Unfolding(upTo(0)) = upTo(0)
    BY <2>1, NothingUnfolds
  <2> QED
    BY <2>2
<1>4. ASSUME NEW j \in Nat, j \in S PROVE j + 1 \in S
  <2> SUFFICES ASSUME j + 1 <= Len(ts) PROVE Unfolding(upTo(j + 1)) = upTo(j + 1)
    OBVIOUS
  <2> DEFINE u == upTo(j)
             x == ts[j + 1]
  <2>1. j + 1 \in 1 .. Len(ts) /\ (j + 1) - 1 = j /\ 1 \in 1 .. Len(ts) /\ j \in 0 .. Len(ts)
    BY <1>1
  <2>2. x \in N /\ u \in Seq(N) /\ Unfold(x) = <<x>>
    BY <1>1, <1>2, <2>1, ElementOfSeq DEF Plain
  <2>3. upTo(j + 1) = u \o <<x>>
    BY <2>1, SubSeqRecursiveSecond
  <2>4. Unfolding(u) = u
    BY <1>1, <1>4, <2>1
  <2> HIDE DEF u, x
  <2>5. u \o <<x>> = Append(u, x) /\ Unfolding(Append(u, x)) = Unfolding(u) \o Unfold(x)
    BY <2>2, AppendIsConcat, UnfoldingGrows
  <2> QED
    BY ONLY <2>2, <2>3, <2>4, <2>5, Zenon
<1> HIDE DEF S
<1>5. Len(ts) \in S
  BY <1>1, <1>3, <1>4, Induct
<1>6. Unfolding(upTo(Len(ts))) = upTo(Len(ts))
  BY <1>1, <1>5 DEF S
<1>7. upTo(Len(ts)) = ts
  BY SubSeqFull
<1> QED
  BY <1>6, <1>7

\* The beginning of a text of tokens is one.
LEMMA PlainPart ==
  ASSUME NEW N, NEW s \in Seq(N), NEW t \in Seq(N), Plain(s \o t)
  PROVE  Plain(s)
<1>1. /\ Len(s) \in Nat /\ Len(t) \in Nat /\ DOMAIN s = 1 .. Len(s)
      /\ s \o t \in Seq(N) /\ Len(s \o t) = Len(s) + Len(t)
      /\ \A i \in 1 .. Len(s) + Len(t) : (s \o t)[i] = IF i <= Len(s) THEN s[i] ELSE t[i - Len(s)]
  BY LenProperties, ConcatProperties
<1>2. DOMAIN (s \o t) = 1 .. Len(s) + Len(t)
  BY <1>1, LenProperties
<1>3. \A i \in 1 .. Len(s) : i \in 1 .. Len(s) + Len(t) /\ (s \o t)[i] = s[i]
  BY <1>1
<1> QED
  BY <1>1, <1>2, <1>3 DEF Plain

\* A text of which a part is replaced by a node with that text is written with
\* the same tokens, one level up.
LEMMA NodeIsWritten ==
  ASSUME NEW N, Closed(N), NEW s \in Seq(N), NEW n \in N, NEW ts, Plain(ts),
         NEW k \in Nat, Unfolded(s \o Unfold(n), k) = ts
  PROVE  Unfolded(s \o <<n>>, k + 1) = ts
<1>1. Unfold(n) \in Seq(N) /\ <<n>> \in Seq(N) /\ k + 1 \in Nat
  BY DEF Closed
<1>2. /\ Unfolded(s, k) \in Seq(N) /\ Unfolded(Unfold(n), k) \in Seq(N)
      /\ ts = Unfolded(s, k) \o Unfolded(Unfold(n), k)
  <2>1. PICK u \in Seq(N) : u = Unfold(n)
    BY <1>1
  <2>2. Unfolded(s, k) \in Seq(N) /\ Unfolded(u, k) \in Seq(N)
    BY UnfoldedType
  <2>3. Unfolded(s \o u, k) = Unfolded(s, k) \o Unfolded(u, k)
    BY UnfoldedConcat
  <2> QED
    BY <2>1, <2>2, <2>3
<1>3. Plain(Unfolded(s, k))
  BY <1>2, PlainPart
<1>4. Unfolded(s, k + 1) = Unfolded(s, k)
  BY <1>2, <1>3, UnfoldedLevels, PlainStays
<1>5. Unfolded(s \o <<n>>, k + 1) = Unfolded(s, k + 1) \o Unfolded(<<n>>, k + 1)
  <2>1. PICK u \in Seq(N) : u = <<n>>
    BY <1>1
  <2>2. PICK m \in Nat : m = k + 1
    OBVIOUS
  <2>3. Unfolded(s \o u, m) = Unfolded(s, m) \o Unfolded(u, m)
    BY ONLY Closed(N), s \in Seq(N), u \in Seq(N), m \in Nat, UnfoldedConcat
  <2> QED
    BY ONLY <2>1, <2>2, <2>3, Zenon
<1>6. Unfolded(<<n>>, k + 1) = Unfolded(Unfold(n), k)
  BY UnfoldedNode
<1> QED
  BY <1>2, <1>4, <1>5, <1>6

\* A token more.
LEMMA TokenIsWritten ==
  ASSUME NEW N, Closed(N), NEW s \in Seq(N), NEW t \in N, Unfold(t) = <<t>>,
         NEW k \in Nat
  PROVE  Unfolded(s \o <<t>>, k) = Unfolded(s, k) \o <<t>>
<1> DEFINE S == {i \in Nat : Unfolded(<<t>>, i) = <<t>>}
<1>1. 0 \in S
  BY UnfoldedLevels
<1>2. ASSUME NEW i \in Nat, i \in S PROVE i + 1 \in S
  <2>1. Unfolded(<<t>>, i + 1) = Unfolding(<<t>>)
    BY <1>2, UnfoldedLevels
  <2>2. Unfolding(<<t>>) = <<t>>
    BY UnfoldingOne
  <2> QED
    BY <2>1, <2>2
<1> HIDE DEF S
<1>3. k \in S
  BY <1>1, <1>2, Induct
<1>4. Unfolded(<<t>>, k) = <<t>>
  BY <1>3 DEF S
<1>5. <<t>> \in Seq(N)
  OBVIOUS
<1>6. Unfolded(s \o <<t>>, k) = Unfolded(s, k) \o Unfolded(<<t>>, k)
  <2>1. PICK u \in Seq(N) : u = <<t>>
    BY <1>5
  <2>2. Unfolded(s \o u, k) = Unfolded(s, k) \o Unfolded(u, k)
    BY UnfoldedConcat
  <2> QED
    BY <2>1, <2>2
<1> QED
  BY <1>4, <1>6

\* The first n texts, one after the other.
FirstTexts(s, n) == FlattenSeq([i \in 1 .. n |-> s[i]])

\* One text more is put behind the others.
LEMMA FirstTextsGrow ==
  ASSUME NEW S, NEW m \in Nat, NEW s, \A i \in 1 .. m : s[i] \in Seq(S),
         NEW n \in Nat, n + 1 <= m
  PROVE  /\ FirstTexts(s, n) \in Seq(S)
         /\ FirstTexts(s, n + 1) = FirstTexts(s, n) \o s[n + 1]
<1> DEFINE f == [i \in 1 .. n |-> s[i]]
           g == [i \in 1 .. n + 1 |-> s[i]]
<1>1. f \in [1 .. n -> Seq(S)] /\ g \in [1 .. n + 1 -> Seq(S)]
  OBVIOUS
<1>2. (\A i \in 1 .. n : f[i] = g[i]) /\ g[n + 1] = s[n + 1]
  OBVIOUS
<1> HIDE DEF f, g
<1>3. FlattenSeq(f) \in Seq(S) /\ FlattenSeq(g) = FlattenSeq(f) \o g[n + 1]
  BY ONLY n \in Nat, <1>1, <1>2, FlattenType, FlattenStep
<1>5. FirstTexts(s, n) = FlattenSeq(f) /\ FirstTexts(s, n + 1) = FlattenSeq(g)
  BY DEF FirstTexts, f, g
<1> QED
  BY ONLY <1>2, <1>3, <1>5, Zenon

\* No texts at all are empty.
LEMMA NoText == \A s : FirstTexts(s, 0) = <<>>
<1> TAKE s
<1>1. [i \in 1 .. 0 |-> s[i]] \in [1 .. 0 -> {}] /\ 0 \in Nat
  OBVIOUS
<1> QED
  BY <1>1, FlattenIs DEF FirstTexts

\* Texts of nodes of S, one after the other, are a text of nodes of S.
LEMMA FirstTextsType ==
  ASSUME NEW S, NEW n \in Nat, n # 0, NEW s, \A i \in 1 .. n : s[i] \in Seq(S)
  PROVE  FirstTexts(s, n) \in Seq(S)
<1>1. n - 1 \in Nat /\ (n - 1) + 1 = n /\ (n - 1) + 1 <= n /\ n \in 1 .. n
  OBVIOUS
<1>2. PICK k \in Nat : k = n - 1
  BY <1>1
<1>3. FirstTexts(s, k) \in Seq(S) /\ FirstTexts(s, k + 1) = FirstTexts(s, k) \o s[k + 1]
  <2>1. k + 1 <= n
    BY <1>2
  <2> QED
    BY ONLY <2>1, k \in Nat, n \in Nat, \A i \in 1 .. n : s[i] \in Seq(S), FirstTextsGrow
<1>4. k + 1 = n
  BY <1>2
<1>5. PICK a \in Seq(S) : a = FirstTexts(s, k)
  BY <1>3
<1>6. PICK c \in Seq(S) : c = s[n]
  BY <1>1
<1>7. FirstTexts(s, n) = a \o c
  BY ONLY <1>3, <1>4, <1>5, <1>6, Zenon
<1>8. a \o c \in Seq(S)
  BY ONLY a \in Seq(S), c \in Seq(S), ConcatProperties
<1> QED
  BY ONLY <1>7, <1>8, Zenon

\* Up to eight texts.
LEMMA FewTexts ==
  ASSUME NEW S, NEW m \in Nat, NEW s, \A i \in 1 .. m : s[i] \in Seq(S)
  PROVE  /\ m >= 0 => FirstTexts(s, 0) = <<>>
         /\ m >= 1 => FirstTexts(s, 1) = s[1]
         /\ m >= 2 => FirstTexts(s, 2) = s[1] \o s[2]
         /\ m >= 3 => FirstTexts(s, 3) = s[1] \o s[2] \o s[3]
         /\ m >= 4 => FirstTexts(s, 4) = s[1] \o s[2] \o s[3] \o s[4]
         /\ m >= 5 => FirstTexts(s, 5) = s[1] \o s[2] \o s[3] \o s[4] \o s[5]
         /\ m >= 6 => FirstTexts(s, 6) = s[1] \o s[2] \o s[3] \o s[4] \o s[5] \o s[6]
         /\ m >= 8 => FirstTexts(s, 8) = s[1] \o s[2] \o s[3] \o s[4] \o s[5] \o s[6] \o s[7] \o s[8]
<1>0. FirstTexts(s, 0) = <<>>
  BY NoText
<1>1. m >= 1 => FirstTexts(s, 1) = s[1]
  <2> SUFFICES ASSUME m >= 1 PROVE FirstTexts(s, 1) = s[1]
    OBVIOUS
  <2>1. PICK z \in Nat : z = 0
    OBVIOUS
  <2>2. z + 1 <= m /\ z + 1 = 1 /\ 1 \in 1 .. m
    BY <2>1
  <2>3. FirstTexts(s, z + 1) = FirstTexts(s, z) \o s[z + 1]
    BY ONLY m \in Nat, z \in Nat, \A i \in 1 .. m : s[i] \in Seq(S), <2>2, FirstTextsGrow
  <2>4. s[1] \in Seq(S)
    BY <2>2
  <2>5. <<>> \o s[1] = s[1]
    BY ONLY <2>4, ConcatEmptySeq
  <2> QED
    BY ONLY <1>0, <2>1, <2>2, <2>3, <2>5, Zenon
<1>2. m >= 2 => FirstTexts(s, 2) = s[1] \o s[2]
  <2> SUFFICES ASSUME m >= 2 PROVE FirstTexts(s, 2) = s[1] \o s[2]
    OBVIOUS
  <2>1. 1 \in Nat /\ 1 + 1 <= m /\ 1 + 1 = 2 /\ m >= 1
    OBVIOUS
  <2>2. FirstTexts(s, 1 + 1) = FirstTexts(s, 1) \o s[1 + 1]
    BY ONLY m \in Nat, \A i \in 1 .. m : s[i] \in Seq(S), <2>1, FirstTextsGrow
  <2> QED
    BY ONLY <1>1, <2>1, <2>2, Zenon
<1>3. m >= 3 => FirstTexts(s, 3) = s[1] \o s[2] \o s[3]
  <2> SUFFICES ASSUME m >= 3 PROVE FirstTexts(s, 3) = s[1] \o s[2] \o s[3]
    OBVIOUS
  <2>1. 2 \in Nat /\ 2 + 1 <= m /\ 2 + 1 = 3 /\ m >= 2
    OBVIOUS
  <2>2. FirstTexts(s, 2 + 1) = FirstTexts(s, 2) \o s[2 + 1]
    BY ONLY m \in Nat, \A i \in 1 .. m : s[i] \in Seq(S), <2>1, FirstTextsGrow
  <2> QED
    BY ONLY <1>2, <2>1, <2>2, Zenon
<1>4. m >= 4 => FirstTexts(s, 4) = s[1] \o s[2] \o s[3] \o s[4]
  <2> SUFFICES ASSUME m >= 4 PROVE FirstTexts(s, 4) = s[1] \o s[2] \o s[3] \o s[4]
    OBVIOUS
  <2>1. 3 \in Nat /\ 3 + 1 <= m /\ 3 + 1 = 4 /\ m >= 3
    OBVIOUS
  <2>2. FirstTexts(s, 3 + 1) = FirstTexts(s, 3) \o s[3 + 1]
    BY ONLY m \in Nat, \A i \in 1 .. m : s[i] \in Seq(S), <2>1, FirstTextsGrow
  <2> QED
    BY ONLY <1>3, <2>1, <2>2, Zenon
<1>5. m >= 5 => FirstTexts(s, 5) = s[1] \o s[2] \o s[3] \o s[4] \o s[5]
  <2> SUFFICES ASSUME m >= 5 PROVE FirstTexts(s, 5) = s[1] \o s[2] \o s[3] \o s[4] \o s[5]
    OBVIOUS
  <2>1. 4 \in Nat /\ 4 + 1 <= m /\ 4 + 1 = 5 /\ m >= 4
    OBVIOUS
  <2>2. FirstTexts(s, 4 + 1) = FirstTexts(s, 4) \o s[4 + 1]
    BY ONLY m \in Nat, \A i \in 1 .. m : s[i] \in Seq(S), <2>1, FirstTextsGrow
  <2> QED
    BY ONLY <1>4, <2>1, <2>2, Zenon
<1>6. m >= 6 => FirstTexts(s, 6) = s[1] \o s[2] \o s[3] \o s[4] \o s[5] \o s[6]
  <2> SUFFICES ASSUME m >= 6 PROVE FirstTexts(s, 6) = s[1] \o s[2] \o s[3] \o s[4] \o s[5] \o s[6]
    OBVIOUS
  <2>1. 5 \in Nat /\ 5 + 1 <= m /\ 5 + 1 = 6 /\ m >= 5
    OBVIOUS
  <2>2. FirstTexts(s, 5 + 1) = FirstTexts(s, 5) \o s[5 + 1]
    BY ONLY m \in Nat, \A i \in 1 .. m : s[i] \in Seq(S), <2>1, FirstTextsGrow
  <2> QED
    BY ONLY <1>5, <2>1, <2>2, Zenon
<1>7. m >= 7 => FirstTexts(s, 7) = s[1] \o s[2] \o s[3] \o s[4] \o s[5] \o s[6] \o s[7]
  <2> SUFFICES ASSUME m >= 7 PROVE FirstTexts(s, 7) = s[1] \o s[2] \o s[3] \o s[4] \o s[5] \o s[6] \o s[7]
    OBVIOUS
  <2>1. 6 \in Nat /\ 6 + 1 <= m /\ 6 + 1 = 7 /\ m >= 6
    OBVIOUS
  <2>2. FirstTexts(s, 6 + 1) = FirstTexts(s, 6) \o s[6 + 1]
    BY ONLY m \in Nat, \A i \in 1 .. m : s[i] \in Seq(S), <2>1, FirstTextsGrow
  <2> QED
    BY ONLY <1>6, <2>1, <2>2, Zenon
<1>8. m >= 8 => FirstTexts(s, 8) = s[1] \o s[2] \o s[3] \o s[4] \o s[5] \o s[6] \o s[7] \o s[8]
  <2> SUFFICES ASSUME m >= 8 PROVE FirstTexts(s, 8) = s[1] \o s[2] \o s[3] \o s[4] \o s[5] \o s[6] \o s[7] \o s[8]
    OBVIOUS
  <2>1. 7 \in Nat /\ 7 + 1 <= m /\ 7 + 1 = 8 /\ m >= 7
    OBVIOUS
  <2>2. FirstTexts(s, 7 + 1) = FirstTexts(s, 7) \o s[7 + 1]
    BY ONLY m \in Nat, \A i \in 1 .. m : s[i] \in Seq(S), <2>1, FirstTextsGrow
  <2> QED
    BY ONLY <1>7, <2>1, <2>2, Zenon
<1> QED
  BY ONLY <1>0, <1>1, <1>2, <1>3, <1>4, <1>5, <1>6, <1>8, Zenon

Written(symbols) ==
  \A symbol \in symbols : \A v : SymbolText(symbol, v) = <<v>>

\* A symbol whose value is a node is written as that node.
LEMMA WrittenAsOne ==
  Written({"premise_defn", "deduction_target", "inference_group", "environment_defn",
           "inference_defn", "global_decl", "inference_argument", "range_clause",
           "premise_type_inference_defn", "premise_type_equality_defn",
           "proposition_defn", "deduction_target_singular", "deduction_target_array",
           "deduction_target_computed"})
BY DEF Written, SymbolText

\* How the lists of the grammar are written.
LEMMA WrittenAsLists ==
  /\ \A symbol \in {"inference_group_list", "environment_defn_list", "inference_defn_list",
                    "premise_defn_list"} : \A v : SymbolText(symbol, v) = v
  /\ \A symbol \in {"global_decl_list", "argument_list", "deduction_target_list"} :
       \A v : SymbolText(symbol, v) = Commas(v)
BY DEF SymbolText

\* How the optional parts and the names are written.
LEMMA WrittenAsParts ==
  /\ \A v : SymbolText("global_decl_set", v) = GlobalsText(v)
  /\ \A v : SymbolText("argument_set", v) = ArgumentsText(v)
  /\ \A v : SymbolText("premise_set", v) = PremisesText(v)
  /\ \A v : SymbolText("while_clause", v) = WhileText(v)
  /\ \A v : SymbolText("identifiable", v) = Dotted(v)
  /\ \A v : SymbolText("identifier", v) = Id(v)
  /\ \A v : SymbolText("equality_operator", v) = Sign(v)
BY DEF SymbolText

\* A token that carries no value.
LEMMA WrittenAsSigns ==
  \A symbol \in {"KEYWORD_GROUP", "LBRACE", "RBRACE", "COLON", "SEMICOLON", "KEYWORD_INFERENCE", "KEYWORD_GLOBALS", "LBRACKET", "RBRACKET", "COMMA", "KEYWORD_ARGUMENTS", "KEYWORD_PREMISES", "KEYWORD_WHILE", "KEYWORD_INRANGE", "ELLIPSIS", "KEYWORD_PROPOSITION", "DOT", "LPAREN", "RPAREN", "OPERATOR_EQ", "OPERATOR_NEQ", "OPERATOR_LT", "OPERATOR_LTE", "END"} :
    \A v : SymbolText(symbol, v) = Sign(symbol)
<1> TAKE symbol \in {"KEYWORD_GROUP", "LBRACE", "RBRACE", "COLON", "SEMICOLON", "KEYWORD_INFERENCE", "KEYWORD_GLOBALS", "LBRACKET", "RBRACKET", "COMMA", "KEYWORD_ARGUMENTS", "KEYWORD_PREMISES", "KEYWORD_WHILE", "KEYWORD_INRANGE", "ELLIPSIS", "KEYWORD_PROPOSITION", "DOT", "LPAREN", "RPAREN", "OPERATOR_EQ", "OPERATOR_NEQ", "OPERATOR_LT", "OPERATOR_LTE", "END"}
<1> TAKE v
<1>1. symbol \notin {"inference_group_list", "environment_defn_list", "inference_defn_list",
                   "premise_defn_list", "global_decl_list", "argument_list",
                   "deduction_target_list"}
  OBVIOUS
<1>2. symbol \notin {"global_decl_set", "argument_set", "premise_set", "while_clause",
                   "identifiable", "identifier", "equality_operator"}
  OBVIOUS
<1>3. symbol \notin {"premise_defn", "deduction_target", "inference_group", "environment_defn",
                   "inference_defn", "global_decl", "inference_argument", "range_clause"}
  OBVIOUS
<1>4. symbol \notin {"premise_type_inference_defn", "premise_type_equality_defn",
                   "proposition_defn", "deduction_target_singular", "deduction_target_array",
                   "deduction_target_computed", "IDENTIFIER", "INTEGER_LITERAL"}
  OBVIOUS
<1>5. SymbolText(symbol, v) = <<Token(symbol, v)>>
  BY ONLY <1>1, <1>2, <1>3, <1>4 DEF SymbolText
<1>6. Token(symbol, v) = Token(symbol, "")
  BY ONLY <1>4 DEF Token
<1> QED
  BY ONLY <1>5, <1>6, Zenon DEF Sign

\* How the tokens that carry a value are written.
LEMMA WrittenAsTokens ==
  /\ \A v : SymbolText("IDENTIFIER", v) = Id(v)
  /\ \A v : SymbolText("INTEGER_LITERAL", v) = Num(v)
BY DEF SymbolText, Id, Num, Token

\* A token is its own text.
LEMMA TokenIsItself ==
  ASSUME NEW kind \in Terminal, NEW v
  PROVE  /\ SymbolText(kind, v) = <<Token(kind, v)>>
         /\ Unfold(Token(kind, v)) = <<Token(kind, v)>>
<1>1. kind \notin NodeKinds
  <2>1. PICK p \in DOMAIN Productions : \E i \in DOMAIN Rhs(p) : kind = Rhs(p)[i]
    BY DEF Terminal, Symbol
  <2>2. PICK i \in 1 .. Len(Rhs(p)) : kind = Rhs(p)[i]
    BY <2>1, ProductionType
  <2>3. CASE p = 1
    <3>1. Rhs(1) = <<"input", "END">> /\ Len(Rhs(1)) = 2
      BY GroupRules DEF IsRule
    <3>2. kind = "input" \/ kind = "END"
      BY <2>2, <2>3, <3>1
    <3> QED
      BY <3>2 DEF NodeKinds
  <2> QED
    BY <2>2, <2>3, OuterSymbols DEF Elsewhere
<1>2. Unfold(Token(kind, v)) = <<Token(kind, v)>>
  <2>1. Token(kind, v).kind = kind
    BY DEF Token
  <2>2. PICK n : n = Token(kind, v)
    OBVIOUS
  <2>3. n.kind \notin NodeKinds
    BY <1>1, <2>1, <2>2
  <2>4. Unfold(n) = <<n>>
    BY ONLY <2>3 DEF Unfold, NodeKinds
  <2> QED
    BY <2>2, <2>4
<1>3. \A p \in 1 .. 50 : kind # Lhs(p)
  BY LeftSides, ProductionsList DEF Terminal
<1>4. SymbolText(kind, v) = <<Token(kind, v)>>
  <2>1. kind \notin {"inference_group_list", "environment_defn_list", "inference_defn_list",
                    "premise_defn_list", "global_decl_list", "argument_list",
                    "global_decl_set", "argument_set", "premise_set", "while_clause"}
    <3>1. /\ Lhs(3) = "inference_group_list" /\ Lhs(6) = "environment_defn_list"
          /\ Lhs(9) = "inference_defn_list" /\ Lhs(23) = "premise_defn_list"
          /\ Lhs(14) = "global_decl_list" /\ Lhs(19) = "argument_list"
          /\ Lhs(12) = "global_decl_set" /\ Lhs(17) = "argument_set"
          /\ Lhs(22) = "premise_set" /\ Lhs(29) = "while_clause"
      BY GroupRules, RuleRules, PremiseRules DEF IsRule
    <3>2. /\ kind # Lhs(3) /\ kind # Lhs(6) /\ kind # Lhs(9) /\ kind # Lhs(23) /\ kind # Lhs(14)
          /\ kind # Lhs(19) /\ kind # Lhs(12) /\ kind # Lhs(17) /\ kind # Lhs(22)
          /\ kind # Lhs(29)
      BY ONLY <1>3
    <3> QED
      BY ONLY <3>1, <3>2
  <2>2. kind \notin {"identifiable", "identifier", "equality_operator", "deduction_target_list",
                    "deduction_target", "deduction_target_singular", "deduction_target_array",
                    "deduction_target_computed"}
    <3>1. /\ Lhs(34) = "identifiable" /\ Lhs(36) = "identifier"
          /\ Lhs(47) = "equality_operator" /\ Lhs(37) = "deduction_target_list"
          /\ Lhs(39) = "deduction_target" /\ Lhs(42) = "deduction_target_singular"
          /\ Lhs(43) = "deduction_target_array" /\ Lhs(45) = "deduction_target_computed"
      BY TargetRules DEF IsRule
    <3>2. /\ kind # Lhs(34) /\ kind # Lhs(36) /\ kind # Lhs(47) /\ kind # Lhs(37) /\ kind # Lhs(39)
          /\ kind # Lhs(42) /\ kind # Lhs(43) /\ kind # Lhs(45)
      BY ONLY <1>3
    <3> QED
      BY ONLY <3>1, <3>2
  <2>3. kind \notin {"premise_defn", "inference_group", "environment_defn",
                    "inference_defn", "global_decl", "inference_argument", "range_clause",
                    "premise_type_inference_defn", "premise_type_equality_defn",
                    "proposition_defn"}
    <3>1. /\ Lhs(25) = "premise_defn" /\ Lhs(5) = "inference_group"
          /\ Lhs(8) = "environment_defn" /\ Lhs(11) = "inference_defn"
          /\ Lhs(16) = "global_decl" /\ Lhs(21) = "inference_argument"
          /\ Lhs(32) = "range_clause" /\ Lhs(27) = "premise_type_inference_defn"
          /\ Lhs(30) = "premise_type_equality_defn" /\ Lhs(33) = "proposition_defn"
      BY GroupRules, RuleRules, PremiseRules DEF IsRule
    <3>2. /\ kind # Lhs(25) /\ kind # Lhs(5) /\ kind # Lhs(8) /\ kind # Lhs(11) /\ kind # Lhs(16)
          /\ kind # Lhs(21) /\ kind # Lhs(32) /\ kind # Lhs(27) /\ kind # Lhs(30)
          /\ kind # Lhs(33)
      BY ONLY <1>3
    <3> QED
      BY ONLY <3>1, <3>2
  <2> QED
    BY ONLY <2>1, <2>2, <2>3 DEF SymbolText
<1> QED
  BY <1>2, <1>4

\* A module is written as its groups are.
LEMMA ModuleIsGroups == \A groups : Unfold(ModuleOf(groups)) = groups
BY DEF Unfold, ModuleOf

\* The text of a definition of the environment.
LEMMA FieldText ==
  \A field, value :
    Unfold([kind |-> "env", field |-> field, value |-> value])
      = Id(field) \o Sign("COLON") \o Id(value) \o Sign("SEMICOLON")
BY DEF Unfold

\* The texts of a global and of an argument.
LEMMA DeclarationTexts ==
  /\ \A name : Unfold([kind |-> "global", name |-> name]) = Id(name)
  /\ \A name, type : Unfold([kind |-> "argument", name |-> name, type |-> type])
                       = Id(name) \o Sign("COLON") \o Id(type)
BY DEF Unfold

\* A premise and a target are written as what they wrap.
LEMMA AlternativeTexts ==
  /\ \A n : Unfold([kind |-> "premise", alternative |-> n]) = <<n>>
  /\ \A n : Unfold([kind |-> "target", alternative |-> n]) = <<n>>
BY DEF Unfold

\* The text of an inference premise.
LEMMA InferenceText ==
  \A source, target, while :
    Unfold([kind |-> "inference", source |-> source, target |-> target, while |-> while])
      = Dotted(source) \o Sign("COLON") \o <<target>>
        \o (IF while = <<>> THEN <<>> ELSE WhileText(while[1])) \o Sign("SEMICOLON")
<1> TAKE source, target, while
<1>1. PICK n : n = [kind |-> "inference", source |-> source, target |-> target, while |-> while]
  OBVIOUS
<1>2. n.kind = "inference" /\ n.source = source /\ n.target = target /\ n.while = while
  BY <1>1
<1>3. Unfold(n) = Dotted(n.source) \o Sign("COLON") \o <<n.target>>
                  \o (IF n.while = <<>> THEN <<>> ELSE WhileText(n.while[1])) \o Sign("SEMICOLON")
  BY ONLY <1>2 DEF Unfold
<1> QED
  BY ONLY <1>1, <1>2, <1>3, Zenon

\* The text of a range.
LEMMA RangeText ==
  \A from, to, target :
    Unfold([kind |-> "range", from |-> from, to |-> to, target |-> target])
      = Sign("KEYWORD_INRANGE") \o Num(from) \o Sign("ELLIPSIS")
        \o Num(to) \o Sign("ELLIPSIS") \o <<target>>
BY DEF Unfold

\* The text of a proposition.
LEMMA PropositionText ==
  \A target :
    Unfold([kind |-> "proposition", target |-> target])
      = Sign("KEYWORD_PROPOSITION") \o Sign("COLON") \o <<target>> \o Sign("SEMICOLON")
BY DEF Unfold

\* The texts of the three kinds of targets.
LEMMA TargetTexts ==
  /\ \A name : Unfold([kind |-> "singular", name |-> name]) = Id(name)
  /\ \A name, size :
       Unfold([kind |-> "array", name |-> name, size |-> size])
         = Id(name) \o Sign("LBRACKET")
           \o (IF size = <<>> THEN <<>> ELSE Num(size[1])) \o Sign("RBRACKET")
  /\ \A name, arguments :
       Unfold([kind |-> "computed", name |-> name, arguments |-> arguments])
         = Id(name) \o Sign("LPAREN") \o Commas(arguments) \o Sign("RPAREN")
<1>1. \A name : Unfold([kind |-> "singular", name |-> name]) = Id(name)
  BY DEF Unfold
<1>2. ASSUME NEW name, NEW size
      PROVE  Unfold([kind |-> "array", name |-> name, size |-> size])
               = Id(name) \o Sign("LBRACKET")
                 \o (IF size = <<>> THEN <<>> ELSE Num(size[1])) \o Sign("RBRACKET")
  <2>1. PICK n : n = [kind |-> "array", name |-> name, size |-> size]
    OBVIOUS
  <2>2. n.kind = "array" /\ n.name = name /\ n.size = size
    BY <2>1
  <2>3. Unfold(n) = Id(n.name) \o Sign("LBRACKET")
                    \o (IF n.size = <<>> THEN <<>> ELSE Num(n.size[1])) \o Sign("RBRACKET")
    BY ONLY <2>2 DEF Unfold
  <2> QED
    BY ONLY <2>1, <2>2, <2>3, Zenon
<1>3. \A name, arguments :
        Unfold([kind |-> "computed", name |-> name, arguments |-> arguments])
          = Id(name) \o Sign("LPAREN") \o Commas(arguments) \o Sign("RPAREN")
  BY DEF Unfold
<1> QED
  BY <1>1, <1>2, <1>3

-----------------------------------------------------------------------------
\* The left-hand sides of the productions about groups.
LEMMA GroupLeft ==
  \A i \in 1 .. 10 :
    GroupProductions[i][1] \in {"$accept", "input", "inference_group_list", "inference_group",
                                "environment_defn_list", "environment_defn",
                                "inference_defn_list"}
BY DEF GroupProductions

\* The left-hand sides of the productions about rules.
LEMMA RuleLeft ==
  \A i \in 1 .. 11 :
    RuleProductions[i][1] \in {"inference_defn", "global_decl_set", "global_decl_list",
                               "global_decl", "argument_set", "argument_list",
                               "inference_argument"}
BY DEF RuleProductions

\* The left-hand sides of the productions about premises.
LEMMA PremiseLeft ==
  \A i \in 1 .. 12 :
    PremiseProductions[i][1] \in {"premise_set", "premise_defn_list", "premise_defn",
                                  "premise_type_inference_defn", "while_clause",
                                  "premise_type_equality_defn", "range_clause",
                                  "proposition_defn"}
BY DEF PremiseProductions

\* The left-hand sides of the productions about targets.
LEMMA TargetLeft ==
  \A i \in 1 .. 17 :
    TargetProductions[i][1] \in {"identifiable", "identifier", "deduction_target_list",
                                 "deduction_target", "deduction_target_singular",
                                 "deduction_target_array", "deduction_target_computed",
                                 "equality_operator"}
BY DEF TargetProductions

\* How many productions there are of each kind.
LEMMA ListDomains ==
  /\ DOMAIN GroupProductions = 1 .. 10 /\ DOMAIN RuleProductions = 1 .. 11
  /\ DOMAIN PremiseProductions = 1 .. 12 /\ DOMAIN TargetProductions = 1 .. 17
BY GroupList, RuleList, PremiseList, TargetList, LenProperties

\* Which symbols the productions about groups rewrite.
LEMMA InGroups ==
  /\ \A x \in {"input", "inference_group", "environment_defn"} : IsIn(x, GroupProductions)
  /\ \A x : IsIn(x, GroupProductions) =>
       x \in {"$accept", "input", "inference_group_list", "inference_group",
              "environment_defn_list", "environment_defn", "inference_defn_list"}
<1>1. /\ GroupProductions[2][1] = "input" /\ GroupProductions[5][1] = "inference_group"
      /\ GroupProductions[8][1] = "environment_defn"
  BY DEF GroupProductions
<1>2. 2 \in 1 .. 10 /\ 5 \in 1 .. 10 /\ 8 \in 1 .. 10
  OBVIOUS
<1> QED
  BY ONLY <1>1, <1>2, GroupLeft, ListDomains, Zenon DEF IsIn

\* Which symbols the productions about rules rewrite.
LEMMA InRules ==
  /\ \A x \in {"inference_defn", "global_decl_set", "global_decl", "argument_set",
               "inference_argument"} : IsIn(x, RuleProductions)
  /\ \A x : IsIn(x, RuleProductions) =>
       x \in {"inference_defn", "global_decl_set", "global_decl_list",
              "global_decl", "argument_set", "argument_list", "inference_argument"}
<1>1. /\ RuleProductions[1][1] = "inference_defn" /\ RuleProductions[2][1] = "global_decl_set"
      /\ RuleProductions[6][1] = "global_decl" /\ RuleProductions[7][1] = "argument_set"
      /\ RuleProductions[11][1] = "inference_argument"
  BY DEF RuleProductions
<1>2. 1 \in 1 .. 11 /\ 2 \in 1 .. 11 /\ 6 \in 1 .. 11 /\ 7 \in 1 .. 11 /\ 11 \in 1 .. 11
  OBVIOUS
<1> QED
  BY ONLY <1>1, <1>2, RuleLeft, ListDomains, Zenon DEF IsIn

\* Which symbols the productions about premises rewrite.
LEMMA InPremises ==
  /\ \A x \in {"premise_set", "premise_defn", "premise_type_inference_defn", "while_clause",
               "premise_type_equality_defn", "range_clause", "proposition_defn"} :
       IsIn(x, PremiseProductions)
  /\ \A x : IsIn(x, PremiseProductions) =>
       x \in {"premise_set", "premise_defn_list", "premise_defn",
              "premise_type_inference_defn", "while_clause",
              "premise_type_equality_defn", "range_clause", "proposition_defn"}
<1>1. /\ PremiseProductions[1][1] = "premise_set" /\ PremiseProductions[4][1] = "premise_defn"
      /\ PremiseProductions[6][1] = "premise_type_inference_defn"
      /\ PremiseProductions[8][1] = "while_clause"
      /\ PremiseProductions[9][1] = "premise_type_equality_defn"
      /\ PremiseProductions[11][1] = "range_clause"
      /\ PremiseProductions[12][1] = "proposition_defn"
  BY DEF PremiseProductions
<1>2. /\ 1 \in 1 .. 12 /\ 4 \in 1 .. 12 /\ 6 \in 1 .. 12 /\ 8 \in 1 .. 12 /\ 9 \in 1 .. 12
      /\ 11 \in 1 .. 12 /\ 12 \in 1 .. 12
  OBVIOUS
<1> QED
  BY ONLY <1>1, <1>2, PremiseLeft, ListDomains, Zenon DEF IsIn

\* Which symbols the productions about targets rewrite.
LEMMA InTargets ==
  /\ \A x \in {"identifier", "equality_operator", "deduction_target",
               "deduction_target_singular", "deduction_target_array",
               "deduction_target_computed"} : IsIn(x, TargetProductions)
  /\ \A x : IsIn(x, TargetProductions) =>
       x \in {"identifiable", "identifier", "deduction_target_list",
              "deduction_target", "deduction_target_singular",
              "deduction_target_array", "deduction_target_computed",
              "equality_operator"}
<1>1. /\ TargetProductions[3][1] = "identifier" /\ TargetProductions[6][1] = "deduction_target"
      /\ TargetProductions[9][1] = "deduction_target_singular"
      /\ TargetProductions[10][1] = "deduction_target_array"
      /\ TargetProductions[12][1] = "deduction_target_computed"
      /\ TargetProductions[14][1] = "equality_operator"
  BY DEF TargetProductions
<1>2. /\ 3 \in 1 .. 17 /\ 6 \in 1 .. 17 /\ 9 \in 1 .. 17 /\ 10 \in 1 .. 17 /\ 12 \in 1 .. 17
      /\ 14 \in 1 .. 17
  OBVIOUS
<1> QED
  BY ONLY <1>1, <1>2, TargetLeft, ListDomains, Zenon DEF IsIn

\* The value of a list.
LEMMA ListIsBuilt ==
  ASSUME NEW p, Lhs(p) \in Lists, NEW v
  PROVE  /\ Len(v) = 0 => Built(p, v) = <<>>
         /\ Len(v) = 1 => Built(p, v) = <<v[1]>>
         /\ Len(v) = 2 => Built(p, v) = Append(v[1], v[2])
         /\ Len(v) = 3 => Built(p, v) = Append(v[1], v[3])
<1>1. Built(p, v) = ListValue(v)
  BY DEF Built
<1>2. Len(v) = 0 => ListValue(v) = <<>>
  BY DEF ListValue
<1>3. Len(v) = 1 => ListValue(v) = <<v[1]>>
  BY DEF ListValue
<1>4. Len(v) = 2 => ListValue(v) = Append(v[1], v[2])
  BY DEF ListValue
<1>5. Len(v) = 3 => ListValue(v) = Append(v[1], v[3])
  BY DEF ListValue
<1> QED
  BY ONLY <1>1, <1>2, <1>3, <1>4, <1>5

\* The value of another symbol.
LEMMA NodeIsBuilt ==
  ASSUME NEW p, NEW v
  PROVE  /\ Lhs(p) \in {"input", "inference_group", "environment_defn"} =>
              Built(p, v) = GroupValue(Lhs(p), v)
         /\ Lhs(p) \in {"inference_defn", "global_decl_set", "global_decl", "argument_set",
                        "inference_argument"} =>
              Built(p, v) = RuleValue(Lhs(p), v)
         /\ Lhs(p) \in {"premise_set", "premise_defn", "premise_type_inference_defn",
                        "while_clause", "premise_type_equality_defn", "range_clause",
                        "proposition_defn"} =>
              Built(p, v) = PremiseValue(Lhs(p), v)
         /\ Lhs(p) \in {"identifier", "equality_operator", "deduction_target",
                        "deduction_target_singular", "deduction_target_array",
                        "deduction_target_computed"} =>
              Built(p, v) = TargetValue(Lhs(p), Rhs(p), v)
<1>1. CASE Lhs(p) \in {"input", "inference_group", "environment_defn"}
  <2>1. Lhs(p) \notin Lists /\ IsIn(Lhs(p), GroupProductions)
        /\ ~IsIn(Lhs(p), RuleProductions) /\ ~IsIn(Lhs(p), PremiseProductions)
        /\ ~IsIn(Lhs(p), TargetProductions)
    BY <1>1, InGroups, InRules, InPremises, InTargets DEF Lists
  <2>2. Built(p, v) = GroupValue(Lhs(p), v)
    BY ONLY <2>1 DEF Built
  <2> QED
    BY ONLY <1>1, <2>2
<1>2. CASE Lhs(p) \in {"inference_defn", "global_decl_set", "global_decl", "argument_set",
                       "inference_argument"}
  <2>1. /\ Lhs(p) \notin Lists /\ IsIn(Lhs(p), RuleProductions)
        /\ ~IsIn(Lhs(p), GroupProductions) /\ ~IsIn(Lhs(p), PremiseProductions)
        /\ ~IsIn(Lhs(p), TargetProductions)
    BY <1>2, InGroups, InRules, InPremises, InTargets DEF Lists
  <2>2. Built(p, v) = RuleValue(Lhs(p), v)
    BY ONLY <2>1 DEF Built
  <2> QED
    BY ONLY <1>2, <2>2
<1>3. CASE Lhs(p) \in {"premise_set", "premise_defn", "premise_type_inference_defn",
                       "while_clause", "premise_type_equality_defn", "range_clause",
                       "proposition_defn"}
  <2>1. /\ Lhs(p) \notin Lists /\ IsIn(Lhs(p), PremiseProductions)
        /\ ~IsIn(Lhs(p), GroupProductions) /\ ~IsIn(Lhs(p), RuleProductions)
        /\ ~IsIn(Lhs(p), TargetProductions)
    BY <1>3, InGroups, InRules, InPremises, InTargets DEF Lists
  <2>2. Built(p, v) = PremiseValue(Lhs(p), v)
    BY ONLY <2>1 DEF Built
  <2> QED
    BY ONLY <1>3, <2>2
<1>4. CASE Lhs(p) \in {"identifier", "equality_operator", "deduction_target",
                       "deduction_target_singular", "deduction_target_array",
                       "deduction_target_computed"}
  <2>1. /\ Lhs(p) \notin Lists /\ IsIn(Lhs(p), TargetProductions)
        /\ ~IsIn(Lhs(p), GroupProductions) /\ ~IsIn(Lhs(p), RuleProductions)
        /\ ~IsIn(Lhs(p), PremiseProductions)
    BY <1>4, InGroups, InRules, InPremises, InTargets DEF Lists
  <2>2. Built(p, v) = TargetValue(Lhs(p), Rhs(p), v)
    BY ONLY <2>1 DEF Built
  <2> QED
    BY ONLY <1>4, <2>2
<1> QED
  BY <1>1, <1>2, <1>3, <1>4

-----------------------------------------------------------------------------
(* The semantic actions.                                                   *)

\* What the right-hand side of the production p is written with, for the values v.
Text(p, v) ==
  FirstTexts([i \in 1 .. Len(Rhs(p)) |-> SymbolText(Rhs(p)[i], v[i])], Len(Rhs(p)))

\* The right-hand side of p has the length n and is written with the nodes N.
HasTexts(p, v, N, n) ==
  Len(Rhs(p)) = n /\ \A i \in 1 .. n : SymbolText(Rhs(p)[i], v[i]) \in Seq(N)

\* The text of a right-hand side is that of its symbols, one after the other.
LEMMA TextIs ==
  ASSUME NEW p, NEW v, NEW N, NEW n \in Nat, HasTexts(p, v, N, n),
         NEW t, t = [i \in 1 .. n |-> SymbolText(Rhs(p)[i], v[i])]
  PROVE  /\ Text(p, v) = FirstTexts(t, n)
         /\ \A i \in 1 .. n : t[i] \in Seq(N) /\ t[i] = SymbolText(Rhs(p)[i], v[i])
BY DEF Text, HasTexts

\* The text of an empty right-hand side.
LEMMA TextOfNone ==
  ASSUME NEW p, NEW v, NEW N, HasTexts(p, v, N, 0)
  PROVE  Text(p, v) = <<>>
<1>1. Text(p, v) = FirstTexts([i \in 1 .. 0 |-> SymbolText(Rhs(p)[i], v[i])], 0)
  BY DEF Text, HasTexts
<1> QED
  BY <1>1, NoText, Zenon

\* The text of a right-hand side of one symbol.
LEMMA TextOfOne ==
  ASSUME NEW p, NEW v, NEW N, HasTexts(p, v, N, 1)
  PROVE  Text(p, v) = SymbolText(Rhs(p)[1], v[1])
<1>1. PICK t : t = [i \in 1 .. 1 |-> SymbolText(Rhs(p)[i], v[i])]
  OBVIOUS
<1>2. PICK n \in Nat : n = 1
  OBVIOUS
<1>3. /\ Text(p, v) = FirstTexts(t, n)
      /\ \A i \in 1 .. n : t[i] \in Seq(N) /\ t[i] = SymbolText(Rhs(p)[i], v[i])
  <2>1. HasTexts(p, v, N, n) /\ t = [i \in 1 .. n |-> SymbolText(Rhs(p)[i], v[i])]
    BY <1>1, <1>2
  <2> QED
    BY ONLY <2>1, n \in Nat, TextIs
<1>4. 1 \in 1 .. n /\ n >= 1
  BY ONLY <1>2
<1>5. FirstTexts(t, 1) = t[1]
  <2>1. \A i \in 1 .. n : t[i] \in Seq(N)
    BY ONLY <1>3, Zenon
  <2> QED
    BY ONLY <2>1, <1>4, n \in Nat, FewTexts, Zenon
<1> QED
  BY ONLY <1>2, <1>3, <1>4, <1>5, Zenon

\* The text of a right-hand side of two symbols.
LEMMA TextOfTwo ==
  ASSUME NEW p, NEW v, NEW N, HasTexts(p, v, N, 2)
  PROVE  Text(p, v) = SymbolText(Rhs(p)[1], v[1])
                    \o SymbolText(Rhs(p)[2], v[2])
<1>1. PICK t : t = [i \in 1 .. 2 |-> SymbolText(Rhs(p)[i], v[i])]
  OBVIOUS
<1>2. PICK n \in Nat : n = 2
  OBVIOUS
<1>3. /\ Text(p, v) = FirstTexts(t, n)
      /\ \A i \in 1 .. n : t[i] \in Seq(N) /\ t[i] = SymbolText(Rhs(p)[i], v[i])
  <2>1. HasTexts(p, v, N, n) /\ t = [i \in 1 .. n |-> SymbolText(Rhs(p)[i], v[i])]
    BY <1>1, <1>2
  <2> QED
    BY ONLY <2>1, n \in Nat, TextIs
<1>4. 1 \in 1 .. n /\ 2 \in 1 .. n /\ n >= 2
  BY ONLY <1>2
<1>5. FirstTexts(t, 2) = t[1] \o t[2]
  <2>1. \A i \in 1 .. n : t[i] \in Seq(N)
    BY ONLY <1>3, Zenon
  <2> QED
    BY ONLY <2>1, <1>4, n \in Nat, FewTexts, Zenon
<1> QED
  BY ONLY <1>2, <1>3, <1>4, <1>5, Zenon

\* The text of a right-hand side of three.
LEMMA TextOfThree ==
  ASSUME NEW p, NEW v, NEW N, HasTexts(p, v, N, 3)
  PROVE  Text(p, v) = SymbolText(Rhs(p)[1], v[1])
                    \o SymbolText(Rhs(p)[2], v[2])
                    \o SymbolText(Rhs(p)[3], v[3])
<1>1. PICK t : t = [i \in 1 .. 3 |-> SymbolText(Rhs(p)[i], v[i])]
  OBVIOUS
<1>2. PICK n \in Nat : n = 3
  OBVIOUS
<1>3. /\ Text(p, v) = FirstTexts(t, n)
      /\ \A i \in 1 .. n : t[i] \in Seq(N) /\ t[i] = SymbolText(Rhs(p)[i], v[i])
  <2>1. HasTexts(p, v, N, n) /\ t = [i \in 1 .. n |-> SymbolText(Rhs(p)[i], v[i])]
    BY <1>1, <1>2
  <2> QED
    BY ONLY <2>1, n \in Nat, TextIs
<1>4. 1 \in 1 .. n /\ 2 \in 1 .. n /\ 3 \in 1 .. n /\ n >= 3
  BY ONLY <1>2
<1>5. FirstTexts(t, 3) = t[1] \o t[2] \o t[3]
  <2>1. \A i \in 1 .. n : t[i] \in Seq(N)
    BY ONLY <1>3, Zenon
  <2> QED
    BY ONLY <2>1, <1>4, n \in Nat, FewTexts, Zenon
<1> QED
  BY ONLY <1>2, <1>3, <1>4, <1>5, Zenon

\* The text of a right-hand side of four.
LEMMA TextOfFour ==
  ASSUME NEW p, NEW v, NEW N, HasTexts(p, v, N, 4)
  PROVE  Text(p, v) = SymbolText(Rhs(p)[1], v[1])
                    \o SymbolText(Rhs(p)[2], v[2])
                    \o SymbolText(Rhs(p)[3], v[3])
                    \o SymbolText(Rhs(p)[4], v[4])
<1>1. PICK t : t = [i \in 1 .. 4 |-> SymbolText(Rhs(p)[i], v[i])]
  OBVIOUS
<1>2. PICK n \in Nat : n = 4
  OBVIOUS
<1>3. /\ Text(p, v) = FirstTexts(t, n)
      /\ \A i \in 1 .. n : t[i] \in Seq(N) /\ t[i] = SymbolText(Rhs(p)[i], v[i])
  <2>1. HasTexts(p, v, N, n) /\ t = [i \in 1 .. n |-> SymbolText(Rhs(p)[i], v[i])]
    BY <1>1, <1>2
  <2> QED
    BY ONLY <2>1, n \in Nat, TextIs
<1>4. 1 \in 1 .. n /\ 2 \in 1 .. n /\ 3 \in 1 .. n /\ 4 \in 1 .. n /\ n >= 4
  BY ONLY <1>2
<1>5. FirstTexts(t, 4) = t[1] \o t[2] \o t[3] \o t[4]
  <2>1. \A i \in 1 .. n : t[i] \in Seq(N)
    BY ONLY <1>3, Zenon
  <2> QED
    BY ONLY <2>1, <1>4, n \in Nat, FewTexts, Zenon
<1> QED
  BY ONLY <1>2, <1>3, <1>4, <1>5, Zenon

\* The text of a right-hand side of five.
LEMMA TextOfFive ==
  ASSUME NEW p, NEW v, NEW N, HasTexts(p, v, N, 5)
  PROVE  Text(p, v) = SymbolText(Rhs(p)[1], v[1])
                    \o SymbolText(Rhs(p)[2], v[2])
                    \o SymbolText(Rhs(p)[3], v[3])
                    \o SymbolText(Rhs(p)[4], v[4])
                    \o SymbolText(Rhs(p)[5], v[5])
<1>1. PICK t : t = [i \in 1 .. 5 |-> SymbolText(Rhs(p)[i], v[i])]
  OBVIOUS
<1>2. PICK n \in Nat : n = 5
  OBVIOUS
<1>3. /\ Text(p, v) = FirstTexts(t, n)
      /\ \A i \in 1 .. n : t[i] \in Seq(N) /\ t[i] = SymbolText(Rhs(p)[i], v[i])
  <2>1. HasTexts(p, v, N, n) /\ t = [i \in 1 .. n |-> SymbolText(Rhs(p)[i], v[i])]
    BY <1>1, <1>2
  <2> QED
    BY ONLY <2>1, n \in Nat, TextIs
<1>4. 1 \in 1 .. n /\ 2 \in 1 .. n /\ 3 \in 1 .. n /\ 4 \in 1 .. n /\ 5 \in 1 .. n /\ n >= 5
  BY ONLY <1>2
<1>5. FirstTexts(t, 5) = t[1] \o t[2] \o t[3] \o t[4] \o t[5]
  <2>1. \A i \in 1 .. n : t[i] \in Seq(N)
    BY ONLY <1>3, Zenon
  <2> QED
    BY ONLY <2>1, <1>4, n \in Nat, FewTexts, Zenon
<1> QED
  BY ONLY <1>2, <1>3, <1>4, <1>5, Zenon

\* The text of a right-hand side of six.
LEMMA TextOfSix ==
  ASSUME NEW p, NEW v, NEW N, HasTexts(p, v, N, 6)
  PROVE  Text(p, v) = SymbolText(Rhs(p)[1], v[1])
                    \o SymbolText(Rhs(p)[2], v[2])
                    \o SymbolText(Rhs(p)[3], v[3])
                    \o SymbolText(Rhs(p)[4], v[4])
                    \o SymbolText(Rhs(p)[5], v[5])
                    \o SymbolText(Rhs(p)[6], v[6])
<1>1. PICK t : t = [i \in 1 .. 6 |-> SymbolText(Rhs(p)[i], v[i])]
  OBVIOUS
<1>2. PICK n \in Nat : n = 6
  OBVIOUS
<1>3. /\ Text(p, v) = FirstTexts(t, n)
      /\ \A i \in 1 .. n : t[i] \in Seq(N) /\ t[i] = SymbolText(Rhs(p)[i], v[i])
  <2>1. HasTexts(p, v, N, n) /\ t = [i \in 1 .. n |-> SymbolText(Rhs(p)[i], v[i])]
    BY <1>1, <1>2
  <2> QED
    BY ONLY <2>1, n \in Nat, TextIs
<1>4. 1 \in 1 .. n /\ 2 \in 1 .. n /\ 3 \in 1 .. n /\ 4 \in 1 .. n /\ 5 \in 1 .. n /\ 6 \in 1 .. n /\ n >= 6
  BY ONLY <1>2
<1>5. FirstTexts(t, 6) = t[1] \o t[2] \o t[3] \o t[4] \o t[5] \o t[6]
  <2>1. \A i \in 1 .. n : t[i] \in Seq(N)
    BY ONLY <1>3, Zenon
  <2> QED
    BY ONLY <2>1, <1>4, n \in Nat, FewTexts, Zenon
<1> QED
  BY ONLY <1>2, <1>3, <1>4, <1>5, Zenon

\* The text of a right-hand side of eight.
LEMMA TextOfEight ==
  ASSUME NEW p, NEW v, NEW N, HasTexts(p, v, N, 8)
  PROVE  Text(p, v) = SymbolText(Rhs(p)[1], v[1])
                    \o SymbolText(Rhs(p)[2], v[2])
                    \o SymbolText(Rhs(p)[3], v[3])
                    \o SymbolText(Rhs(p)[4], v[4])
                    \o SymbolText(Rhs(p)[5], v[5])
                    \o SymbolText(Rhs(p)[6], v[6])
                    \o SymbolText(Rhs(p)[7], v[7])
                    \o SymbolText(Rhs(p)[8], v[8])
<1>1. PICK t : t = [i \in 1 .. 8 |-> SymbolText(Rhs(p)[i], v[i])]
  OBVIOUS
<1>2. PICK n \in Nat : n = 8
  OBVIOUS
<1>3. /\ Text(p, v) = FirstTexts(t, n)
      /\ \A i \in 1 .. n : t[i] \in Seq(N) /\ t[i] = SymbolText(Rhs(p)[i], v[i])
  <2>1. HasTexts(p, v, N, n) /\ t = [i \in 1 .. n |-> SymbolText(Rhs(p)[i], v[i])]
    BY <1>1, <1>2
  <2> QED
    BY ONLY <2>1, n \in Nat, TextIs
<1>4. 1 \in 1 .. n /\ 2 \in 1 .. n /\ 3 \in 1 .. n /\ 4 \in 1 .. n /\ 5 \in 1 .. n /\ 6 \in 1 .. n /\ 7 \in 1 .. n /\ 8 \in 1 .. n /\ n >= 8
  BY ONLY <1>2
<1>5. FirstTexts(t, 8) = t[1] \o t[2] \o t[3] \o t[4] \o t[5] \o t[6] \o t[7] \o t[8]
  <2>1. \A i \in 1 .. n : t[i] \in Seq(N)
    BY ONLY <1>3, Zenon
  <2> QED
    BY ONLY <2>1, <1>4, n \in Nat, FewTexts, Zenon
<1> QED
  BY ONLY <1>2, <1>3, <1>4, <1>5, Zenon

\* One element is a list.
LEMMA OneInSeq ==
  ASSUME NEW S, NEW x \in S
  PROVE  <<x>> \in Seq(S)
OBVIOUS

\* The texts to be joined, each with the separator before it.
Joint(texts, separator, n) ==
  [i \in 1 .. n |-> IF i = 1 THEN texts[i] ELSE Sign(separator) \o texts[i]]

\* With one text more, a separator and that text are put behind the others.
LEMMA SeparatedGrows ==
  ASSUME NEW S, NEW separator, Sign(separator) \in Seq(S), NEW n \in Nat, n > 0,
         NEW a \in [1 .. n -> Seq(S)], NEW b \in [1 .. n + 1 -> Seq(S)],
         \A i \in 1 .. n : a[i] = b[i]
  PROVE  Separated(b, separator) = Separated(a, separator) \o Sign(separator) \o b[n + 1]
<1> DEFINE f == Joint(a, separator, n)
           g == Joint(b, separator, n + 1)
           sign == Sign(separator)
<1>1. \A i \in 1 .. n + 1 : b[i] \in Seq(S) /\ sign \o b[i] \in Seq(S)
  BY ConcatProperties
<1>2. \A i \in 1 .. n : a[i] \in Seq(S) /\ sign \o a[i] \in Seq(S)
  BY ConcatProperties
<1>3. f \in [1 .. n -> Seq(S)] /\ g \in [1 .. n + 1 -> Seq(S)]
  BY <1>1, <1>2 DEF Joint
<1>4. \A i \in 1 .. n : f[i] = g[i]
  BY DEF Joint
<1>5. g[n + 1] = sign \o b[n + 1]
  <2>1. n + 1 \in 1 .. n + 1 /\ n + 1 # 1
    OBVIOUS
  <2> QED
    BY <2>1 DEF Joint
<1>6. Separated(a, separator) = FlattenSeq(f) /\ Separated(b, separator) = FlattenSeq(g)
  BY DEF Separated, Joint
<1> HIDE DEF f, g
<1>7. FlattenSeq(g) = FlattenSeq(f) \o g[n + 1]
  BY <1>3, <1>4, FlattenStep
<1>8. FlattenSeq(f) \in Seq(S) /\ b[n + 1] \in Seq(S)
  BY <1>3, FlattenType
<1> HIDE DEF sign
<1>9. sign \in Seq(S)
  BY DEF sign
<1>10. (FlattenSeq(f) \o sign) \o b[n + 1] = FlattenSeq(f) \o (sign \o b[n + 1])
  <2>1. PICK y \in Seq(S) : y = b[n + 1]
    BY <1>8
  <2>2. PICK z \in Seq(S) : z = FlattenSeq(f)
    BY <1>8
  <2>3. (z \o sign) \o y = z \o (sign \o y)
    BY ONLY <1>9, y \in Seq(S), z \in Seq(S), ConcatAssociative
  <2> QED
    BY ONLY <2>1, <2>2, <2>3, Zenon
<1>11. FlattenSeq(g) = (FlattenSeq(f) \o sign) \o b[n + 1]
  BY ONLY <1>5, <1>7, <1>10, Zenon
<1> QED
  BY ONLY <1>6, <1>11, Zenon DEF sign

\* One text, and none, have no separators.
LEMMA SeparatedFew ==
  ASSUME NEW S, NEW separator, NEW b
  PROVE  /\ b \in [1 .. 1 -> Seq(S)] => Separated(b, separator) = b[1]
         /\ b \in [1 .. 0 -> Seq(S)] => Separated(b, separator) = <<>>
<1>1. ASSUME b \in [1 .. 1 -> Seq(S)] PROVE Separated(b, separator) = b[1]
  <2> DEFINE g == Joint(b, separator, 1)
  <2>1. g \in [1 .. 1 -> Seq(S)] /\ g[1] = b[1] /\ b[1] \in Seq(S)
    BY <1>1 DEF Joint
  <2>2. Separated(b, separator) = FlattenSeq(g)
    BY <1>1 DEF Separated, Joint
  <2> HIDE DEF g
  <2>3. PICK n \in Nat : n = 1 /\ n > 0 /\ n \in 1 .. n
    OBVIOUS
  <2>4. PICK f : IsFlat(f, g, n) /\ FlattenSeq(g) = f[n]
    BY <2>1, <2>3, FlattenIs
  <2>5. f[n] = g[n]
    BY <2>3, <2>4, FlatAt
  <2> QED
    BY <2>1, <2>2, <2>3, <2>4, <2>5
<1>2. ASSUME b \in [1 .. 0 -> Seq(S)] PROVE Separated(b, separator) = <<>>
  <2> DEFINE g == Joint(b, separator, 0)
  <2>1. g \in [1 .. 0 -> Seq(S)] /\ 0 \in Nat
    BY DEF Joint
  <2>2. Separated(b, separator) = FlattenSeq(g)
    BY <1>2 DEF Separated, Joint
  <2> HIDE DEF g
  <2> QED
    BY <2>1, <2>2, FlattenIs
<1> QED
  BY <1>1, <1>2

\* A list with commas that grows by a node.
LEMMA CommasGrow ==
  ASSUME NEW l, Listed(l), l # <<>>, NEW x
  PROVE  Commas(Append(l, x)) = Commas(l) \o Sign("COMMA") \o <<x>>
<1> DEFINE S == Range(l) \cup {x, Token("COMMA", "")}
           n == Len(l)
           a == [i \in DOMAIN l |-> <<l[i]>>]
           b == [i \in DOMAIN Append(l, x) |-> <<Append(l, x)[i]>>]
<1>1. l \in Seq(S) /\ x \in S /\ Sign("COMMA") \in Seq(S)
  <2>1. l \in Seq(Range(l)) /\ Range(l) \subseteq S /\ Token("COMMA", "") \in S /\ x \in S
    BY DEF Listed
  <2> HIDE DEF S
  <2>2. Sign("COMMA") \in Seq(S)
    BY <2>1, OneInSeq, Zenon DEF Sign
  <2> QED
    BY ONLY <2>1, <2>2, SeqMonotonic
<1> HIDE DEF S
<1>2. n \in Nat /\ n > 0
  BY <1>1, EmptySeq
<1>3. /\ DOMAIN l = 1 .. n /\ DOMAIN Append(l, x) = 1 .. n + 1
      /\ \A i \in 1 .. n : Append(l, x)[i] = l[i] /\ l[i] \in S
      /\ Append(l, x)[n + 1] = x
  BY <1>1, MapGrows
<1> HIDE DEF n
<1>4. a \in [1 .. n -> Seq(S)]
  BY <1>3
<1>5. b \in [1 .. n + 1 -> Seq(S)]
  <2>1. ASSUME NEW i \in 1 .. n + 1 PROVE Append(l, x)[i] \in S
    <3>1. i \in 1 .. n \/ i = n + 1
      BY <1>2
    <3> QED
      BY <1>1, <1>3, <3>1
  <2>2. \A i \in 1 .. n + 1 : <<Append(l, x)[i]>> \in Seq(S)
    BY <2>1, OneInSeq, Zenon
  <2>3. b = [i \in 1 .. n + 1 |-> <<Append(l, x)[i]>>]
    BY <1>3
  <2> QED
    BY <2>2, <2>3
<1>6. \A i \in 1 .. n : a[i] = b[i]
  BY <1>2, <1>3
<1>7. b[n + 1] = <<x>>
  BY <1>2, <1>3
<1>8. Commas(l) = Separated(a, "COMMA") /\ Commas(Append(l, x)) = Separated(b, "COMMA")
  BY DEF Commas
<1> HIDE DEF a, b
<1>9. Separated(b, "COMMA") = Separated(a, "COMMA") \o Sign("COMMA") \o b[n + 1]
  BY ONLY <1>1, <1>2, <1>4, <1>5, <1>6, SeparatedGrows, ZenonT(40)
<1> QED
  BY ONLY <1>7, <1>8, <1>9, Zenon

\* A list with dots that grows by a name.
LEMMA DottedGrow ==
  ASSUME NEW l, Listed(l), l # <<>>, NEW x
  PROVE  Dotted(Append(l, x)) = Dotted(l) \o Sign("DOT") \o Id(x)
<1> DEFINE S == {Token("IDENTIFIER", y) : y \in Range(l) \cup {x}} \cup {Token("DOT", "")}
           R == Range(l) \cup {x}
           n == Len(l)
           a == [i \in DOMAIN l |-> Id(l[i])]
           b == [i \in DOMAIN Append(l, x) |-> Id(Append(l, x)[i])]
<1>1. l \in Seq(R) /\ x \in R /\ Sign("DOT") \in Seq(S)
  <2>1. l \in Seq(Range(l)) /\ Range(l) \subseteq R /\ Token("DOT", "") \in S /\ x \in R
    BY DEF Listed
  <2> HIDE DEF S, R
  <2>2. Sign("DOT") \in Seq(S)
    BY <2>1, OneInSeq, Zenon DEF Sign
  <2> QED
    BY ONLY <2>1, <2>2, SeqMonotonic
<1>0. \A y \in R : Id(y) \in Seq(S)
  <2>1. \A y \in R : Token("IDENTIFIER", y) \in S
    OBVIOUS
  <2> HIDE DEF S, R
  <2> QED
    BY <2>1 DEF Id
<1> HIDE DEF S, R
<1>2. n \in Nat /\ n > 0
  BY <1>1, EmptySeq
<1>3. /\ DOMAIN l = 1 .. n /\ DOMAIN Append(l, x) = 1 .. n + 1
      /\ \A i \in 1 .. n : Append(l, x)[i] = l[i] /\ l[i] \in R
      /\ Append(l, x)[n + 1] = x
  BY <1>1, MapGrows
<1> HIDE DEF n
<1>4. a \in [1 .. n -> Seq(S)]
  BY <1>0, <1>3
<1>5. b \in [1 .. n + 1 -> Seq(S)]
  <2>1. ASSUME NEW i \in 1 .. n + 1 PROVE Append(l, x)[i] \in R
    <3>1. i \in 1 .. n \/ i = n + 1
      BY <1>2
    <3> QED
      BY <1>1, <1>3, <3>1
  <2> QED
    BY <1>0, <1>3, <2>1
<1>6. \A i \in 1 .. n : a[i] = b[i]
  BY <1>2, <1>3
<1>7. b[n + 1] = Id(x)
  BY <1>2, <1>3
<1>8. Dotted(l) = Separated(a, "DOT") /\ Dotted(Append(l, x)) = Separated(b, "DOT")
  BY DEF Dotted
<1> HIDE DEF a, b
<1>9. Separated(b, "DOT") = Separated(a, "DOT") \o Sign("DOT") \o b[n + 1]
  BY ONLY <1>1, <1>2, <1>4, <1>5, <1>6, SeparatedGrows, ZenonT(40)
<1> QED
  BY ONLY <1>7, <1>8, <1>9, Zenon

\* A list of one element has no separators.
LEMMA SeparatedOnes ==
  /\ \A x : Commas(<<x>>) = <<x>> /\ Dotted(<<x>>) = Id(x)
  /\ Commas(<<>>) = <<>>
<1>1. ASSUME NEW x PROVE Commas(<<x>>) = <<x>>
  <2>1. PICK b : b = [i \in DOMAIN <<x>> |-> <<(<<x>>)[i]>>]
    OBVIOUS
  <2>2. b \in [1 .. 1 -> Seq({x})] /\ b[1] = <<x>>
    BY <2>1
  <2>3. Commas(<<x>>) = Separated(b, "COMMA")
    BY <2>1 DEF Commas
  <2> QED
    BY <2>2, <2>3, SeparatedFew
<1>2. ASSUME NEW x PROVE Dotted(<<x>>) = Id(x)
  <2>1. PICK b : b = [i \in DOMAIN <<x>> |-> Id((<<x>>)[i])]
    OBVIOUS
  <2>2. b \in [1 .. 1 -> Seq({Token("IDENTIFIER", x)})] /\ b[1] = Id(x)
    BY <2>1 DEF Id
  <2>3. Dotted(<<x>>) = Separated(b, "DOT")
    BY <2>1 DEF Dotted
  <2> QED
    BY <2>2, <2>3, SeparatedFew
<1>3. Commas(<<>>) = <<>>
  <2>1. PICK b : b = [i \in DOMAIN <<>> |-> <<(<<>>)[i]>>]
    OBVIOUS
  <2>2. b \in [1 .. 0 -> Seq({})]
    BY <2>1
  <2>3. Commas(<<>>) = Separated(b, "COMMA")
    BY <2>1 DEF Commas
  <2> QED
    BY <2>2, <2>3, SeparatedFew
<1> QED
  BY <1>1, <1>2, <1>3

\* How many more levels of nodes than there are tokens a symbol may account for: a
\* token for two, and a premise or a target that is still to be wrapped for one.
Weight(symbol) ==
  IF symbol \in {"IDENTIFIER", "COLON", "SEMICOLON", "ELLIPSIS", "END"} THEN 2
  ELSE IF symbol \in {"premise_type_inference_defn", "premise_type_equality_defn",
                      "deduction_target_singular", "deduction_target_array",
                      "deduction_target_computed"} THEN 1
  ELSE 0

SeparatedLists == {"global_decl_list", "argument_list", "deduction_target_list", "identifiable"}

\* A list with separators is not empty.
Valued(symbol, v) == symbol \in SeparatedLists => Listed(v) /\ v # <<>>

\* The right-hand side of the production p has n symbols, with the values v.
Reads(p, v, N, n) ==
  /\ HasTexts(p, v, N, n)
  /\ Listed(v) /\ Len(v) = n
  /\ \A i \in 1 .. n : Valued(Rhs(p)[i], v[i])

\* The left-hand side of p is written as its right-hand side was,
Rewrites(p, v) ==
  /\ Weight(Lhs(p)) = 0 /\ Valued(Lhs(p), Built(p, v))
  /\ SymbolText(Lhs(p), Built(p, v)) = Text(p, v)

\* or is a node with that text.
Builds(p, v) ==
  /\ Valued(Lhs(p), Built(p, v))
  /\ SymbolText(Lhs(p), Built(p, v)) = <<Built(p, v)>>
  /\ Unfold(Built(p, v)) = Text(p, v)
  /\ \E j \in 1 .. Len(Rhs(p)) : Weight(Rhs(p)[j]) >= 1 + Weight(Lhs(p))

\* The productions that begin a list with nothing.
LEMMA EmptyLists ==
  ASSUME NEW p \in {3, 6, 9, 23}, NEW v, NEW N, Reads(p, v, N, 0)
  PROVE  Rewrites(p, v)
<1>1. /\ Lhs(p) \in {"inference_group_list", "environment_defn_list", "inference_defn_list",
                     "premise_defn_list"}
      /\ Len(v) = 0
  BY GroupRules, PremiseRules DEF IsRule, Reads
<1>2. Lhs(p) \in Lists
  BY <1>1 DEF Lists
<1>3. Built(p, v) = <<>>
  BY ONLY <1>1, <1>2, ListIsBuilt
<1>4. Text(p, v) = <<>>
  BY TextOfNone DEF Reads
<1>5. SymbolText(Lhs(p), Built(p, v)) = Built(p, v)
  BY <1>1, WrittenAsLists
<1>6. Weight(Lhs(p)) = 0 /\ Valued(Lhs(p), Built(p, v))
  BY ONLY <1>1 DEF Weight, Valued, SeparatedLists
<1> QED
  BY ONLY <1>3, <1>4, <1>5, <1>6, Zenon DEF Rewrites

\* The productions that put one node more behind a list.
LEMMA LongerLists ==
  ASSUME NEW p \in {4, 7, 10, 24}, NEW v, NEW N, Reads(p, v, N, 2)
  PROVE  Rewrites(p, v)
<1>1. /\ Lhs(p) \in {"inference_group_list", "environment_defn_list", "inference_defn_list",
                     "premise_defn_list"}
      /\ Len(v) = 2 /\ HasTexts(p, v, N, 2)
      /\ Rhs(p)[1] = Lhs(p)
      /\ Rhs(p)[2] \in {"inference_group", "environment_defn", "inference_defn", "premise_defn"}
  BY GroupRules, PremiseRules DEF IsRule, Reads
<1>2. Lhs(p) \in Lists
  BY <1>1 DEF Lists
<1>3. Built(p, v) = Append(v[1], v[2])
  BY ONLY <1>1, <1>2, ListIsBuilt
<1>4. Text(p, v) = SymbolText(Rhs(p)[1], v[1]) \o SymbolText(Rhs(p)[2], v[2])
  BY <1>1, TextOfTwo
<1>5. /\ SymbolText(Rhs(p)[1], v[1]) = v[1] /\ SymbolText(Rhs(p)[2], v[2]) = <<v[2]>>
      /\ SymbolText(Lhs(p), Built(p, v)) = Built(p, v)
  BY <1>1, WrittenAsLists, WrittenAsOne DEF Written
<1>6. v[1] \in Seq(N) /\ <<v[2]>> \in Seq(N)
  <2>1. \A i \in 1 .. 2 : SymbolText(Rhs(p)[i], v[i]) \in Seq(N)
    BY <1>1 DEF HasTexts
  <2>2. 1 \in 1 .. 2 /\ 2 \in 1 .. 2
    OBVIOUS
  <2> QED
    BY ONLY <1>5, <2>1, <2>2, Zenon
<1>7. Append(v[1], v[2]) = v[1] \o <<v[2]>>
  <2>1. Listed(v[1]) /\ \E S : v[1] \in Seq(S) /\ v[2] \in S
    <3>1. PICK l \in Seq(N) : l = v[1]
      BY <1>6
    <3>2. l \in Seq(N \cup {v[2]})
      BY SeqMonotonic
    <3> QED
      BY <3>1, <3>2, ListedSeq
  <2> QED
    BY <2>1, AppendIsConcat
<1>8. Weight(Lhs(p)) = 0 /\ Valued(Lhs(p), Built(p, v))
  BY ONLY <1>1 DEF Weight, Valued, SeparatedLists
<1> QED
  BY ONLY <1>3, <1>4, <1>5, <1>7, <1>8, Zenon DEF Rewrites

\* The productions that begin a list with its first element.
LEMMA SeparatedFirst ==
  ASSUME NEW p \in {14, 19, 34, 37}, NEW v, NEW N, Reads(p, v, N, 1)
  PROVE  Rewrites(p, v)
<1>1. /\ Lhs(p) \in {"global_decl_list", "argument_list", "deduction_target_list", "identifiable"}
      /\ Len(v) = 1 /\ HasTexts(p, v, N, 1)
      /\ Lhs(p) # "identifiable" =>
           Rhs(p)[1] \in {"global_decl", "inference_argument", "deduction_target"}
      /\ Lhs(p) = "identifiable" => Rhs(p)[1] = "identifier"
  <2>1. Len(v) = 1 /\ HasTexts(p, v, N, 1)
    BY DEF Reads
  <2>2. CASE p \in {14, 19}
    BY <2>1, <2>2, RuleRules DEF IsRule
  <2>3. CASE p \in {34, 37}
    BY <2>1, <2>3, TargetRules DEF IsRule
  <2> QED
    BY <2>2, <2>3
<1>2. Lhs(p) \in Lists
  BY <1>1 DEF Lists
<1>3. Built(p, v) = <<v[1]>>
  BY ONLY <1>1, <1>2, ListIsBuilt
<1>4. Text(p, v) = SymbolText(Rhs(p)[1], v[1])
  BY <1>1, TextOfOne
<1>7. SymbolText(Lhs(p), Built(p, v)) = Text(p, v)
  <2>1. CASE Lhs(p) = "identifiable"
    <3>1. SymbolText(Lhs(p), <<v[1]>>) = Dotted(<<v[1]>>) /\ SymbolText(Rhs(p)[1], v[1]) = Id(v[1])
      BY <1>1, <2>1, WrittenAsParts
    <3> QED
      BY ONLY <1>3, <1>4, <3>1, SeparatedOnes, Zenon
  <2>2. CASE Lhs(p) # "identifiable"
    <3>1. SymbolText(Lhs(p), <<v[1]>>) = Commas(<<v[1]>>) /\ SymbolText(Rhs(p)[1], v[1]) = <<v[1]>>
      BY <1>1, <2>2, WrittenAsLists, WrittenAsOne DEF Written
    <3> QED
      BY ONLY <1>3, <1>4, <3>1, SeparatedOnes, Zenon
  <2> QED
    BY <2>1, <2>2
<1>8. Weight(Lhs(p)) = 0
  BY ONLY <1>1 DEF Weight
<1>9. Listed(<<v[1]>>) /\ <<v[1]>> # <<>>
  <2>1. <<v[1]>> \in Seq({v[1]})
    BY OneInSeq
  <2> QED
    BY <2>1, ListedSeq
<1> QED
  BY ONLY <1>3, <1>7, <1>8, <1>9, Zenon DEF Rewrites, Valued

\* The productions that put a separator and one element more behind a list.
LEMMA SeparatedNext ==
  ASSUME NEW p \in {15, 20, 35, 38}, NEW v, NEW N, Reads(p, v, N, 3)
  PROVE  Rewrites(p, v)
<1>1. /\ Lhs(p) \in {"global_decl_list", "argument_list", "deduction_target_list", "identifiable"}
      /\ Len(v) = 3 /\ HasTexts(p, v, N, 3)
      /\ Rhs(p)[1] = Lhs(p)
      /\ Lhs(p) # "identifiable" => /\ Rhs(p)[2] = "COMMA"
                                    /\ Rhs(p)[3] \in {"global_decl", "inference_argument",
                                                      "deduction_target"}
      /\ Lhs(p) = "identifiable" => Rhs(p)[2] = "DOT" /\ Rhs(p)[3] = "identifier"
  <2>1. Len(v) = 3 /\ HasTexts(p, v, N, 3)
    BY DEF Reads
  <2>2. CASE p \in {15, 20}
    BY <2>1, <2>2, RuleRules DEF IsRule
  <2>3. CASE p \in {35, 38}
    BY <2>1, <2>3, TargetRules DEF IsRule
  <2> QED
    BY <2>2, <2>3
<1>2. Lhs(p) \in Lists /\ Lhs(p) \in SeparatedLists
  BY <1>1 DEF Lists, SeparatedLists
<1>3. Built(p, v) = Append(v[1], v[3])
  BY ONLY <1>1, <1>2, ListIsBuilt
<1>4. Text(p, v) = SymbolText(Rhs(p)[1], v[1]) \o SymbolText(Rhs(p)[2], v[2])
                   \o SymbolText(Rhs(p)[3], v[3])
  BY <1>1, TextOfThree
<1>5. Listed(v[1]) /\ v[1] # <<>>
  <2>1. 1 \in 1 .. 3
    OBVIOUS
  <2>2. Valued(Rhs(p)[1], v[1])
    BY <2>1, Zenon DEF Reads
  <2> QED
    BY <1>1, <1>2, <2>2 DEF Valued
<1>6. Listed(Append(v[1], v[3])) /\ Append(v[1], v[3]) # <<>>
  BY <1>5, ListedAppend
<1>7. SymbolText(Lhs(p), Append(v[1], v[3])) = Text(p, v)
  <2>1. CASE Lhs(p) = "identifiable"
    <3>1. /\ SymbolText(Lhs(p), Append(v[1], v[3])) = Dotted(Append(v[1], v[3]))
          /\ SymbolText(Rhs(p)[1], v[1]) = Dotted(v[1])
          /\ SymbolText(Rhs(p)[3], v[3]) = Id(v[3])
      BY <1>1, <2>1, WrittenAsParts
    <3>2. SymbolText(Rhs(p)[2], v[2]) = Sign("DOT")
      BY <1>1, <2>1, WrittenAsSigns
    <3> QED
      BY ONLY <1>4, <1>5, <3>1, <3>2, DottedGrow, Zenon
  <2>2. CASE Lhs(p) # "identifiable"
    <3>1. /\ SymbolText(Lhs(p), Append(v[1], v[3])) = Commas(Append(v[1], v[3]))
          /\ SymbolText(Rhs(p)[1], v[1]) = Commas(v[1])
          /\ SymbolText(Rhs(p)[3], v[3]) = <<v[3]>>
      BY <1>1, <2>2, WrittenAsLists, WrittenAsOne DEF Written
    <3>2. SymbolText(Rhs(p)[2], v[2]) = Sign("COMMA")
      BY <1>1, <2>2, WrittenAsSigns
    <3> QED
      BY ONLY <1>4, <1>5, <3>1, <3>2, CommasGrow, Zenon
  <2> QED
    BY <2>1, <2>2
<1>8. Weight(Lhs(p)) = 0
  BY ONLY <1>1 DEF Weight
<1> QED
  BY ONLY <1>3, <1>6, <1>7, <1>8, Zenon DEF Rewrites, Valued

\* Nothing after two texts.
LEMMA EndTwo ==
  ASSUME NEW N, NEW a, NEW b, a \in Seq(N), b \in Seq(N)
  PROVE  a \o b \o <<>> = a \o b
<1>1. a \o b \in Seq(N)
  BY ConcatProperties
<1> QED
  BY ONLY <1>1, ConcatEmptySeq

\* Nothing after three texts.
LEMMA EndThree ==
  ASSUME NEW N, NEW a, NEW b, NEW c, a \in Seq(N), b \in Seq(N), c \in Seq(N)
  PROVE  a \o b \o c \o <<>> = a \o b \o c
<1>1. a \o b \in Seq(N)
  BY ConcatProperties
<1>2. (a \o b) \o c \in Seq(N)
  BY <1>1, ConcatProperties
<1> QED
  BY ONLY <1>2, ConcatEmptySeq

\* The symbols of a right-hand side of three are written with nodes.
LEMMA PartsThree ==
  ASSUME NEW p, NEW v, NEW N, HasTexts(p, v, N, 3)
  PROVE  SymbolText(Rhs(p)[1], v[1]) \in Seq(N) /\ SymbolText(Rhs(p)[2], v[2]) \in Seq(N)
<1>1. 1 \in 1 .. 3 /\ 2 \in 1 .. 3
  OBVIOUS
<1> QED
  BY ONLY HasTexts(p, v, N, 3), <1>1, Zenon DEF HasTexts

\* The symbols of a right-hand side of four are written with nodes.
LEMMA PartsFour ==
  ASSUME NEW p, NEW v, NEW N, HasTexts(p, v, N, 4)
  PROVE  /\ SymbolText(Rhs(p)[1], v[1]) \in Seq(N) /\ SymbolText(Rhs(p)[2], v[2]) \in Seq(N)
         /\ SymbolText(Rhs(p)[3], v[3]) \in Seq(N)
<1>1. 1 \in 1 .. 4 /\ 2 \in 1 .. 4 /\ 3 \in 1 .. 4
  OBVIOUS
<1> QED
  BY ONLY HasTexts(p, v, N, 4), <1>1, Zenon DEF HasTexts

\* An inference_group keeps what it was read from (parser.yy).
LEMMA GroupRead ==
  ASSUME NEW v, NEW N, Reads(5, v, N, 6)
  PROVE  Builds(5, v)
<1>1. /\ Lhs(5) = "inference_group" /\ Len(Rhs(5)) = 6
      /\ Rhs(5)[1] = "KEYWORD_GROUP"
      /\ Rhs(5)[2] = "IDENTIFIER"
      /\ Rhs(5)[3] = "LBRACE"
      /\ Rhs(5)[4] = "environment_defn_list"
      /\ Rhs(5)[5] = "inference_defn_list"
      /\ Rhs(5)[6] = "RBRACE"
  BY GroupRules DEF IsRule
<1>2. HasTexts(5, v, N, 6) /\ Listed(v) /\ Len(v) = 6 /\ \A i \in 1 .. 6 : Valued(Rhs(5)[i], v[i])
  BY DEF Reads
<1>3. Built(5, v) = [kind |-> "group", name |-> v[2], env |-> v[4], defns |-> v[5]]
  <2>1. Built(5, v) = GroupValue(Lhs(5), v)
    BY ONLY <1>1, NodeIsBuilt
  <2> QED
    BY ONLY <1>1, <1>2, <2>1 DEF GroupValue
<1>4. Text(5, v) = SymbolText(Rhs(5)[1], v[1]) \o SymbolText(Rhs(5)[2], v[2]) \o SymbolText(Rhs(5)[3], v[3]) \o SymbolText(Rhs(5)[4], v[4]) \o SymbolText(Rhs(5)[5], v[5]) \o SymbolText(Rhs(5)[6], v[6])
  BY ONLY <1>2, TextOfSix
<1>5. /\ SymbolText(Rhs(5)[1], v[1]) = Sign("KEYWORD_GROUP")
      /\ SymbolText(Rhs(5)[2], v[2]) = Id(v[2])
      /\ SymbolText(Rhs(5)[3], v[3]) = Sign("LBRACE")
      /\ SymbolText(Rhs(5)[4], v[4]) = v[4]
      /\ SymbolText(Rhs(5)[5], v[5]) = v[5]
      /\ SymbolText(Rhs(5)[6], v[6]) = Sign("RBRACE")
  BY ONLY <1>1, WrittenAsLists, WrittenAsSigns, WrittenAsTokens
<1>6. SymbolText(Lhs(5), Built(5, v)) = <<Built(5, v)>>
  BY ONLY <1>1, WrittenAsOne DEF Written
<1>7. /\ Valued(Lhs(5), Built(5, v))
      /\ 2 \in 1 .. Len(Rhs(5)) /\ Weight(Rhs(5)[2]) >= 1 + Weight(Lhs(5))
  BY ONLY <1>1 DEF Valued, SeparatedLists, Weight
<1>8. Unfold([kind |-> "group", name |-> v[2], env |-> v[4], defns |-> v[5]]) = Sign("KEYWORD_GROUP") \o Id(v[2]) \o Sign("LBRACE") \o v[4] \o v[5] \o Sign("RBRACE")
  <2>1. PICK n : n = [kind |-> "group", name |-> v[2], env |-> v[4], defns |-> v[5]]
    OBVIOUS
  <2>2. n.kind = "group" /\ n.name = v[2] /\ n.env = v[4] /\ n.defns = v[5]
    BY <2>1
  <2>3. Unfold(n) = Sign("KEYWORD_GROUP") \o Id(n.name) \o Sign("LBRACE") \o n.env \o n.defns \o Sign("RBRACE")
    BY ONLY <2>2 DEF Unfold
  <2> QED
    BY ONLY <2>1, <2>2, <2>3, Zenon
<1> QED
  BY ONLY <1>3, <1>4, <1>5, <1>6, <1>7, <1>8, Zenon DEF Builds

\* So does an environment_defn,
LEMMA FieldRead ==
  ASSUME NEW v, NEW N, Reads(8, v, N, 4)
  PROVE  Builds(8, v)
<1>1. /\ Lhs(8) = "environment_defn" /\ Len(Rhs(8)) = 4
      /\ Rhs(8)[1] = "IDENTIFIER"
      /\ Rhs(8)[2] = "COLON"
      /\ Rhs(8)[3] = "IDENTIFIER"
      /\ Rhs(8)[4] = "SEMICOLON"
  BY GroupRules DEF IsRule
<1>2. HasTexts(8, v, N, 4) /\ Listed(v) /\ Len(v) = 4 /\ \A i \in 1 .. 4 : Valued(Rhs(8)[i], v[i])
  BY DEF Reads
<1>3. Built(8, v) = [kind |-> "env", field |-> v[1], value |-> v[3]]
  <2>1. Built(8, v) = GroupValue(Lhs(8), v)
    BY ONLY <1>1, NodeIsBuilt
  <2> QED
    BY ONLY <1>1, <1>2, <2>1 DEF GroupValue
<1>4. Text(8, v) = SymbolText(Rhs(8)[1], v[1]) \o SymbolText(Rhs(8)[2], v[2]) \o SymbolText(Rhs(8)[3], v[3]) \o SymbolText(Rhs(8)[4], v[4])
  BY ONLY <1>2, TextOfFour
<1>5. /\ SymbolText(Rhs(8)[1], v[1]) = Id(v[1])
      /\ SymbolText(Rhs(8)[2], v[2]) = Sign("COLON")
      /\ SymbolText(Rhs(8)[3], v[3]) = Id(v[3])
      /\ SymbolText(Rhs(8)[4], v[4]) = Sign("SEMICOLON")
  BY ONLY <1>1, WrittenAsSigns, WrittenAsTokens
<1>6. SymbolText(Lhs(8), Built(8, v)) = <<Built(8, v)>>
  BY ONLY <1>1, WrittenAsOne DEF Written
<1>7. /\ Valued(Lhs(8), Built(8, v))
      /\ 1 \in 1 .. Len(Rhs(8)) /\ Weight(Rhs(8)[1]) >= 1 + Weight(Lhs(8))
  BY ONLY <1>1 DEF Valued, SeparatedLists, Weight
<1>8. Unfold([kind |-> "env", field |-> v[1], value |-> v[3]]) = Id(v[1]) \o Sign("COLON") \o Id(v[3]) \o Sign("SEMICOLON")
  BY ONLY FieldText, Zenon
<1> QED
  BY ONLY <1>3, <1>4, <1>5, <1>6, <1>7, <1>8, Zenon DEF Builds

\* an inference_defn,
LEMMA RuleRead ==
  ASSUME NEW v, NEW N, Reads(11, v, N, 8)
  PROVE  Builds(11, v)
<1>1. /\ Lhs(11) = "inference_defn" /\ Len(Rhs(11)) = 8
      /\ Rhs(11)[1] = "KEYWORD_INFERENCE"
      /\ Rhs(11)[2] = "IDENTIFIER"
      /\ Rhs(11)[3] = "LBRACE"
      /\ Rhs(11)[4] = "global_decl_set"
      /\ Rhs(11)[5] = "argument_set"
      /\ Rhs(11)[6] = "premise_set"
      /\ Rhs(11)[7] = "proposition_defn"
      /\ Rhs(11)[8] = "RBRACE"
  BY RuleRules DEF IsRule
<1>2. HasTexts(11, v, N, 8) /\ Listed(v) /\ Len(v) = 8 /\ \A i \in 1 .. 8 : Valued(Rhs(11)[i], v[i])
  BY DEF Reads
<1>3. Built(11, v) = [kind |-> "defn", name |-> v[2], globals |-> v[4], arguments |-> v[5],
                    premises |-> v[6], proposition |-> v[7]]
  <2>1. Built(11, v) = RuleValue(Lhs(11), v)
    BY ONLY <1>1, NodeIsBuilt
  <2> QED
    BY ONLY <1>1, <1>2, <2>1 DEF RuleValue
<1>4. Text(11, v) = SymbolText(Rhs(11)[1], v[1]) \o SymbolText(Rhs(11)[2], v[2]) \o SymbolText(Rhs(11)[3], v[3]) \o SymbolText(Rhs(11)[4], v[4]) \o SymbolText(Rhs(11)[5], v[5]) \o SymbolText(Rhs(11)[6], v[6]) \o SymbolText(Rhs(11)[7], v[7]) \o SymbolText(Rhs(11)[8], v[8])
  BY ONLY <1>2, TextOfEight
<1>5. /\ SymbolText(Rhs(11)[1], v[1]) = Sign("KEYWORD_INFERENCE")
      /\ SymbolText(Rhs(11)[2], v[2]) = Id(v[2])
      /\ SymbolText(Rhs(11)[3], v[3]) = Sign("LBRACE")
      /\ SymbolText(Rhs(11)[4], v[4]) = GlobalsText(v[4])
      /\ SymbolText(Rhs(11)[5], v[5]) = ArgumentsText(v[5])
      /\ SymbolText(Rhs(11)[6], v[6]) = PremisesText(v[6])
      /\ SymbolText(Rhs(11)[7], v[7]) = <<v[7]>>
      /\ SymbolText(Rhs(11)[8], v[8]) = Sign("RBRACE")
  BY ONLY <1>1, WrittenAsOne, WrittenAsParts, WrittenAsSigns, WrittenAsTokens DEF Written
<1>6. SymbolText(Lhs(11), Built(11, v)) = <<Built(11, v)>>
  BY ONLY <1>1, WrittenAsOne DEF Written
<1>7. /\ Valued(Lhs(11), Built(11, v))
      /\ 2 \in 1 .. Len(Rhs(11)) /\ Weight(Rhs(11)[2]) >= 1 + Weight(Lhs(11))
  BY ONLY <1>1 DEF Valued, SeparatedLists, Weight
<1>8. Unfold([kind |-> "defn", name |-> v[2], globals |-> v[4], arguments |-> v[5],
                    premises |-> v[6], proposition |-> v[7]]) = Sign("KEYWORD_INFERENCE") \o Id(v[2]) \o Sign("LBRACE") \o GlobalsText(v[4]) \o ArgumentsText(v[5]) \o PremisesText(v[6]) \o <<v[7]>> \o Sign("RBRACE")
  <2>1. PICK n : n = [kind |-> "defn", name |-> v[2], globals |-> v[4], arguments |-> v[5],
                    premises |-> v[6], proposition |-> v[7]]
    OBVIOUS
  <2>2. n.kind = "defn" /\ n.name = v[2] /\ n.globals = v[4] /\ n.arguments = v[5] /\ n.premises = v[6] /\ n.proposition = v[7]
    BY <2>1
  <2>3. Unfold(n) = Sign("KEYWORD_INFERENCE") \o Id(n.name) \o Sign("LBRACE")
          \o GlobalsText(n.globals) \o ArgumentsText(n.arguments) \o PremisesText(n.premises)
          \o <<n.proposition>> \o Sign("RBRACE")
    BY ONLY <2>2 DEF Unfold
  <2> QED
    BY ONLY <2>1, <2>2, <2>3, Zenon
<1> QED
  BY ONLY <1>3, <1>4, <1>5, <1>6, <1>7, <1>8, Zenon DEF Builds

\* a global_decl_set,
LEMMA GlobalsRead ==
  ASSUME NEW v, NEW N, Reads(13, v, N, 5)
  PROVE  Rewrites(13, v)
<1>1. /\ Lhs(13) = "global_decl_set" /\ Len(Rhs(13)) = 5
      /\ Rhs(13)[1] = "KEYWORD_GLOBALS"
      /\ Rhs(13)[2] = "COLON"
      /\ Rhs(13)[3] = "LBRACKET"
      /\ Rhs(13)[4] = "global_decl_list"
      /\ Rhs(13)[5] = "RBRACKET"
  BY RuleRules DEF IsRule
<1>2. HasTexts(13, v, N, 5) /\ Listed(v) /\ Len(v) = 5 /\ \A i \in 1 .. 5 : Valued(Rhs(13)[i], v[i])
  BY DEF Reads
<1>3. Built(13, v) = v[4]
  <2>1. Built(13, v) = RuleValue(Lhs(13), v)
    BY ONLY <1>1, NodeIsBuilt
  <2>0. Len(v) = 5
    BY <1>2
  <2>2. v # <<>>
    BY ONLY <2>0
  <2> QED
    BY ONLY <1>1, <1>2, <2>1, <2>2 DEF RuleValue
<1>4. Text(13, v) = SymbolText(Rhs(13)[1], v[1]) \o SymbolText(Rhs(13)[2], v[2]) \o SymbolText(Rhs(13)[3], v[3]) \o SymbolText(Rhs(13)[4], v[4]) \o SymbolText(Rhs(13)[5], v[5])
  BY ONLY <1>2, TextOfFive
<1>5. /\ SymbolText(Rhs(13)[1], v[1]) = Sign("KEYWORD_GLOBALS")
      /\ SymbolText(Rhs(13)[2], v[2]) = Sign("COLON")
      /\ SymbolText(Rhs(13)[3], v[3]) = Sign("LBRACKET")
      /\ SymbolText(Rhs(13)[4], v[4]) = Commas(v[4])
      /\ SymbolText(Rhs(13)[5], v[5]) = Sign("RBRACKET")
  BY ONLY <1>1, WrittenAsLists, WrittenAsSigns
<1>6. SymbolText(Lhs(13), v[4]) = GlobalsText(v[4])
  BY ONLY <1>1, WrittenAsParts
<1>7. Weight(Lhs(13)) = 0 /\ Valued(Lhs(13), Built(13, v))
  BY ONLY <1>1 DEF Valued, SeparatedLists, Weight
<1>8. GlobalsText(v[4]) = Sign("KEYWORD_GLOBALS") \o Sign("COLON") \o Sign("LBRACKET") \o Commas(v[4]) \o Sign("RBRACKET")
  <2>1. 4 \in 1 .. 5
    OBVIOUS
  <2>2. v[4] # <<>>
    BY <1>1, <1>2, <2>1 DEF Valued, SeparatedLists
  <2> QED
    BY ONLY <2>2, Zenon DEF GlobalsText
<1> QED
  BY ONLY <1>3, <1>4, <1>5, <1>6, <1>7, <1>8, Zenon DEF Rewrites

\* a global_decl,
LEMMA GlobalRead ==
  ASSUME NEW v, NEW N, Reads(16, v, N, 1)
  PROVE  Builds(16, v)
<1>1. /\ Lhs(16) = "global_decl" /\ Len(Rhs(16)) = 1
      /\ Rhs(16)[1] = "IDENTIFIER"
  BY RuleRules DEF IsRule
<1>2. HasTexts(16, v, N, 1) /\ Listed(v) /\ Len(v) = 1 /\ \A i \in 1 .. 1 : Valued(Rhs(16)[i], v[i])
  BY DEF Reads
<1>3. Built(16, v) = [kind |-> "global", name |-> v[1]]
  <2>1. Built(16, v) = RuleValue(Lhs(16), v)
    BY ONLY <1>1, NodeIsBuilt
  <2> QED
    BY ONLY <1>1, <1>2, <2>1 DEF RuleValue
<1>4. Text(16, v) = SymbolText(Rhs(16)[1], v[1])
  BY ONLY <1>2, TextOfOne
<1>5. /\ SymbolText(Rhs(16)[1], v[1]) = Id(v[1])
  BY ONLY <1>1, WrittenAsTokens
<1>6. SymbolText(Lhs(16), Built(16, v)) = <<Built(16, v)>>
  BY ONLY <1>1, WrittenAsOne DEF Written
<1>7. /\ Valued(Lhs(16), Built(16, v))
      /\ 1 \in 1 .. Len(Rhs(16)) /\ Weight(Rhs(16)[1]) >= 1 + Weight(Lhs(16))
  BY ONLY <1>1 DEF Valued, SeparatedLists, Weight
<1>8. Unfold([kind |-> "global", name |-> v[1]]) = Id(v[1])
  BY ONLY DeclarationTexts, Zenon
<1> QED
  BY ONLY <1>3, <1>4, <1>5, <1>6, <1>7, <1>8, Zenon DEF Builds

\* an argument_set without arguments,
LEMMA NoArgumentsRead ==
  ASSUME NEW v, NEW N, Reads(17, v, N, 4)
  PROVE  Rewrites(17, v)
<1>1. /\ Lhs(17) = "argument_set" /\ Len(Rhs(17)) = 4
      /\ Rhs(17)[1] = "KEYWORD_ARGUMENTS"
      /\ Rhs(17)[2] = "COLON"
      /\ Rhs(17)[3] = "LBRACKET"
      /\ Rhs(17)[4] = "RBRACKET"
  BY RuleRules DEF IsRule
<1>2. HasTexts(17, v, N, 4) /\ Listed(v) /\ Len(v) = 4 /\ \A i \in 1 .. 4 : Valued(Rhs(17)[i], v[i])
  BY DEF Reads
<1>3. Built(17, v) = <<>>
  <2>1. Built(17, v) = RuleValue(Lhs(17), v)
    BY ONLY <1>1, NodeIsBuilt
  <2> QED
    BY ONLY <1>1, <1>2, <2>1 DEF RuleValue
<1>4. Text(17, v) = SymbolText(Rhs(17)[1], v[1]) \o SymbolText(Rhs(17)[2], v[2]) \o SymbolText(Rhs(17)[3], v[3]) \o SymbolText(Rhs(17)[4], v[4])
  BY ONLY <1>2, TextOfFour
<1>5. /\ SymbolText(Rhs(17)[1], v[1]) = Sign("KEYWORD_ARGUMENTS")
      /\ SymbolText(Rhs(17)[2], v[2]) = Sign("COLON")
      /\ SymbolText(Rhs(17)[3], v[3]) = Sign("LBRACKET")
      /\ SymbolText(Rhs(17)[4], v[4]) = Sign("RBRACKET")
  BY ONLY <1>1, WrittenAsSigns
<1>6. SymbolText(Lhs(17), <<>>) = ArgumentsText(<<>>)
  BY ONLY <1>1, WrittenAsParts
<1>7. Weight(Lhs(17)) = 0 /\ Valued(Lhs(17), Built(17, v))
  BY ONLY <1>1 DEF Valued, SeparatedLists, Weight
<1>8. ArgumentsText(<<>>) = Sign("KEYWORD_ARGUMENTS") \o Sign("COLON") \o Sign("LBRACKET") \o Sign("RBRACKET")
  <2>1. ArgumentsText(<<>>) = Sign("KEYWORD_ARGUMENTS") \o Sign("COLON") \o Sign("LBRACKET") \o <<>> \o Sign("RBRACKET")
    BY ONLY SeparatedOnes, Zenon DEF ArgumentsText
  <2>2. Sign("KEYWORD_ARGUMENTS") \in Seq(N) /\ Sign("COLON") \in Seq(N) /\ Sign("LBRACKET") \in Seq(N)
    BY <1>2, <1>5, PartsFour
  <2>3. Sign("KEYWORD_ARGUMENTS") \o Sign("COLON") \o Sign("LBRACKET") \o <<>>
          = Sign("KEYWORD_ARGUMENTS") \o Sign("COLON") \o Sign("LBRACKET")
    BY ONLY <2>2, EndThree
  <2> QED
    BY ONLY <2>1, <2>3, Zenon
<1> QED
  BY ONLY <1>3, <1>4, <1>5, <1>6, <1>7, <1>8, Zenon DEF Rewrites

\* and one with some,
LEMMA ArgumentsRead ==
  ASSUME NEW v, NEW N, Reads(18, v, N, 5)
  PROVE  Rewrites(18, v)
<1>1. /\ Lhs(18) = "argument_set" /\ Len(Rhs(18)) = 5
      /\ Rhs(18)[1] = "KEYWORD_ARGUMENTS"
      /\ Rhs(18)[2] = "COLON"
      /\ Rhs(18)[3] = "LBRACKET"
      /\ Rhs(18)[4] = "argument_list"
      /\ Rhs(18)[5] = "RBRACKET"
  BY RuleRules DEF IsRule
<1>2. HasTexts(18, v, N, 5) /\ Listed(v) /\ Len(v) = 5 /\ \A i \in 1 .. 5 : Valued(Rhs(18)[i], v[i])
  BY DEF Reads
<1>3. Built(18, v) = v[4]
  <2>1. Built(18, v) = RuleValue(Lhs(18), v)
    BY ONLY <1>1, NodeIsBuilt
  <2> QED
    BY ONLY <1>1, <1>2, <2>1 DEF RuleValue
<1>4. Text(18, v) = SymbolText(Rhs(18)[1], v[1]) \o SymbolText(Rhs(18)[2], v[2]) \o SymbolText(Rhs(18)[3], v[3]) \o SymbolText(Rhs(18)[4], v[4]) \o SymbolText(Rhs(18)[5], v[5])
  BY ONLY <1>2, TextOfFive
<1>5. /\ SymbolText(Rhs(18)[1], v[1]) = Sign("KEYWORD_ARGUMENTS")
      /\ SymbolText(Rhs(18)[2], v[2]) = Sign("COLON")
      /\ SymbolText(Rhs(18)[3], v[3]) = Sign("LBRACKET")
      /\ SymbolText(Rhs(18)[4], v[4]) = Commas(v[4])
      /\ SymbolText(Rhs(18)[5], v[5]) = Sign("RBRACKET")
  BY ONLY <1>1, WrittenAsLists, WrittenAsSigns
<1>6. SymbolText(Lhs(18), v[4]) = ArgumentsText(v[4])
  BY ONLY <1>1, WrittenAsParts
<1>7. Weight(Lhs(18)) = 0 /\ Valued(Lhs(18), Built(18, v))
  BY ONLY <1>1 DEF Valued, SeparatedLists, Weight
<1>8. ArgumentsText(v[4]) = Sign("KEYWORD_ARGUMENTS") \o Sign("COLON") \o Sign("LBRACKET") \o Commas(v[4]) \o Sign("RBRACKET")
  BY Zenon DEF ArgumentsText
<1> QED
  BY ONLY <1>3, <1>4, <1>5, <1>6, <1>7, <1>8, Zenon DEF Rewrites

\* an inference_argument,
LEMMA ArgumentRead ==
  ASSUME NEW v, NEW N, Reads(21, v, N, 3)
  PROVE  Builds(21, v)
<1>1. /\ Lhs(21) = "inference_argument" /\ Len(Rhs(21)) = 3
      /\ Rhs(21)[1] = "IDENTIFIER"
      /\ Rhs(21)[2] = "COLON"
      /\ Rhs(21)[3] = "IDENTIFIER"
  BY RuleRules DEF IsRule
<1>2. HasTexts(21, v, N, 3) /\ Listed(v) /\ Len(v) = 3 /\ \A i \in 1 .. 3 : Valued(Rhs(21)[i], v[i])
  BY DEF Reads
<1>3. Built(21, v) = [kind |-> "argument", name |-> v[1], type |-> v[3]]
  <2>1. Built(21, v) = RuleValue(Lhs(21), v)
    BY ONLY <1>1, NodeIsBuilt
  <2> QED
    BY ONLY <1>1, <1>2, <2>1 DEF RuleValue
<1>4. Text(21, v) = SymbolText(Rhs(21)[1], v[1]) \o SymbolText(Rhs(21)[2], v[2]) \o SymbolText(Rhs(21)[3], v[3])
  BY ONLY <1>2, TextOfThree
<1>5. /\ SymbolText(Rhs(21)[1], v[1]) = Id(v[1])
      /\ SymbolText(Rhs(21)[2], v[2]) = Sign("COLON")
      /\ SymbolText(Rhs(21)[3], v[3]) = Id(v[3])
  BY ONLY <1>1, WrittenAsSigns, WrittenAsTokens
<1>6. SymbolText(Lhs(21), Built(21, v)) = <<Built(21, v)>>
  BY ONLY <1>1, WrittenAsOne DEF Written
<1>7. /\ Valued(Lhs(21), Built(21, v))
      /\ 1 \in 1 .. Len(Rhs(21)) /\ Weight(Rhs(21)[1]) >= 1 + Weight(Lhs(21))
  BY ONLY <1>1 DEF Valued, SeparatedLists, Weight
<1>8. Unfold([kind |-> "argument", name |-> v[1], type |-> v[3]]) = Id(v[1]) \o Sign("COLON") \o Id(v[3])
  BY ONLY DeclarationTexts, Zenon
<1> QED
  BY ONLY <1>3, <1>4, <1>5, <1>6, <1>7, <1>8, Zenon DEF Builds

\* a premise_set,
LEMMA PremisesRead ==
  ASSUME NEW v, NEW N, Reads(22, v, N, 5)
  PROVE  Rewrites(22, v)
<1>1. /\ Lhs(22) = "premise_set" /\ Len(Rhs(22)) = 5
      /\ Rhs(22)[1] = "KEYWORD_PREMISES"
      /\ Rhs(22)[2] = "COLON"
      /\ Rhs(22)[3] = "LBRACKET"
      /\ Rhs(22)[4] = "premise_defn_list"
      /\ Rhs(22)[5] = "RBRACKET"
  BY PremiseRules DEF IsRule
<1>2. HasTexts(22, v, N, 5) /\ Listed(v) /\ Len(v) = 5 /\ \A i \in 1 .. 5 : Valued(Rhs(22)[i], v[i])
  BY DEF Reads
<1>3. Built(22, v) = v[4]
  <2>1. Built(22, v) = PremiseValue(Lhs(22), v)
    BY ONLY <1>1, NodeIsBuilt
  <2> QED
    BY ONLY <1>1, <1>2, <2>1 DEF PremiseValue
<1>4. Text(22, v) = SymbolText(Rhs(22)[1], v[1]) \o SymbolText(Rhs(22)[2], v[2]) \o SymbolText(Rhs(22)[3], v[3]) \o SymbolText(Rhs(22)[4], v[4]) \o SymbolText(Rhs(22)[5], v[5])
  BY ONLY <1>2, TextOfFive
<1>5. /\ SymbolText(Rhs(22)[1], v[1]) = Sign("KEYWORD_PREMISES")
      /\ SymbolText(Rhs(22)[2], v[2]) = Sign("COLON")
      /\ SymbolText(Rhs(22)[3], v[3]) = Sign("LBRACKET")
      /\ SymbolText(Rhs(22)[4], v[4]) = v[4]
      /\ SymbolText(Rhs(22)[5], v[5]) = Sign("RBRACKET")
  BY ONLY <1>1, WrittenAsLists, WrittenAsSigns
<1>6. SymbolText(Lhs(22), v[4]) = PremisesText(v[4])
  BY ONLY <1>1, WrittenAsParts
<1>7. Weight(Lhs(22)) = 0 /\ Valued(Lhs(22), Built(22, v))
  BY ONLY <1>1 DEF Valued, SeparatedLists, Weight
<1>8. PremisesText(v[4]) = Sign("KEYWORD_PREMISES") \o Sign("COLON") \o Sign("LBRACKET") \o v[4] \o Sign("RBRACKET")
  BY Zenon DEF PremisesText
<1> QED
  BY ONLY <1>3, <1>4, <1>5, <1>6, <1>7, <1>8, Zenon DEF Rewrites

\* a premise_defn that wraps an inference,
LEMMA InferencePremiseRead ==
  ASSUME NEW v, NEW N, Reads(25, v, N, 1)
  PROVE  Builds(25, v)
<1>1. /\ Lhs(25) = "premise_defn" /\ Len(Rhs(25)) = 1
      /\ Rhs(25)[1] = "premise_type_inference_defn"
  BY PremiseRules DEF IsRule
<1>2. HasTexts(25, v, N, 1) /\ Listed(v) /\ Len(v) = 1 /\ \A i \in 1 .. 1 : Valued(Rhs(25)[i], v[i])
  BY DEF Reads
<1>3. Built(25, v) = [kind |-> "premise", alternative |-> v[1]]
  <2>1. Built(25, v) = PremiseValue(Lhs(25), v)
    BY ONLY <1>1, NodeIsBuilt
  <2> QED
    BY ONLY <1>1, <1>2, <2>1 DEF PremiseValue
<1>4. Text(25, v) = SymbolText(Rhs(25)[1], v[1])
  BY ONLY <1>2, TextOfOne
<1>5. /\ SymbolText(Rhs(25)[1], v[1]) = <<v[1]>>
  BY ONLY <1>1, WrittenAsOne DEF Written
<1>6. SymbolText(Lhs(25), Built(25, v)) = <<Built(25, v)>>
  BY ONLY <1>1, WrittenAsOne DEF Written
<1>7. /\ Valued(Lhs(25), Built(25, v))
      /\ 1 \in 1 .. Len(Rhs(25)) /\ Weight(Rhs(25)[1]) >= 1 + Weight(Lhs(25))
  BY ONLY <1>1 DEF Valued, SeparatedLists, Weight
<1>8. Unfold([kind |-> "premise", alternative |-> v[1]]) = <<v[1]>>
  BY ONLY AlternativeTexts, Zenon
<1> QED
  BY ONLY <1>3, <1>4, <1>5, <1>6, <1>7, <1>8, Zenon DEF Builds

\* and one that wraps an equality,
LEMMA EqualityPremiseRead ==
  ASSUME NEW v, NEW N, Reads(26, v, N, 1)
  PROVE  Builds(26, v)
<1>1. /\ Lhs(26) = "premise_defn" /\ Len(Rhs(26)) = 1
      /\ Rhs(26)[1] = "premise_type_equality_defn"
  BY PremiseRules DEF IsRule
<1>2. HasTexts(26, v, N, 1) /\ Listed(v) /\ Len(v) = 1 /\ \A i \in 1 .. 1 : Valued(Rhs(26)[i], v[i])
  BY DEF Reads
<1>3. Built(26, v) = [kind |-> "premise", alternative |-> v[1]]
  <2>1. Built(26, v) = PremiseValue(Lhs(26), v)
    BY ONLY <1>1, NodeIsBuilt
  <2> QED
    BY ONLY <1>1, <1>2, <2>1 DEF PremiseValue
<1>4. Text(26, v) = SymbolText(Rhs(26)[1], v[1])
  BY ONLY <1>2, TextOfOne
<1>5. /\ SymbolText(Rhs(26)[1], v[1]) = <<v[1]>>
  BY ONLY <1>1, WrittenAsOne DEF Written
<1>6. SymbolText(Lhs(26), Built(26, v)) = <<Built(26, v)>>
  BY ONLY <1>1, WrittenAsOne DEF Written
<1>7. /\ Valued(Lhs(26), Built(26, v))
      /\ 1 \in 1 .. Len(Rhs(26)) /\ Weight(Rhs(26)[1]) >= 1 + Weight(Lhs(26))
  BY ONLY <1>1 DEF Valued, SeparatedLists, Weight
<1>8. Unfold([kind |-> "premise", alternative |-> v[1]]) = <<v[1]>>
  BY ONLY AlternativeTexts, Zenon
<1> QED
  BY ONLY <1>3, <1>4, <1>5, <1>6, <1>7, <1>8, Zenon DEF Builds

\* a premise_type_inference_defn,
LEMMA InferenceRead ==
  ASSUME NEW v, NEW N, Reads(27, v, N, 4)
  PROVE  Builds(27, v)
<1>1. /\ Lhs(27) = "premise_type_inference_defn" /\ Len(Rhs(27)) = 4
      /\ Rhs(27)[1] = "identifiable"
      /\ Rhs(27)[2] = "COLON"
      /\ Rhs(27)[3] = "deduction_target"
      /\ Rhs(27)[4] = "SEMICOLON"
  BY PremiseRules DEF IsRule
<1>2. HasTexts(27, v, N, 4) /\ Listed(v) /\ Len(v) = 4 /\ \A i \in 1 .. 4 : Valued(Rhs(27)[i], v[i])
  BY DEF Reads
<1>3. Built(27, v) = [kind |-> "inference", source |-> v[1], target |-> v[3], while |-> <<>>]
  <2>1. Built(27, v) = PremiseValue(Lhs(27), v)
    BY ONLY <1>1, NodeIsBuilt
  <2> QED
    BY ONLY <1>1, <1>2, <2>1 DEF PremiseValue
<1>4. Text(27, v) = SymbolText(Rhs(27)[1], v[1]) \o SymbolText(Rhs(27)[2], v[2]) \o SymbolText(Rhs(27)[3], v[3]) \o SymbolText(Rhs(27)[4], v[4])
  BY ONLY <1>2, TextOfFour
<1>5. /\ SymbolText(Rhs(27)[1], v[1]) = Dotted(v[1])
      /\ SymbolText(Rhs(27)[2], v[2]) = Sign("COLON")
      /\ SymbolText(Rhs(27)[3], v[3]) = <<v[3]>>
      /\ SymbolText(Rhs(27)[4], v[4]) = Sign("SEMICOLON")
  BY ONLY <1>1, WrittenAsOne, WrittenAsParts, WrittenAsSigns DEF Written
<1>6. SymbolText(Lhs(27), Built(27, v)) = <<Built(27, v)>>
  BY ONLY <1>1, WrittenAsOne DEF Written
<1>7. /\ Valued(Lhs(27), Built(27, v))
      /\ 2 \in 1 .. Len(Rhs(27)) /\ Weight(Rhs(27)[2]) >= 1 + Weight(Lhs(27))
  BY ONLY <1>1 DEF Valued, SeparatedLists, Weight
<1>8. Unfold([kind |-> "inference", source |-> v[1], target |-> v[3], while |-> <<>>]) = Dotted(v[1]) \o Sign("COLON") \o <<v[3]>> \o Sign("SEMICOLON")
  <2>1. Unfold([kind |-> "inference", source |-> v[1], target |-> v[3], while |-> <<>>]) = Dotted(v[1]) \o Sign("COLON") \o <<v[3]>>
                    \o <<>> \o Sign("SEMICOLON")
    BY InferenceText
  <2>2. Dotted(v[1]) \in Seq(N) /\ Sign("COLON") \in Seq(N) /\ <<v[3]>> \in Seq(N)
    BY <1>2, <1>5, PartsFour
  <2>3. Dotted(v[1]) \o Sign("COLON") \o <<v[3]>> \o <<>> = Dotted(v[1]) \o Sign("COLON") \o <<v[3]>>
    BY ONLY <2>2, EndThree
  <2> QED
    BY ONLY <2>1, <2>3, Zenon
<1> QED
  BY ONLY <1>3, <1>4, <1>5, <1>6, <1>7, <1>8, Zenon DEF Builds

\* and one with a while clause,
LEMMA WhileInferenceRead ==
  ASSUME NEW v, NEW N, Reads(28, v, N, 5)
  PROVE  Builds(28, v)
<1>1. /\ Lhs(28) = "premise_type_inference_defn" /\ Len(Rhs(28)) = 5
      /\ Rhs(28)[1] = "identifiable"
      /\ Rhs(28)[2] = "COLON"
      /\ Rhs(28)[3] = "deduction_target"
      /\ Rhs(28)[4] = "while_clause"
      /\ Rhs(28)[5] = "SEMICOLON"
  BY PremiseRules DEF IsRule
<1>2. HasTexts(28, v, N, 5) /\ Listed(v) /\ Len(v) = 5 /\ \A i \in 1 .. 5 : Valued(Rhs(28)[i], v[i])
  BY DEF Reads
<1>3. Built(28, v) = [kind |-> "inference", source |-> v[1], target |-> v[3], while |-> <<v[4]>>]
  <2>1. Built(28, v) = PremiseValue(Lhs(28), v)
    BY ONLY <1>1, NodeIsBuilt
  <2> QED
    BY ONLY <1>1, <1>2, <2>1 DEF PremiseValue
<1>4. Text(28, v) = SymbolText(Rhs(28)[1], v[1]) \o SymbolText(Rhs(28)[2], v[2]) \o SymbolText(Rhs(28)[3], v[3]) \o SymbolText(Rhs(28)[4], v[4]) \o SymbolText(Rhs(28)[5], v[5])
  BY ONLY <1>2, TextOfFive
<1>5. /\ SymbolText(Rhs(28)[1], v[1]) = Dotted(v[1])
      /\ SymbolText(Rhs(28)[2], v[2]) = Sign("COLON")
      /\ SymbolText(Rhs(28)[3], v[3]) = <<v[3]>>
      /\ SymbolText(Rhs(28)[4], v[4]) = WhileText(v[4])
      /\ SymbolText(Rhs(28)[5], v[5]) = Sign("SEMICOLON")
  BY ONLY <1>1, WrittenAsOne, WrittenAsParts, WrittenAsSigns DEF Written
<1>6. SymbolText(Lhs(28), Built(28, v)) = <<Built(28, v)>>
  BY ONLY <1>1, WrittenAsOne DEF Written
<1>7. /\ Valued(Lhs(28), Built(28, v))
      /\ 2 \in 1 .. Len(Rhs(28)) /\ Weight(Rhs(28)[2]) >= 1 + Weight(Lhs(28))
  BY ONLY <1>1 DEF Valued, SeparatedLists, Weight
<1>8. Unfold([kind |-> "inference", source |-> v[1], target |-> v[3], while |-> <<v[4]>>]) = Dotted(v[1]) \o Sign("COLON") \o <<v[3]>> \o WhileText(v[4]) \o Sign("SEMICOLON")
  <2>1. PICK n : n = [kind |-> "inference", source |-> v[1], target |-> v[3], while |-> <<v[4]>>]
    OBVIOUS
  <2>2. n.kind = "inference" /\ n.source = v[1] /\ n.target = v[3] /\ n.while = <<v[4]>> /\ n.while # <<>> /\ n.while[1] = v[4]
    BY <2>1
  <2>3. Unfold(n) = Dotted(n.source) \o Sign("COLON") \o <<n.target>>
          \o WhileText(n.while[1]) \o Sign("SEMICOLON")
    BY ONLY <2>2 DEF Unfold
  <2> QED
    BY ONLY <2>1, <2>2, <2>3, Zenon
<1> QED
  BY ONLY <1>3, <1>4, <1>5, <1>6, <1>7, <1>8, Zenon DEF Builds

\* a while_clause,
LEMMA WhileRead ==
  ASSUME NEW v, NEW N, Reads(29, v, N, 4)
  PROVE  Rewrites(29, v)
<1>1. /\ Lhs(29) = "while_clause" /\ Len(Rhs(29)) = 4
      /\ Rhs(29)[1] = "KEYWORD_WHILE"
      /\ Rhs(29)[2] = "LBRACE"
      /\ Rhs(29)[3] = "premise_defn_list"
      /\ Rhs(29)[4] = "RBRACE"
  BY PremiseRules DEF IsRule
<1>2. HasTexts(29, v, N, 4) /\ Listed(v) /\ Len(v) = 4 /\ \A i \in 1 .. 4 : Valued(Rhs(29)[i], v[i])
  BY DEF Reads
<1>3. Built(29, v) = v[3]
  <2>1. Built(29, v) = PremiseValue(Lhs(29), v)
    BY ONLY <1>1, NodeIsBuilt
  <2> QED
    BY ONLY <1>1, <1>2, <2>1 DEF PremiseValue
<1>4. Text(29, v) = SymbolText(Rhs(29)[1], v[1]) \o SymbolText(Rhs(29)[2], v[2]) \o SymbolText(Rhs(29)[3], v[3]) \o SymbolText(Rhs(29)[4], v[4])
  BY ONLY <1>2, TextOfFour
<1>5. /\ SymbolText(Rhs(29)[1], v[1]) = Sign("KEYWORD_WHILE")
      /\ SymbolText(Rhs(29)[2], v[2]) = Sign("LBRACE")
      /\ SymbolText(Rhs(29)[3], v[3]) = v[3]
      /\ SymbolText(Rhs(29)[4], v[4]) = Sign("RBRACE")
  BY ONLY <1>1, WrittenAsLists, WrittenAsSigns
<1>6. SymbolText(Lhs(29), v[3]) = WhileText(v[3])
  BY ONLY <1>1, WrittenAsParts
<1>7. Weight(Lhs(29)) = 0 /\ Valued(Lhs(29), Built(29, v))
  BY ONLY <1>1 DEF Valued, SeparatedLists, Weight
<1>8. WhileText(v[3]) = Sign("KEYWORD_WHILE") \o Sign("LBRACE") \o v[3] \o Sign("RBRACE")
  BY Zenon DEF WhileText
<1> QED
  BY ONLY <1>3, <1>4, <1>5, <1>6, <1>7, <1>8, Zenon DEF Rewrites

\* a premise_type_equality_defn,
LEMMA EqualityRead ==
  ASSUME NEW v, NEW N, Reads(30, v, N, 4)
  PROVE  Builds(30, v)
<1>1. /\ Lhs(30) = "premise_type_equality_defn" /\ Len(Rhs(30)) = 4
      /\ Rhs(30)[1] = "deduction_target"
      /\ Rhs(30)[2] = "equality_operator"
      /\ Rhs(30)[3] = "deduction_target"
      /\ Rhs(30)[4] = "SEMICOLON"
  BY PremiseRules DEF IsRule
<1>2. HasTexts(30, v, N, 4) /\ Listed(v) /\ Len(v) = 4 /\ \A i \in 1 .. 4 : Valued(Rhs(30)[i], v[i])
  BY DEF Reads
<1>3. Built(30, v) = [kind |-> "equality", lhs |-> v[1], op |-> v[2], rhs |-> v[3], range |-> <<>>]
  <2>1. Built(30, v) = PremiseValue(Lhs(30), v)
    BY ONLY <1>1, NodeIsBuilt
  <2> QED
    BY ONLY <1>1, <1>2, <2>1 DEF PremiseValue, Equality
<1>4. Text(30, v) = SymbolText(Rhs(30)[1], v[1]) \o SymbolText(Rhs(30)[2], v[2]) \o SymbolText(Rhs(30)[3], v[3]) \o SymbolText(Rhs(30)[4], v[4])
  BY ONLY <1>2, TextOfFour
<1>5. /\ SymbolText(Rhs(30)[1], v[1]) = <<v[1]>>
      /\ SymbolText(Rhs(30)[2], v[2]) = Sign(v[2])
      /\ SymbolText(Rhs(30)[3], v[3]) = <<v[3]>>
      /\ SymbolText(Rhs(30)[4], v[4]) = Sign("SEMICOLON")
  BY ONLY <1>1, WrittenAsOne, WrittenAsParts, WrittenAsSigns DEF Written
<1>6. SymbolText(Lhs(30), Built(30, v)) = <<Built(30, v)>>
  BY ONLY <1>1, WrittenAsOne DEF Written
<1>7. /\ Valued(Lhs(30), Built(30, v))
      /\ 4 \in 1 .. Len(Rhs(30)) /\ Weight(Rhs(30)[4]) >= 1 + Weight(Lhs(30))
  BY ONLY <1>1 DEF Valued, SeparatedLists, Weight
<1>8. Unfold([kind |-> "equality", lhs |-> v[1], op |-> v[2], rhs |-> v[3], range |-> <<>>]) = <<v[1]>> \o Sign(v[2]) \o <<v[3]>> \o Sign("SEMICOLON")
  <2>1. Unfold([kind |-> "equality", lhs |-> v[1], op |-> v[2], rhs |-> v[3], range |-> <<>>]) = <<v[1]>> \o Sign(v[2]) \o <<v[3]>> \o <<>> \o Sign("SEMICOLON")
    <3>1. PICK n : n = [kind |-> "equality", lhs |-> v[1], op |-> v[2], rhs |-> v[3], range |-> <<>>]
      OBVIOUS
    <3>2. n.kind = "equality" /\ n.lhs = v[1] /\ n.op = v[2] /\ n.rhs = v[3] /\ n.range = <<>>
      BY <3>1
    <3>3. Unfold(n) = <<n.lhs>> \o Sign(n.op) \o <<n.rhs>> \o n.range \o Sign("SEMICOLON")
      BY ONLY <3>2 DEF Unfold
    <3> QED
      BY ONLY <3>1, <3>2, <3>3, Zenon
  <2>2. <<v[1]>> \in Seq(N) /\ Sign(v[2]) \in Seq(N) /\ <<v[3]>> \in Seq(N)
    BY <1>2, <1>5, PartsFour
  <2>3. <<v[1]>> \o Sign(v[2]) \o <<v[3]>> \o <<>> = <<v[1]>> \o Sign(v[2]) \o <<v[3]>>
    BY ONLY <2>2, EndThree
  <2> QED
    BY ONLY <2>1, <2>3, Zenon
<1> QED
  BY ONLY <1>3, <1>4, <1>5, <1>6, <1>7, <1>8, Zenon DEF Builds

\* and one with a range,
LEMMA RangedEqualityRead ==
  ASSUME NEW v, NEW N, Reads(31, v, N, 5)
  PROVE  Builds(31, v)
<1>1. /\ Lhs(31) = "premise_type_equality_defn" /\ Len(Rhs(31)) = 5
      /\ Rhs(31)[1] = "deduction_target"
      /\ Rhs(31)[2] = "equality_operator"
      /\ Rhs(31)[3] = "deduction_target"
      /\ Rhs(31)[4] = "range_clause"
      /\ Rhs(31)[5] = "SEMICOLON"
  BY PremiseRules DEF IsRule
<1>2. HasTexts(31, v, N, 5) /\ Listed(v) /\ Len(v) = 5 /\ \A i \in 1 .. 5 : Valued(Rhs(31)[i], v[i])
  BY DEF Reads
<1>3. Built(31, v) = [kind |-> "equality", lhs |-> v[1], op |-> v[2], rhs |-> v[3], range |-> <<v[4]>>]
  <2>1. Built(31, v) = PremiseValue(Lhs(31), v)
    BY ONLY <1>1, NodeIsBuilt
  <2> QED
    BY ONLY <1>1, <1>2, <2>1 DEF PremiseValue, Equality
<1>4. Text(31, v) = SymbolText(Rhs(31)[1], v[1]) \o SymbolText(Rhs(31)[2], v[2]) \o SymbolText(Rhs(31)[3], v[3]) \o SymbolText(Rhs(31)[4], v[4]) \o SymbolText(Rhs(31)[5], v[5])
  BY ONLY <1>2, TextOfFive
<1>5. /\ SymbolText(Rhs(31)[1], v[1]) = <<v[1]>>
      /\ SymbolText(Rhs(31)[2], v[2]) = Sign(v[2])
      /\ SymbolText(Rhs(31)[3], v[3]) = <<v[3]>>
      /\ SymbolText(Rhs(31)[4], v[4]) = <<v[4]>>
      /\ SymbolText(Rhs(31)[5], v[5]) = Sign("SEMICOLON")
  BY ONLY <1>1, WrittenAsOne, WrittenAsParts, WrittenAsSigns DEF Written
<1>6. SymbolText(Lhs(31), Built(31, v)) = <<Built(31, v)>>
  BY ONLY <1>1, WrittenAsOne DEF Written
<1>7. /\ Valued(Lhs(31), Built(31, v))
      /\ 5 \in 1 .. Len(Rhs(31)) /\ Weight(Rhs(31)[5]) >= 1 + Weight(Lhs(31))
  BY ONLY <1>1 DEF Valued, SeparatedLists, Weight
<1>8. Unfold([kind |-> "equality", lhs |-> v[1], op |-> v[2], rhs |-> v[3], range |-> <<v[4]>>]) = <<v[1]>> \o Sign(v[2]) \o <<v[3]>> \o <<v[4]>> \o Sign("SEMICOLON")
  <2>1. PICK n : n = [kind |-> "equality", lhs |-> v[1], op |-> v[2], rhs |-> v[3], range |-> <<v[4]>>]
    OBVIOUS
  <2>2. n.kind = "equality" /\ n.lhs = v[1] /\ n.op = v[2] /\ n.rhs = v[3] /\ n.range = <<v[4]>>
    BY <2>1
  <2>3. Unfold(n) = <<n.lhs>> \o Sign(n.op) \o <<n.rhs>> \o n.range \o Sign("SEMICOLON")
    BY ONLY <2>2 DEF Unfold
  <2> QED
    BY ONLY <2>1, <2>2, <2>3, Zenon
<1> QED
  BY ONLY <1>3, <1>4, <1>5, <1>6, <1>7, <1>8, Zenon DEF Builds

\* a range_clause,
LEMMA RangeRead ==
  ASSUME NEW v, NEW N, Reads(32, v, N, 6)
  PROVE  Builds(32, v)
<1>1. /\ Lhs(32) = "range_clause" /\ Len(Rhs(32)) = 6
      /\ Rhs(32)[1] = "KEYWORD_INRANGE"
      /\ Rhs(32)[2] = "INTEGER_LITERAL"
      /\ Rhs(32)[3] = "ELLIPSIS"
      /\ Rhs(32)[4] = "INTEGER_LITERAL"
      /\ Rhs(32)[5] = "ELLIPSIS"
      /\ Rhs(32)[6] = "deduction_target"
  BY PremiseRules DEF IsRule
<1>2. HasTexts(32, v, N, 6) /\ Listed(v) /\ Len(v) = 6 /\ \A i \in 1 .. 6 : Valued(Rhs(32)[i], v[i])
  BY DEF Reads
<1>3. Built(32, v) = [kind |-> "range", from |-> v[2], to |-> v[4], target |-> v[6]]
  <2>1. Built(32, v) = PremiseValue(Lhs(32), v)
    BY ONLY <1>1, NodeIsBuilt
  <2> QED
    BY ONLY <1>1, <1>2, <2>1 DEF PremiseValue
<1>4. Text(32, v) = SymbolText(Rhs(32)[1], v[1]) \o SymbolText(Rhs(32)[2], v[2]) \o SymbolText(Rhs(32)[3], v[3]) \o SymbolText(Rhs(32)[4], v[4]) \o SymbolText(Rhs(32)[5], v[5]) \o SymbolText(Rhs(32)[6], v[6])
  BY ONLY <1>2, TextOfSix
<1>5. /\ SymbolText(Rhs(32)[1], v[1]) = Sign("KEYWORD_INRANGE")
      /\ SymbolText(Rhs(32)[2], v[2]) = Num(v[2])
      /\ SymbolText(Rhs(32)[3], v[3]) = Sign("ELLIPSIS")
      /\ SymbolText(Rhs(32)[4], v[4]) = Num(v[4])
      /\ SymbolText(Rhs(32)[5], v[5]) = Sign("ELLIPSIS")
      /\ SymbolText(Rhs(32)[6], v[6]) = <<v[6]>>
  BY ONLY <1>1, WrittenAsOne, WrittenAsSigns, WrittenAsTokens DEF Written
<1>6. SymbolText(Lhs(32), Built(32, v)) = <<Built(32, v)>>
  BY ONLY <1>1, WrittenAsOne DEF Written
<1>7. /\ Valued(Lhs(32), Built(32, v))
      /\ 3 \in 1 .. Len(Rhs(32)) /\ Weight(Rhs(32)[3]) >= 1 + Weight(Lhs(32))
  BY ONLY <1>1 DEF Valued, SeparatedLists, Weight
<1>8. Unfold([kind |-> "range", from |-> v[2], to |-> v[4], target |-> v[6]]) = Sign("KEYWORD_INRANGE") \o Num(v[2]) \o Sign("ELLIPSIS") \o Num(v[4]) \o Sign("ELLIPSIS") \o <<v[6]>>
  BY ONLY RangeText, Zenon
<1> QED
  BY ONLY <1>3, <1>4, <1>5, <1>6, <1>7, <1>8, Zenon DEF Builds

\* a proposition_defn,
LEMMA PropositionRead ==
  ASSUME NEW v, NEW N, Reads(33, v, N, 4)
  PROVE  Builds(33, v)
<1>1. /\ Lhs(33) = "proposition_defn" /\ Len(Rhs(33)) = 4
      /\ Rhs(33)[1] = "KEYWORD_PROPOSITION"
      /\ Rhs(33)[2] = "COLON"
      /\ Rhs(33)[3] = "deduction_target"
      /\ Rhs(33)[4] = "SEMICOLON"
  BY PremiseRules DEF IsRule
<1>2. HasTexts(33, v, N, 4) /\ Listed(v) /\ Len(v) = 4 /\ \A i \in 1 .. 4 : Valued(Rhs(33)[i], v[i])
  BY DEF Reads
<1>3. Built(33, v) = [kind |-> "proposition", target |-> v[3]]
  <2>1. Built(33, v) = PremiseValue(Lhs(33), v)
    BY ONLY <1>1, NodeIsBuilt
  <2> QED
    BY ONLY <1>1, <1>2, <2>1 DEF PremiseValue
<1>4. Text(33, v) = SymbolText(Rhs(33)[1], v[1]) \o SymbolText(Rhs(33)[2], v[2]) \o SymbolText(Rhs(33)[3], v[3]) \o SymbolText(Rhs(33)[4], v[4])
  BY ONLY <1>2, TextOfFour
<1>5. /\ SymbolText(Rhs(33)[1], v[1]) = Sign("KEYWORD_PROPOSITION")
      /\ SymbolText(Rhs(33)[2], v[2]) = Sign("COLON")
      /\ SymbolText(Rhs(33)[3], v[3]) = <<v[3]>>
      /\ SymbolText(Rhs(33)[4], v[4]) = Sign("SEMICOLON")
  BY ONLY <1>1, WrittenAsOne, WrittenAsSigns DEF Written
<1>6. SymbolText(Lhs(33), Built(33, v)) = <<Built(33, v)>>
  BY ONLY <1>1, WrittenAsOne DEF Written
<1>7. /\ Valued(Lhs(33), Built(33, v))
      /\ 2 \in 1 .. Len(Rhs(33)) /\ Weight(Rhs(33)[2]) >= 1 + Weight(Lhs(33))
  BY ONLY <1>1 DEF Valued, SeparatedLists, Weight
<1>8. Unfold([kind |-> "proposition", target |-> v[3]]) = Sign("KEYWORD_PROPOSITION") \o Sign("COLON") \o <<v[3]>> \o Sign("SEMICOLON")
  BY ONLY PropositionText, Zenon
<1> QED
  BY ONLY <1>3, <1>4, <1>5, <1>6, <1>7, <1>8, Zenon DEF Builds

\* an identifier,
LEMMA NameRead ==
  ASSUME NEW v, NEW N, Reads(36, v, N, 1)
  PROVE  Rewrites(36, v)
<1>1. /\ Lhs(36) = "identifier" /\ Len(Rhs(36)) = 1
      /\ Rhs(36)[1] = "IDENTIFIER"
  BY TargetRules DEF IsRule
<1>2. HasTexts(36, v, N, 1) /\ Listed(v) /\ Len(v) = 1 /\ \A i \in 1 .. 1 : Valued(Rhs(36)[i], v[i])
  BY DEF Reads
<1>3. Built(36, v) = v[1]
  <2>1. Built(36, v) = TargetValue(Lhs(36), Rhs(36), v)
    BY ONLY <1>1, NodeIsBuilt
  <2> QED
    BY ONLY <1>1, <1>2, <2>1 DEF TargetValue
<1>4. Text(36, v) = SymbolText(Rhs(36)[1], v[1])
  BY ONLY <1>2, TextOfOne
<1>5. /\ SymbolText(Rhs(36)[1], v[1]) = Id(v[1])
  BY ONLY <1>1, WrittenAsTokens
<1>6. SymbolText(Lhs(36), v[1]) = Id(v[1])
  BY ONLY <1>1, WrittenAsParts
<1>7. Weight(Lhs(36)) = 0 /\ Valued(Lhs(36), Built(36, v))
  BY ONLY <1>1 DEF Valued, SeparatedLists, Weight
<1>8. Id(v[1]) = Id(v[1])
  OBVIOUS
<1> QED
  BY ONLY <1>3, <1>4, <1>5, <1>6, <1>7, <1>8, Zenon DEF Rewrites

\* a deduction_target that wraps a singular one,
LEMMA SingularTargetRead ==
  ASSUME NEW v, NEW N, Reads(39, v, N, 1)
  PROVE  Builds(39, v)
<1>1. /\ Lhs(39) = "deduction_target" /\ Len(Rhs(39)) = 1
      /\ Rhs(39)[1] = "deduction_target_singular"
  BY TargetRules DEF IsRule
<1>2. HasTexts(39, v, N, 1) /\ Listed(v) /\ Len(v) = 1 /\ \A i \in 1 .. 1 : Valued(Rhs(39)[i], v[i])
  BY DEF Reads
<1>3. Built(39, v) = [kind |-> "target", alternative |-> v[1]]
  <2>1. Built(39, v) = TargetValue(Lhs(39), Rhs(39), v)
    BY ONLY <1>1, NodeIsBuilt
  <2> QED
    BY ONLY <1>1, <1>2, <2>1 DEF TargetValue
<1>4. Text(39, v) = SymbolText(Rhs(39)[1], v[1])
  BY ONLY <1>2, TextOfOne
<1>5. /\ SymbolText(Rhs(39)[1], v[1]) = <<v[1]>>
  BY ONLY <1>1, WrittenAsOne DEF Written
<1>6. SymbolText(Lhs(39), Built(39, v)) = <<Built(39, v)>>
  BY ONLY <1>1, WrittenAsOne DEF Written
<1>7. /\ Valued(Lhs(39), Built(39, v))
      /\ 1 \in 1 .. Len(Rhs(39)) /\ Weight(Rhs(39)[1]) >= 1 + Weight(Lhs(39))
  BY ONLY <1>1 DEF Valued, SeparatedLists, Weight
<1>8. Unfold([kind |-> "target", alternative |-> v[1]]) = <<v[1]>>
  BY ONLY AlternativeTexts, Zenon
<1> QED
  BY ONLY <1>3, <1>4, <1>5, <1>6, <1>7, <1>8, Zenon DEF Builds

\* one that wraps an array,
LEMMA ArrayTargetRead ==
  ASSUME NEW v, NEW N, Reads(40, v, N, 1)
  PROVE  Builds(40, v)
<1>1. /\ Lhs(40) = "deduction_target" /\ Len(Rhs(40)) = 1
      /\ Rhs(40)[1] = "deduction_target_array"
  BY TargetRules DEF IsRule
<1>2. HasTexts(40, v, N, 1) /\ Listed(v) /\ Len(v) = 1 /\ \A i \in 1 .. 1 : Valued(Rhs(40)[i], v[i])
  BY DEF Reads
<1>3. Built(40, v) = [kind |-> "target", alternative |-> v[1]]
  <2>1. Built(40, v) = TargetValue(Lhs(40), Rhs(40), v)
    BY ONLY <1>1, NodeIsBuilt
  <2> QED
    BY ONLY <1>1, <1>2, <2>1 DEF TargetValue
<1>4. Text(40, v) = SymbolText(Rhs(40)[1], v[1])
  BY ONLY <1>2, TextOfOne
<1>5. /\ SymbolText(Rhs(40)[1], v[1]) = <<v[1]>>
  BY ONLY <1>1, WrittenAsOne DEF Written
<1>6. SymbolText(Lhs(40), Built(40, v)) = <<Built(40, v)>>
  BY ONLY <1>1, WrittenAsOne DEF Written
<1>7. /\ Valued(Lhs(40), Built(40, v))
      /\ 1 \in 1 .. Len(Rhs(40)) /\ Weight(Rhs(40)[1]) >= 1 + Weight(Lhs(40))
  BY ONLY <1>1 DEF Valued, SeparatedLists, Weight
<1>8. Unfold([kind |-> "target", alternative |-> v[1]]) = <<v[1]>>
  BY ONLY AlternativeTexts, Zenon
<1> QED
  BY ONLY <1>3, <1>4, <1>5, <1>6, <1>7, <1>8, Zenon DEF Builds

\* and one that wraps a computed one,
LEMMA ComputedTargetRead ==
  ASSUME NEW v, NEW N, Reads(41, v, N, 1)
  PROVE  Builds(41, v)
<1>1. /\ Lhs(41) = "deduction_target" /\ Len(Rhs(41)) = 1
      /\ Rhs(41)[1] = "deduction_target_computed"
  BY TargetRules DEF IsRule
<1>2. HasTexts(41, v, N, 1) /\ Listed(v) /\ Len(v) = 1 /\ \A i \in 1 .. 1 : Valued(Rhs(41)[i], v[i])
  BY DEF Reads
<1>3. Built(41, v) = [kind |-> "target", alternative |-> v[1]]
  <2>1. Built(41, v) = TargetValue(Lhs(41), Rhs(41), v)
    BY ONLY <1>1, NodeIsBuilt
  <2> QED
    BY ONLY <1>1, <1>2, <2>1 DEF TargetValue
<1>4. Text(41, v) = SymbolText(Rhs(41)[1], v[1])
  BY ONLY <1>2, TextOfOne
<1>5. /\ SymbolText(Rhs(41)[1], v[1]) = <<v[1]>>
  BY ONLY <1>1, WrittenAsOne DEF Written
<1>6. SymbolText(Lhs(41), Built(41, v)) = <<Built(41, v)>>
  BY ONLY <1>1, WrittenAsOne DEF Written
<1>7. /\ Valued(Lhs(41), Built(41, v))
      /\ 1 \in 1 .. Len(Rhs(41)) /\ Weight(Rhs(41)[1]) >= 1 + Weight(Lhs(41))
  BY ONLY <1>1 DEF Valued, SeparatedLists, Weight
<1>8. Unfold([kind |-> "target", alternative |-> v[1]]) = <<v[1]>>
  BY ONLY AlternativeTexts, Zenon
<1> QED
  BY ONLY <1>3, <1>4, <1>5, <1>6, <1>7, <1>8, Zenon DEF Builds

\* a deduction_target_singular,
LEMMA SingularRead ==
  ASSUME NEW v, NEW N, Reads(42, v, N, 1)
  PROVE  Builds(42, v)
<1>1. /\ Lhs(42) = "deduction_target_singular" /\ Len(Rhs(42)) = 1
      /\ Rhs(42)[1] = "IDENTIFIER"
  BY TargetRules DEF IsRule
<1>2. HasTexts(42, v, N, 1) /\ Listed(v) /\ Len(v) = 1 /\ \A i \in 1 .. 1 : Valued(Rhs(42)[i], v[i])
  BY DEF Reads
<1>3. Built(42, v) = [kind |-> "singular", name |-> v[1]]
  <2>1. Built(42, v) = TargetValue(Lhs(42), Rhs(42), v)
    BY ONLY <1>1, NodeIsBuilt
  <2> QED
    BY ONLY <1>1, <1>2, <2>1 DEF TargetValue
<1>4. Text(42, v) = SymbolText(Rhs(42)[1], v[1])
  BY ONLY <1>2, TextOfOne
<1>5. /\ SymbolText(Rhs(42)[1], v[1]) = Id(v[1])
  BY ONLY <1>1, WrittenAsTokens
<1>6. SymbolText(Lhs(42), Built(42, v)) = <<Built(42, v)>>
  BY ONLY <1>1, WrittenAsOne DEF Written
<1>7. /\ Valued(Lhs(42), Built(42, v))
      /\ 1 \in 1 .. Len(Rhs(42)) /\ Weight(Rhs(42)[1]) >= 1 + Weight(Lhs(42))
  BY ONLY <1>1 DEF Valued, SeparatedLists, Weight
<1>8. Unfold([kind |-> "singular", name |-> v[1]]) = Id(v[1])
  BY ONLY TargetTexts, Zenon
<1> QED
  BY ONLY <1>3, <1>4, <1>5, <1>6, <1>7, <1>8, Zenon DEF Builds

\* a deduction_target_array without a size,
LEMMA ArrayRead ==
  ASSUME NEW v, NEW N, Reads(43, v, N, 3)
  PROVE  Builds(43, v)
<1>1. /\ Lhs(43) = "deduction_target_array" /\ Len(Rhs(43)) = 3
      /\ Rhs(43)[1] = "IDENTIFIER"
      /\ Rhs(43)[2] = "LBRACKET"
      /\ Rhs(43)[3] = "RBRACKET"
  BY TargetRules DEF IsRule
<1>2. HasTexts(43, v, N, 3) /\ Listed(v) /\ Len(v) = 3 /\ \A i \in 1 .. 3 : Valued(Rhs(43)[i], v[i])
  BY DEF Reads
<1>3. Built(43, v) = [kind |-> "array", name |-> v[1], size |-> <<>>]
  <2>1. Built(43, v) = TargetValue(Lhs(43), Rhs(43), v)
    BY ONLY <1>1, NodeIsBuilt
  <2> QED
    BY ONLY <1>1, <1>2, <2>1 DEF TargetValue
<1>4. Text(43, v) = SymbolText(Rhs(43)[1], v[1]) \o SymbolText(Rhs(43)[2], v[2]) \o SymbolText(Rhs(43)[3], v[3])
  BY ONLY <1>2, TextOfThree
<1>5. /\ SymbolText(Rhs(43)[1], v[1]) = Id(v[1])
      /\ SymbolText(Rhs(43)[2], v[2]) = Sign("LBRACKET")
      /\ SymbolText(Rhs(43)[3], v[3]) = Sign("RBRACKET")
  BY ONLY <1>1, WrittenAsSigns, WrittenAsTokens
<1>6. SymbolText(Lhs(43), Built(43, v)) = <<Built(43, v)>>
  BY ONLY <1>1, WrittenAsOne DEF Written
<1>7. /\ Valued(Lhs(43), Built(43, v))
      /\ 1 \in 1 .. Len(Rhs(43)) /\ Weight(Rhs(43)[1]) >= 1 + Weight(Lhs(43))
  BY ONLY <1>1 DEF Valued, SeparatedLists, Weight
<1>8. Unfold([kind |-> "array", name |-> v[1], size |-> <<>>]) = Id(v[1]) \o Sign("LBRACKET") \o Sign("RBRACKET")
  <2>1. Unfold([kind |-> "array", name |-> v[1], size |-> <<>>]) = Id(v[1]) \o Sign("LBRACKET") \o <<>> \o Sign("RBRACKET")
    BY TargetTexts
  <2>2. Id(v[1]) \in Seq(N) /\ Sign("LBRACKET") \in Seq(N)
    BY <1>2, <1>5, PartsThree
  <2>3. Id(v[1]) \o Sign("LBRACKET") \o <<>> = Id(v[1]) \o Sign("LBRACKET")
    BY ONLY <2>2, EndTwo
  <2> QED
    BY ONLY <2>1, <2>3, Zenon
<1> QED
  BY ONLY <1>3, <1>4, <1>5, <1>6, <1>7, <1>8, Zenon DEF Builds

\* and one with a size,
LEMMA SizedArrayRead ==
  ASSUME NEW v, NEW N, Reads(44, v, N, 4)
  PROVE  Builds(44, v)
<1>1. /\ Lhs(44) = "deduction_target_array" /\ Len(Rhs(44)) = 4
      /\ Rhs(44)[1] = "IDENTIFIER"
      /\ Rhs(44)[2] = "LBRACKET"
      /\ Rhs(44)[3] = "INTEGER_LITERAL"
      /\ Rhs(44)[4] = "RBRACKET"
  BY TargetRules DEF IsRule
<1>2. HasTexts(44, v, N, 4) /\ Listed(v) /\ Len(v) = 4 /\ \A i \in 1 .. 4 : Valued(Rhs(44)[i], v[i])
  BY DEF Reads
<1>3. Built(44, v) = [kind |-> "array", name |-> v[1], size |-> <<v[3]>>]
  <2>1. Built(44, v) = TargetValue(Lhs(44), Rhs(44), v)
    BY ONLY <1>1, NodeIsBuilt
  <2> QED
    BY ONLY <1>1, <1>2, <2>1 DEF TargetValue
<1>4. Text(44, v) = SymbolText(Rhs(44)[1], v[1]) \o SymbolText(Rhs(44)[2], v[2]) \o SymbolText(Rhs(44)[3], v[3]) \o SymbolText(Rhs(44)[4], v[4])
  BY ONLY <1>2, TextOfFour
<1>5. /\ SymbolText(Rhs(44)[1], v[1]) = Id(v[1])
      /\ SymbolText(Rhs(44)[2], v[2]) = Sign("LBRACKET")
      /\ SymbolText(Rhs(44)[3], v[3]) = Num(v[3])
      /\ SymbolText(Rhs(44)[4], v[4]) = Sign("RBRACKET")
  BY ONLY <1>1, WrittenAsSigns, WrittenAsTokens
<1>6. SymbolText(Lhs(44), Built(44, v)) = <<Built(44, v)>>
  BY ONLY <1>1, WrittenAsOne DEF Written
<1>7. /\ Valued(Lhs(44), Built(44, v))
      /\ 1 \in 1 .. Len(Rhs(44)) /\ Weight(Rhs(44)[1]) >= 1 + Weight(Lhs(44))
  BY ONLY <1>1 DEF Valued, SeparatedLists, Weight
<1>8. Unfold([kind |-> "array", name |-> v[1], size |-> <<v[3]>>]) = Id(v[1]) \o Sign("LBRACKET") \o Num(v[3]) \o Sign("RBRACKET")
  <2>1. <<v[3]>> # <<>> /\ (<<v[3]>>)[1] = v[3]
    OBVIOUS
  <2>2. PICK w : w = <<v[3]>> /\ w # <<>> /\ w[1] = v[3]
    BY ONLY <2>1
  <2>3. Unfold([kind |-> "array", name |-> v[1], size |-> w])
          = Id(v[1]) \o Sign("LBRACKET") \o Num(w[1]) \o Sign("RBRACKET")
    BY ONLY <2>2, TargetTexts, Zenon
  <2> QED
    BY ONLY <2>2, <2>3, Zenon
<1> QED
  BY ONLY <1>3, <1>4, <1>5, <1>6, <1>7, <1>8, Zenon DEF Builds

\* a deduction_target_computed without arguments,
LEMMA CallRead ==
  ASSUME NEW v, NEW N, Reads(45, v, N, 3)
  PROVE  Builds(45, v)
<1>1. /\ Lhs(45) = "deduction_target_computed" /\ Len(Rhs(45)) = 3
      /\ Rhs(45)[1] = "IDENTIFIER"
      /\ Rhs(45)[2] = "LPAREN"
      /\ Rhs(45)[3] = "RPAREN"
  BY TargetRules DEF IsRule
<1>2. HasTexts(45, v, N, 3) /\ Listed(v) /\ Len(v) = 3 /\ \A i \in 1 .. 3 : Valued(Rhs(45)[i], v[i])
  BY DEF Reads
<1>3. Built(45, v) = [kind |-> "computed", name |-> v[1], arguments |-> <<>>]
  <2>1. Built(45, v) = TargetValue(Lhs(45), Rhs(45), v)
    BY ONLY <1>1, NodeIsBuilt
  <2> QED
    BY ONLY <1>1, <1>2, <2>1 DEF TargetValue
<1>4. Text(45, v) = SymbolText(Rhs(45)[1], v[1]) \o SymbolText(Rhs(45)[2], v[2]) \o SymbolText(Rhs(45)[3], v[3])
  BY ONLY <1>2, TextOfThree
<1>5. /\ SymbolText(Rhs(45)[1], v[1]) = Id(v[1])
      /\ SymbolText(Rhs(45)[2], v[2]) = Sign("LPAREN")
      /\ SymbolText(Rhs(45)[3], v[3]) = Sign("RPAREN")
  BY ONLY <1>1, WrittenAsSigns, WrittenAsTokens
<1>6. SymbolText(Lhs(45), Built(45, v)) = <<Built(45, v)>>
  BY ONLY <1>1, WrittenAsOne DEF Written
<1>7. /\ Valued(Lhs(45), Built(45, v))
      /\ 1 \in 1 .. Len(Rhs(45)) /\ Weight(Rhs(45)[1]) >= 1 + Weight(Lhs(45))
  BY ONLY <1>1 DEF Valued, SeparatedLists, Weight
<1>8. Unfold([kind |-> "computed", name |-> v[1], arguments |-> <<>>]) = Id(v[1]) \o Sign("LPAREN") \o Sign("RPAREN")
  <2>1. Unfold([kind |-> "computed", name |-> v[1], arguments |-> <<>>]) = Id(v[1]) \o Sign("LPAREN") \o <<>> \o Sign("RPAREN")
    BY ONLY TargetTexts, SeparatedOnes, Zenon
  <2>2. Id(v[1]) \in Seq(N) /\ Sign("LPAREN") \in Seq(N)
    BY <1>2, <1>5, PartsThree
  <2>3. Id(v[1]) \o Sign("LPAREN") \o <<>> = Id(v[1]) \o Sign("LPAREN")
    BY ONLY <2>2, EndTwo
  <2> QED
    BY ONLY <2>1, <2>3, Zenon
<1> QED
  BY ONLY <1>3, <1>4, <1>5, <1>6, <1>7, <1>8, Zenon DEF Builds

\* and one with some,
LEMMA ArgumentsCallRead ==
  ASSUME NEW v, NEW N, Reads(46, v, N, 4)
  PROVE  Builds(46, v)
<1>1. /\ Lhs(46) = "deduction_target_computed" /\ Len(Rhs(46)) = 4
      /\ Rhs(46)[1] = "IDENTIFIER"
      /\ Rhs(46)[2] = "LPAREN"
      /\ Rhs(46)[3] = "deduction_target_list"
      /\ Rhs(46)[4] = "RPAREN"
  BY TargetRules DEF IsRule
<1>2. HasTexts(46, v, N, 4) /\ Listed(v) /\ Len(v) = 4 /\ \A i \in 1 .. 4 : Valued(Rhs(46)[i], v[i])
  BY DEF Reads
<1>3. Built(46, v) = [kind |-> "computed", name |-> v[1], arguments |-> v[3]]
  <2>1. Built(46, v) = TargetValue(Lhs(46), Rhs(46), v)
    BY ONLY <1>1, NodeIsBuilt
  <2> QED
    BY ONLY <1>1, <1>2, <2>1 DEF TargetValue
<1>4. Text(46, v) = SymbolText(Rhs(46)[1], v[1]) \o SymbolText(Rhs(46)[2], v[2]) \o SymbolText(Rhs(46)[3], v[3]) \o SymbolText(Rhs(46)[4], v[4])
  BY ONLY <1>2, TextOfFour
<1>5. /\ SymbolText(Rhs(46)[1], v[1]) = Id(v[1])
      /\ SymbolText(Rhs(46)[2], v[2]) = Sign("LPAREN")
      /\ SymbolText(Rhs(46)[3], v[3]) = Commas(v[3])
      /\ SymbolText(Rhs(46)[4], v[4]) = Sign("RPAREN")
  BY ONLY <1>1, WrittenAsLists, WrittenAsSigns, WrittenAsTokens
<1>6. SymbolText(Lhs(46), Built(46, v)) = <<Built(46, v)>>
  BY ONLY <1>1, WrittenAsOne DEF Written
<1>7. /\ Valued(Lhs(46), Built(46, v))
      /\ 1 \in 1 .. Len(Rhs(46)) /\ Weight(Rhs(46)[1]) >= 1 + Weight(Lhs(46))
  BY ONLY <1>1 DEF Valued, SeparatedLists, Weight
<1>8. Unfold([kind |-> "computed", name |-> v[1], arguments |-> v[3]]) = Id(v[1]) \o Sign("LPAREN") \o Commas(v[3]) \o Sign("RPAREN")
  BY ONLY TargetTexts, Zenon
<1> QED
  BY ONLY <1>3, <1>4, <1>5, <1>6, <1>7, <1>8, Zenon DEF Builds

\* a global_decl_set that is left out,
LEMMA NoGlobalsRead ==
  ASSUME NEW v, NEW N, Reads(12, v, N, 0)
  PROVE  Rewrites(12, v)
<1>1. Lhs(12) = "global_decl_set"
  BY RuleRules DEF IsRule
<1>2. v = <<>>
  BY DEF Reads, Listed
<1>3. Built(12, v) = <<>>
  <2>1. Built(12, v) = RuleValue(Lhs(12), v)
    BY ONLY <1>1, NodeIsBuilt
  <2> QED
    BY ONLY <1>1, <1>2, <2>1 DEF RuleValue
<1>4. Text(12, v) = <<>>
  BY TextOfNone DEF Reads
<1>5. SymbolText(Lhs(12), <<>>) = <<>>
  BY <1>1, WrittenAsParts DEF GlobalsText
<1>6. Weight(Lhs(12)) = 0 /\ Valued(Lhs(12), Built(12, v))
  BY ONLY <1>1 DEF Valued, SeparatedLists, Weight
<1> QED
  BY ONLY <1>3, <1>4, <1>5, <1>6, Zenon DEF Rewrites

\* and an equality_operator.
LEMMA OperatorRead ==
  ASSUME NEW p \in 47 .. 50, NEW v, NEW N, Reads(p, v, N, 1)
  PROVE  Rewrites(p, v)
<1>1. /\ Lhs(p) = "equality_operator"
      /\ Rhs(p)[1] \in {"OPERATOR_EQ", "OPERATOR_NEQ", "OPERATOR_LT", "OPERATOR_LTE"}
  BY TargetRules DEF IsRule
<1>2. Built(p, v) = Rhs(p)[1]
  <2>1. Built(p, v) = TargetValue(Lhs(p), Rhs(p), v)
    BY ONLY <1>1, NodeIsBuilt
  <2> QED
    BY ONLY <1>1, <2>1 DEF TargetValue
<1>3. Text(p, v) = SymbolText(Rhs(p)[1], v[1])
  BY TextOfOne DEF Reads
<1>4. SymbolText(Rhs(p)[1], v[1]) = Sign(Rhs(p)[1])
  BY <1>1, WrittenAsSigns
<1>5. SymbolText(Lhs(p), Rhs(p)[1]) = Sign(Rhs(p)[1])
  BY <1>1, WrittenAsParts
<1>6. Weight(Lhs(p)) = 0 /\ Valued(Lhs(p), Built(p, v))
  BY ONLY <1>1 DEF Valued, SeparatedLists, Weight
<1> QED
  BY ONLY <1>2, <1>3, <1>4, <1>5, <1>6, Zenon DEF Rewrites

\* The input is a module with the text of its groups.
LEMMA InputRead ==
  ASSUME NEW v, NEW N, HasTexts(2, v, N, 1)
  PROVE  Text(2, v) = v[1] /\ Unfold(ModuleOf(v[1])) = Text(2, v) /\ Len(Rhs(2)) = 1
<1>1. Rhs(2)[1] = "inference_group_list" /\ Len(Rhs(2)) = 1
  BY GroupRules DEF IsRule
<1>2. Text(2, v) = SymbolText(Rhs(2)[1], v[1])
  BY TextOfOne
<1>3. SymbolText(Rhs(2)[1], v[1]) = v[1]
  BY <1>1, WrittenAsLists
<1> QED
  BY ONLY <1>1, <1>2, <1>3, ModuleIsGroups, Zenon

\* Every semantic action but that of the input keeps the text of the values it
\* reads, in a list with the same text or in a node that has it.
LEMMA ProductionIsRead ==
  ASSUME NEW p \in DOMAIN Productions, p # 1, p # 2, NEW v, NEW N,
         Reads(p, v, N, Len(Rhs(p)))
  PROVE  Rewrites(p, v) \/ Builds(p, v)
<1>1. p \in 3 .. 50
  BY ProductionsList
<1>2. CASE p \in {3, 6, 9, 23}
  <2>1. Len(Rhs(p)) = 0
    BY <1>2, InnerGroup, InnerPremise DEF Inner
  <2> QED
    BY <1>2, <2>1, EmptyLists
<1>3. CASE p \in {4, 7, 10, 24}
  <2>1. Len(Rhs(p)) = 2
    BY <1>3, InnerGroup, InnerPremise DEF Inner
  <2> QED
    BY <1>3, <2>1, LongerLists
<1>4. CASE p \in {14, 19, 34, 37}
  <2>1. Len(Rhs(p)) = 1
    BY <1>4, InnerRule, InnerTarget DEF Inner
  <2> QED
    BY <1>4, <2>1, SeparatedFirst
<1>5. CASE p \in {15, 20, 35, 38}
  <2>1. Len(Rhs(p)) = 3
    BY <1>5, InnerRule, InnerTarget DEF Inner
  <2> QED
    BY <1>5, <2>1, SeparatedNext
<1>6. CASE p \in 47 .. 50
  <2>1. Len(Rhs(p)) = 1
    BY <1>6, InnerTarget DEF Inner
  <2> QED
    BY <1>6, <2>1, OperatorRead
<1>7. CASE p = 12
  <2>1. Len(Rhs(12)) = 0
    BY InnerRule DEF Inner
  <2> QED
    BY <1>7, <2>1, NoGlobalsRead
<1>8. CASE p \in {5, 8}
  <2>1. CASE p = 5
    <3>1. Len(Rhs(5)) = 6
      BY InnerGroup DEF Inner
    <3> QED
      BY <2>1, <3>1, GroupRead
  <2>2. CASE p = 8
    <3>1. Len(Rhs(8)) = 4
      BY InnerGroup DEF Inner
    <3> QED
      BY <2>2, <3>1, FieldRead
  <2> QED
    BY <1>8, <2>1, <2>2
<1>9. CASE p \in {11, 13, 16, 17, 18, 21}
  <2>1. CASE p = 11
    <3>1. Len(Rhs(11)) = 8
      BY InnerRule DEF Inner
    <3> QED
      BY <2>1, <3>1, RuleRead
  <2>2. CASE p = 13
    <3>1. Len(Rhs(13)) = 5
      BY InnerRule DEF Inner
    <3> QED
      BY <2>2, <3>1, GlobalsRead
  <2>3. CASE p = 16
    <3>1. Len(Rhs(16)) = 1
      BY InnerRule DEF Inner
    <3> QED
      BY <2>3, <3>1, GlobalRead
  <2>4. CASE p = 17
    <3>1. Len(Rhs(17)) = 4
      BY InnerRule DEF Inner
    <3> QED
      BY <2>4, <3>1, NoArgumentsRead
  <2>5. CASE p = 18
    <3>1. Len(Rhs(18)) = 5
      BY InnerRule DEF Inner
    <3> QED
      BY <2>5, <3>1, ArgumentsRead
  <2>6. CASE p = 21
    <3>1. Len(Rhs(21)) = 3
      BY InnerRule DEF Inner
    <3> QED
      BY <2>6, <3>1, ArgumentRead
  <2> QED
    BY <1>9, <2>1, <2>2, <2>3, <2>4, <2>5, <2>6
<1>10. CASE p \in {22, 25, 26, 27, 28, 29, 30, 31, 32, 33}
  <2>1. CASE p = 22
    <3>1. Len(Rhs(22)) = 5
      BY InnerPremise DEF Inner
    <3> QED
      BY <2>1, <3>1, PremisesRead
  <2>2. CASE p = 25
    <3>1. Len(Rhs(25)) = 1
      BY InnerPremise DEF Inner
    <3> QED
      BY <2>2, <3>1, InferencePremiseRead
  <2>3. CASE p = 26
    <3>1. Len(Rhs(26)) = 1
      BY InnerPremise DEF Inner
    <3> QED
      BY <2>3, <3>1, EqualityPremiseRead
  <2>4. CASE p = 27
    <3>1. Len(Rhs(27)) = 4
      BY InnerPremise DEF Inner
    <3> QED
      BY <2>4, <3>1, InferenceRead
  <2>5. CASE p = 28
    <3>1. Len(Rhs(28)) = 5
      BY InnerPremise DEF Inner
    <3> QED
      BY <2>5, <3>1, WhileInferenceRead
  <2>6. CASE p = 29
    <3>1. Len(Rhs(29)) = 4
      BY InnerPremise DEF Inner
    <3> QED
      BY <2>6, <3>1, WhileRead
  <2>7. CASE p = 30
    <3>1. Len(Rhs(30)) = 4
      BY InnerPremise DEF Inner
    <3> QED
      BY <2>7, <3>1, EqualityRead
  <2>8. CASE p = 31
    <3>1. Len(Rhs(31)) = 5
      BY InnerPremise DEF Inner
    <3> QED
      BY <2>8, <3>1, RangedEqualityRead
  <2>9. CASE p = 32
    <3>1. Len(Rhs(32)) = 6
      BY InnerPremise DEF Inner
    <3> QED
      BY <2>9, <3>1, RangeRead
  <2>10. CASE p = 33
    <3>1. Len(Rhs(33)) = 4
      BY InnerPremise DEF Inner
    <3> QED
      BY <2>10, <3>1, PropositionRead
  <2> QED
    BY <1>10, <2>1, <2>2, <2>3, <2>4, <2>5, <2>6, <2>7, <2>8, <2>9, <2>10
<1>11. CASE p \in {36, 39, 40, 41, 42, 43, 44, 45, 46}
  <2>1. CASE p = 36
    <3>1. Len(Rhs(36)) = 1
      BY InnerTarget DEF Inner
    <3> QED
      BY <2>1, <3>1, NameRead
  <2>2. CASE p = 39
    <3>1. Len(Rhs(39)) = 1
      BY InnerTarget DEF Inner
    <3> QED
      BY <2>2, <3>1, SingularTargetRead
  <2>3. CASE p = 40
    <3>1. Len(Rhs(40)) = 1
      BY InnerTarget DEF Inner
    <3> QED
      BY <2>3, <3>1, ArrayTargetRead
  <2>4. CASE p = 41
    <3>1. Len(Rhs(41)) = 1
      BY InnerTarget DEF Inner
    <3> QED
      BY <2>4, <3>1, ComputedTargetRead
  <2>5. CASE p = 42
    <3>1. Len(Rhs(42)) = 1
      BY InnerTarget DEF Inner
    <3> QED
      BY <2>5, <3>1, SingularRead
  <2>6. CASE p = 43
    <3>1. Len(Rhs(43)) = 3
      BY InnerTarget DEF Inner
    <3> QED
      BY <2>6, <3>1, ArrayRead
  <2>7. CASE p = 44
    <3>1. Len(Rhs(44)) = 4
      BY InnerTarget DEF Inner
    <3> QED
      BY <2>7, <3>1, SizedArrayRead
  <2>8. CASE p = 45
    <3>1. Len(Rhs(45)) = 3
      BY InnerTarget DEF Inner
    <3> QED
      BY <2>8, <3>1, CallRead
  <2>9. CASE p = 46
    <3>1. Len(Rhs(46)) = 4
      BY InnerTarget DEF Inner
    <3> QED
      BY <2>9, <3>1, ArgumentsCallRead
  <2> QED
    BY <1>11, <2>1, <2>2, <2>3, <2>4, <2>5, <2>6, <2>7, <2>8, <2>9
<1> QED
  BY ONLY <1>1, <1>2, <1>3, <1>4, <1>5, <1>6, <1>7, <1>8, <1>9, <1>10, <1>11

-----------------------------------------------------------------------------
(* The texts on the stack.                                                 *)

\* T[m + i] is T[m] followed by the first i of the texts t.
Following(N, T, t, m, n) ==
  /\ m \in Nat /\ n \in Nat /\ T[m] \in Seq(N)
  /\ \A i \in 1 .. n : t[i] \in Seq(N) /\ T[m + i] = T[(m + i) - 1] \o t[i]

\* Texts that are put behind a text one by one are put behind it together.
LEMMA TextsFollow ==
  ASSUME NEW N, NEW T, NEW t, NEW m, NEW n, Following(N, T, t, m, n)
  PROVE  T[m + n] = T[m] \o FirstTexts(t, n)
<1> /\ m \in Nat /\ n \in Nat /\ T[m] \in Seq(N)
    /\ \A i \in 1 .. n : t[i] \in Seq(N) /\ T[m + i] = T[(m + i) - 1] \o t[i]
  BY DEF Following
<1> DEFINE follows(i) == T[m + i] = T[m] \o FirstTexts(t, i)
           S == {i \in Nat : i <= n => follows(i)}
<1>1. 0 \in S
  <2>1. m + 0 = m /\ 0 \in Nat
    OBVIOUS
  <2>2. T[m] \o <<>> = T[m]
    BY ConcatEmptySeq
  <2>3. T[m + 0] = T[m] \o FirstTexts(t, 0)
    BY ONLY <2>1, <2>2, NoText, Zenon
  <2> QED
    BY <2>1, <2>3
<1>2. ASSUME NEW i \in Nat, i \in S PROVE i + 1 \in S
  <2> SUFFICES ASSUME i + 1 <= n PROVE follows(i + 1)
    <3> HIDE DEF follows
    <3> QED
      OBVIOUS
  <2>1. i + 1 \in 1 .. n /\ (m + (i + 1)) - 1 = m + i /\ i <= n
    OBVIOUS
  <2>2. T[m + (i + 1)] = T[m + i] \o t[i + 1] /\ t[i + 1] \in Seq(N)
    BY <2>1
  <2>3. T[m + i] = T[m] \o FirstTexts(t, i)
    BY <1>2, <2>1
  <2>4. FirstTexts(t, i) \in Seq(N) /\ FirstTexts(t, i + 1) = FirstTexts(t, i) \o t[i + 1]
    <3>1. \A j \in 1 .. n : t[j] \in Seq(N)
      OBVIOUS
    <3> QED
      BY ONLY <3>1, i \in Nat, n \in Nat, i + 1 <= n, FirstTextsGrow
  <2>5. (T[m] \o FirstTexts(t, i)) \o t[i + 1] = T[m] \o (FirstTexts(t, i) \o t[i + 1])
    <3>1. PICK a \in Seq(N) : a = T[m]
      OBVIOUS
    <3>2. PICK b \in Seq(N) : b = FirstTexts(t, i)
      BY <2>4
    <3>3. PICK c \in Seq(N) : c = t[i + 1]
      BY <2>2
    <3>4. (a \o b) \o c = a \o (b \o c)
      BY ONLY a \in Seq(N), b \in Seq(N), c \in Seq(N), ConcatAssociative
    <3> QED
      BY ONLY <3>1, <3>2, <3>3, <3>4, Zenon
  <2> QED
    BY ONLY <2>2, <2>3, <2>4, <2>5, Zenon
<1> HIDE DEF S
<1>3. n \in S
  BY <1>1, <1>2, Induct
<1> QED
  BY <1>3 DEF S

HasInput(stack) == Len(stack) >= 2 /\ SymbolAt(stack, 2) = "input"

\* The text of the symbol at i; an input is the module m.
PieceAt(stack, m, i) ==
  IF SymbolAt(stack, i) = "input" THEN <<m>> ELSE SymbolText(SymbolAt(stack, i), Value(stack[i]))

\* The text of the symbols up to i is T[i], of nodes N.
StackTexts(stack, m, N, T) ==
  /\ T[1] = <<>>
  /\ \A i \in 2 .. Len(stack) :
       PieceAt(stack, m, i) \in Seq(N) /\ T[i] = T[i - 1] \o PieceAt(stack, m, i)

\* The symbols up to i may account for b[i] more levels of nodes.
Credits(stack, b) ==
  /\ b[1] = 0
  /\ \A i \in 2 .. Len(stack) : b[i] \in Nat /\ b[i] >= b[i - 1] + Weight(SymbolAt(stack, i))

Reading(stack, m, ts, N, T, b, k) ==
  /\ Closed(N) /\ StackTexts(stack, m, N, T) /\ Credits(stack, b)
  /\ ts \in Seq(N) /\ Plain(ts) /\ Unfolded(T[Len(stack)], k) = ts
  /\ k \in Nat /\ b[Len(stack)] + k <= 2 * Len(ts) + (IF HasInput(stack) THEN 1 ELSE 0)

\* The stack is written with the tokens ts.
IsWritten(stack, m, ts) ==
  /\ \A i \in 2 .. Len(stack) : Valued(SymbolAt(stack, i), Value(stack[i]))
  /\ \E N, T, b : \E k : Reading(stack, m, ts, N, T, b, k)

\* The texts of the symbols on the stack are made of the same nodes.
LEMMA TextsType ==
  ASSUME NEW stack, NEW m, NEW N, NEW T, Len(stack) \in Nat, StackTexts(stack, m, N, T)
  PROVE  \A i \in 1 .. Len(stack) : T[i] \in Seq(N)
<1> DEFINE S == {i \in Nat : i + 1 <= Len(stack) => T[i + 1] \in Seq(N)}
<1>1. 0 \in S
  <2>1. 0 + 1 = 1 /\ 0 \in Nat /\ <<>> \in Seq(N)
    OBVIOUS
  <2> QED
    BY <2>1 DEF StackTexts
<1>2. ASSUME NEW i \in Nat, i \in S PROVE i + 1 \in S
  <2> SUFFICES ASSUME (i + 1) + 1 <= Len(stack) PROVE T[(i + 1) + 1] \in Seq(N)
    OBVIOUS
  <2> DEFINE j == (i + 1) + 1
  <2>1. j \in 2 .. Len(stack) /\ j - 1 = i + 1
    OBVIOUS
  <2>2. T[i + 1] \in Seq(N)
    BY <1>2
  <2> HIDE DEF j
  <2>3. PieceAt(stack, m, j) \in Seq(N) /\ T[j] = T[j - 1] \o PieceAt(stack, m, j)
    BY <2>1 DEF StackTexts
  <2>4. T[j] \in Seq(N)
    BY ONLY <2>1, <2>2, <2>3, ConcatProperties
  <2> QED
    BY <2>4 DEF j
<1> HIDE DEF S
<1>3. \A i \in Nat : i \in S
  BY <1>1, <1>2, Induct
<1> TAKE i \in 1 .. Len(stack)
<1>4. i - 1 \in Nat /\ (i - 1) + 1 = i /\ i <= Len(stack)
  OBVIOUS
<1>5. i - 1 \in S
  BY <1>3, <1>4
<1> QED
  BY <1>4, <1>5 DEF S

\* A symbol accounts for two levels of nodes at most.
LEMMA WeightType == \A symbol : Weight(symbol) \in 0 .. 2
BY DEF Weight

\* The credits of the symbols from i on, one of which is at j.
LEMMA CreditsGrow ==
  ASSUME NEW stack, NEW b, Len(stack) \in Nat, Credits(stack, b)
  PROVE  /\ \A i \in 1 .. Len(stack) : b[i] \in Nat
         /\ \A i \in 1 .. Len(stack) : b[Len(stack)] >= b[i]
         /\ \A i \in 1 .. Len(stack) : \A j \in 2 .. Len(stack) :
              i < j => b[Len(stack)] >= b[i] + Weight(SymbolAt(stack, j))
<1>1. \A i \in 1 .. Len(stack) : b[i] \in Nat
  <2> TAKE i \in 1 .. Len(stack)
  <2>1. i = 1 \/ i \in 2 .. Len(stack)
    OBVIOUS
  <2> QED
    BY <2>1 DEF Credits
<1>2. ASSUME NEW i \in 1 .. Len(stack)
      PROVE  \A n \in Nat : i + n <= Len(stack) => b[i + n] >= b[i]
  <2> DEFINE S == {n \in Nat : i + n <= Len(stack) => b[i + n] >= b[i]}
  <2>1. 0 \in S
    BY <1>1
  <2>2. ASSUME NEW n \in Nat, n \in S PROVE n + 1 \in S
    <3> SUFFICES ASSUME i + (n + 1) <= Len(stack) PROVE b[i + (n + 1)] >= b[i]
      OBVIOUS
    <3> DEFINE j == i + (n + 1)
    <3>1. j \in 2 .. Len(stack) /\ j - 1 = i + n /\ i + n <= Len(stack) /\ i + n \in 1 .. Len(stack)
      OBVIOUS
    <3>2. b[i + n] >= b[i]
      BY <2>2, <3>1
    <3> HIDE DEF j
    <3>3. b[j] \in Nat /\ b[j] >= b[j - 1] + Weight(SymbolAt(stack, j))
      BY <3>1 DEF Credits
    <3>4. Weight(SymbolAt(stack, j)) \in Nat /\ b[i] \in Nat /\ b[i + n] \in Nat
      BY <1>1, <3>1, WeightType
    <3>5. b[j] >= b[i]
      BY ONLY <3>1, <3>2, <3>3, <3>4
    <3> QED
      BY <3>5 DEF j
  <2> HIDE DEF S
  <2>3. \A n \in Nat : n \in S
    BY <2>1, <2>2, Induct
  <2> QED
    BY <2>3 DEF S
<1>3. ASSUME NEW i \in 1 .. Len(stack), NEW j \in 1 .. Len(stack), i <= j PROVE b[j] >= b[i]
  <2>1. j - i \in Nat /\ i + (j - i) = j
    BY <1>3
  <2> QED
    BY <1>2, <2>1
<1>4. \A i \in 1 .. Len(stack) : Len(stack) \in 1 .. Len(stack) /\ i <= Len(stack)
  OBVIOUS
<1>5. \A i \in 1 .. Len(stack) : b[Len(stack)] >= b[i]
  BY <1>3, <1>4
<1>6. ASSUME NEW i \in 1 .. Len(stack), NEW j \in 2 .. Len(stack), i < j
      PROVE  b[Len(stack)] >= b[i] + Weight(SymbolAt(stack, j))
  <2>1. j - 1 \in 1 .. Len(stack) /\ i <= j - 1 /\ j \in 1 .. Len(stack)
    BY <1>6
  <2>2. b[j - 1] >= b[i] /\ b[Len(stack)] >= b[j]
    BY <1>3, <1>5, <2>1
  <2>3. b[j] >= b[j - 1] + Weight(SymbolAt(stack, j))
    BY DEF Credits
  <2>4. /\ Weight(SymbolAt(stack, j)) \in Nat /\ b[i] \in Nat /\ b[j] \in Nat /\ b[j - 1] \in Nat
        /\ b[Len(stack)] \in Nat
    BY <1>1, <1>4, <2>1, WeightType
  <2> QED
    BY ONLY <2>2, <2>3, <2>4
<1> QED
  BY <1>1, <1>5, <1>6

\* A node more.
LEMMA ClosedGrows ==
  ASSUME NEW N, Closed(N), NEW x, Unfold(x) \in Seq(N \cup {x})
  PROVE  Closed(N \cup {x})
<1>1. ASSUME NEW n \in N PROVE Unfold(n) \in Seq(N \cup {x})
  <2>1. Unfold(n) \in Seq(N) /\ N \subseteq N \cup {x}
    BY DEF Closed
  <2> QED
    BY ONLY <2>1, SeqMonotonic
<1> QED
  BY <1>1 DEF Closed

\* A stack that another one begins with has the texts of that one.
LEMMA TextsBelow ==
  ASSUME NEW stack, NEW below, NEW m, NEW N, NEW T, NEW b,
         Len(stack) \in Nat, Len(below) \in Nat, Len(below) <= Len(stack),
         \A i \in 1 .. Len(below) : below[i] = stack[i],
         StackTexts(stack, m, N, T), Credits(stack, b)
  PROVE  StackTexts(below, m, N, T) /\ Credits(below, b)
<1>1. \A i \in 2 .. Len(below) : i \in 1 .. Len(below) /\ i \in 2 .. Len(stack)
  OBVIOUS
<1>2. \A i \in 2 .. Len(below) : /\ SymbolAt(below, i) = SymbolAt(stack, i)
                                 /\ PieceAt(below, m, i) = PieceAt(stack, m, i)
  BY <1>1 DEF SymbolAt, PieceAt
<1> QED
  BY <1>1, <1>2 DEF StackTexts, Credits

\* The stack other has a symbol more than stack, a text of nodes NN; only with the
\* first one may it be another module that an input stands for.
OneMore(stack, m, N, T, b, other, mm, NN, c) ==
  /\ Len(stack) \in Nat /\ Len(stack) >= 1 /\ Len(other) = Len(stack) + 1
  /\ \A i \in 1 .. Len(stack) : other[i] = stack[i]
  /\ mm = m \/ Len(stack) = 1
  /\ StackTexts(stack, m, N, T) /\ Credits(stack, b)
  /\ N \subseteq NN /\ PieceAt(other, mm, Len(stack) + 1) \in Seq(NN)
  /\ c \in Nat /\ c >= b[Len(stack)] + Weight(SymbolAt(other, Len(stack) + 1))

TextsAnd(T, n, piece) == [i \in 1 .. n + 1 |-> IF i <= n THEN T[i] ELSE T[n] \o piece]
CreditsAnd(b, n, c)   == [i \in 1 .. n + 1 |-> IF i <= n THEN b[i] ELSE c]

\* The texts with one more.
LEMMA TextsAreMore ==
  ASSUME NEW T, NEW n \in Nat, NEW piece
  PROVE  /\ \A i \in 1 .. n : TextsAnd(T, n, piece)[i] = T[i]
         /\ TextsAnd(T, n, piece)[n + 1] = T[n] \o piece
<1>1. n + 1 \in 1 .. n + 1 /\ ~(n + 1 <= n)
  OBVIOUS
<1>2. \A i \in 1 .. n : i \in 1 .. n + 1 /\ i <= n
  OBVIOUS
<1> QED
  BY ONLY <1>1, <1>2, Zenon DEF TextsAnd

\* The credits with one more.
LEMMA CreditsAreMore ==
  ASSUME NEW b, NEW n \in Nat, NEW c
  PROVE  /\ \A i \in 1 .. n : CreditsAnd(b, n, c)[i] = b[i]
         /\ CreditsAnd(b, n, c)[n + 1] = c
<1>1. n + 1 \in 1 .. n + 1 /\ ~(n + 1 <= n)
  OBVIOUS
<1>2. \A i \in 1 .. n : i \in 1 .. n + 1 /\ i <= n
  OBVIOUS
<1> QED
  BY ONLY <1>1, <1>2, Zenon DEF CreditsAnd

\* A symbol more.
LEMMA TextsPushed ==
  ASSUME NEW stack, NEW m, NEW N, NEW T, NEW b, NEW other, NEW mm, NEW NN, NEW c,
         OneMore(stack, m, N, T, b, other, mm, NN, c)
  PROVE  /\ StackTexts(other, mm, NN,
                       TextsAnd(T, Len(stack), PieceAt(other, mm, Len(stack) + 1)))
         /\ Credits(other, CreditsAnd(b, Len(stack), c))
<1>0. PICK L \in Nat : L = Len(stack)
  BY DEF OneMore
<1>    /\ L >= 1 /\ Len(stack) = L /\ Len(other) = L + 1
       /\ \A i \in 1 .. L : other[i] = stack[i]
       /\ mm = m \/ L = 1
       /\ StackTexts(stack, m, N, T) /\ Credits(stack, b)
       /\ N \subseteq NN /\ PieceAt(other, mm, L + 1) \in Seq(NN)
       /\ c \in Nat /\ c >= b[L] + Weight(SymbolAt(other, L + 1))
  BY <1>0 DEF OneMore
<1> DEFINE piece == PieceAt(other, mm, L + 1)
           TT == TextsAnd(T, L, piece)
           bb == CreditsAnd(b, L, c)
<1>1. /\ \A i \in 1 .. L : TT[i] = T[i] /\ bb[i] = b[i]
      /\ TT[L + 1] = T[L] \o piece /\ bb[L + 1] = c
  <2>1. (\A i \in 1 .. L : TT[i] = T[i]) /\ TT[L + 1] = T[L] \o piece
    <3> HIDE DEF piece
    <3>1. \A i \in 1 .. L : TT[i] = T[i]
      BY ONLY L \in Nat, TextsAreMore
    <3>2. TT[L + 1] = T[L] \o piece
      BY ONLY L \in Nat, TextsAreMore
    <3> QED
      BY <3>1, <3>2
  <2>2. (\A i \in 1 .. L : bb[i] = b[i]) /\ bb[L + 1] = c
    BY CreditsAreMore
  <2> QED
    BY ONLY <2>1, <2>2, Zenon
<1> HIDE DEF TT, bb
<1>2. 1 \in 1 .. L
  OBVIOUS
<1>3. ASSUME NEW i \in 2 .. L + 1
      PROVE  /\ PieceAt(other, mm, i) \in Seq(NN) /\ TT[i] = TT[i - 1] \o PieceAt(other, mm, i)
             /\ bb[i] \in Nat /\ bb[i] >= bb[i - 1] + Weight(SymbolAt(other, i))
  <2>1. CASE i = L + 1
    <3>1. i - 1 = L /\ L \in 1 .. L
      BY <2>1
    <3> HIDE DEF piece
    <3>2. PieceAt(other, mm, i) \in Seq(NN) /\ PieceAt(other, mm, i) = piece
      BY <2>1 DEF piece
    <3>3. TT[i - 1] = T[L] /\ bb[i - 1] = b[L]
      BY <1>1, <3>1
    <3>4. TT[i] = TT[i - 1] \o PieceAt(other, mm, i)
      BY ONLY <1>1, <2>1, <3>2, <3>3, Zenon
    <3>5. bb[i] = c /\ SymbolAt(other, i) = SymbolAt(other, L + 1)
      BY <1>1, <2>1
    <3>6. bb[i] \in Nat /\ bb[i] >= bb[i - 1] + Weight(SymbolAt(other, i))
      BY <3>3, <3>5
    <3> QED
      BY ONLY <3>2, <3>4, <3>6
  <2>2. CASE i # L + 1
    <3>1. i \in 2 .. L /\ i \in 1 .. L /\ i - 1 \in 1 .. L /\ L # 1
      BY <2>2
    <3>2. SymbolAt(other, i) = SymbolAt(stack, i) /\ PieceAt(other, mm, i) = PieceAt(stack, m, i)
      BY <3>1 DEF SymbolAt, PieceAt
    <3>3. /\ PieceAt(stack, m, i) \in Seq(N) /\ T[i] = T[i - 1] \o PieceAt(stack, m, i)
          /\ b[i] \in Nat /\ b[i] >= b[i - 1] + Weight(SymbolAt(stack, i))
      BY <3>1 DEF StackTexts, Credits
    <3>4. PieceAt(stack, m, i) \in Seq(NN)
      BY <3>3, SeqMonotonic
    <3>5. TT[i] = T[i] /\ TT[i - 1] = T[i - 1] /\ bb[i] = b[i] /\ bb[i - 1] = b[i - 1]
      BY <1>1, <3>1
    <3>6. TT[i] = TT[i - 1] \o PieceAt(other, mm, i)
      BY ONLY <3>2, <3>3, <3>5, Zenon
    <3>7. bb[i] \in Nat /\ bb[i] >= bb[i - 1] + Weight(SymbolAt(other, i))
      BY ONLY <3>2, <3>3, <3>5
    <3> QED
      BY ONLY <3>2, <3>4, <3>6, <3>7
  <2> QED
    BY <2>1, <2>2
<1>4. TT[1] = <<>> /\ bb[1] = 0
  BY <1>1, <1>2 DEF StackTexts, Credits
<1>5. StackTexts(other, mm, NN, TT) /\ Credits(other, bb)
  BY <1>3, <1>4 DEF StackTexts, Credits
<1> QED
  BY <1>0, <1>5 DEF TT, bb

\* Nothing is written on the stack that parse() starts with.
LEMMA WrittenBegins ==
  ASSUME NEW m, NEW entry, NEW stack, stack = push(<<>>, entry)
  PROVE  IsWritten(stack, m, <<>>)
<1>1. Len(stack) = 1 /\ ~HasInput(stack) /\ \A i \in 2 .. Len(stack) : FALSE
  BY DEF push, HasInput
<1>2. PICK T : T = [i \in 1 .. 1 |-> <<>>]
  OBVIOUS
<1>3. PICK b : b = [i \in 1 .. 1 |-> 0]
  OBVIOUS
<1>4. PICK k \in Nat : k = 0
  OBVIOUS
<1>5. PICK N : N = {}
  OBVIOUS
<1>6. T[1] = <<>> /\ b[1] = 0
  BY <1>2, <1>3
<1>7. Closed(N) /\ StackTexts(stack, m, N, T) /\ Credits(stack, b)
  BY <1>1, <1>5, <1>6 DEF Closed, StackTexts, Credits
<1>8. <<>> \in Seq(N) /\ Plain(<<>>)
  BY DEF Plain
<1>9. Unfolded(T[Len(stack)], k) = <<>>
  BY <1>1, <1>4, <1>6, UnfoldedLevels
<1>10. b[Len(stack)] + k <= 2 * Len(<<>>) + (IF HasInput(stack) THEN 1 ELSE 0)
  BY <1>1, <1>4, <1>6
<1>11. Reading(stack, m, <<>>, N, T, b, k)
  BY <1>7, <1>8, <1>9, <1>10 DEF Reading
<1> QED
  BY <1>1, <1>11 DEF IsWritten

\* The entries of a path that goes on.
LEMMA TerminalIsNotBuilt ==
  ASSUME NEW kind \in Terminal, NEW v
  PROVE  kind # "input" /\ Valued(kind, v)
<1>1. /\ Lhs(2) = "input" /\ Lhs(14) = "global_decl_list" /\ Lhs(19) = "argument_list"
      /\ Lhs(37) = "deduction_target_list" /\ Lhs(34) = "identifiable"
  BY GroupRules, RuleRules, TargetRules DEF IsRule
<1>2. \A p \in 1 .. 50 : kind # Lhs(p)
  BY LeftSides, ProductionsList DEF Terminal
<1>3. /\ kind # Lhs(2) /\ kind # Lhs(14) /\ kind # Lhs(19) /\ kind # Lhs(37)
      /\ kind # Lhs(34)
  BY ONLY <1>2
<1> QED
  BY ONLY <1>1, <1>3 DEF Valued, SeparatedLists

\* Tokens, and one more.
LEMMA PlainGrows ==
  ASSUME NEW N, NEW ts \in Seq(N), Plain(ts), NEW t \in N, Unfold(t) = <<t>>
  PROVE  Plain(Append(ts, t)) /\ Append(ts, t) \in Seq(N) /\ Len(Append(ts, t)) = Len(ts) + 1
         /\ Len(ts) \in Nat
<1>1. /\ Append(ts, t) \in Seq(N) /\ Len(ts) \in Nat /\ Len(Append(ts, t)) = Len(ts) + 1
      /\ DOMAIN ts = 1 .. Len(ts) /\ DOMAIN Append(ts, t) = 1 .. Len(ts) + 1
      /\ \A i \in 1 .. Len(ts) : Append(ts, t)[i] = ts[i]
      /\ Append(ts, t)[Len(ts) + 1] = t
  BY MapGrows
<1>2. ASSUME NEW i \in 1 .. Len(ts) + 1
      PROVE  Unfold(Append(ts, t)[i]) = <<Append(ts, t)[i]>>
  <2>1. i \in 1 .. Len(ts) \/ i = Len(ts) + 1
    BY <1>1
  <2> QED
    BY <1>1, <2>1 DEF Plain
<1> QED
  BY <1>1, <1>2 DEF Plain

\* After a shift.
LEMMA WrittenShifted ==
  ASSUME NEW stack, Path(stack), NEW m, NEW ts, IsWritten(stack, m, ts),
         NEW kind \in Terminal, NEW v, Goto(State(stack[Len(stack)]), kind) # {},
         NEW other, other = Pushed(stack, kind, v)
  PROVE  IsWritten(other, m, Append(ts, Token(kind, v)))
<1> DEFINE t == Token(kind, v)
           L == Len(stack)
<1>1. /\ L \in Nat /\ L >= 1 /\ Len(other) = L + 1 /\ SymbolAt(other, L + 1) = kind
      /\ \A i \in 1 .. L : other[i] = stack[i]
      /\ Value(other[L + 1]) = v
  <2>1. PICK entry : entry = stack_symbol(Goto(State(stack[Len(stack)]), kind), v)
    OBVIOUS
  <2>2. /\ Len(other) = Len(stack) + 1 /\ other[Len(stack) + 1] = entry
        /\ SymbolAt(other, Len(stack) + 1) = kind
        /\ \A i \in 1 .. Len(stack) : other[i] = stack[i]
    BY <2>1, PathPushed
  <2>3. Len(stack) \in Nat /\ Len(stack) >= 1
    BY ONLY Path(stack), PathType
  <2>4. Value(entry) = v
    BY <2>1 DEF Value, stack_symbol
  <2> QED
    BY ONLY <2>2, <2>3, <2>4
<1> HIDE DEF L
<1>2. PICK N, T, b : \E k : Reading(stack, m, ts, N, T, b, k)
  BY DEF IsWritten
<1>3. PICK k : Reading(stack, m, ts, N, T, b, k)
  BY <1>2
<1>4. /\ Closed(N) /\ StackTexts(stack, m, N, T) /\ Credits(stack, b)
      /\ ts \in Seq(N) /\ Plain(ts) /\ Unfolded(T[L], k) = ts /\ k \in Nat
      /\ b[L] + k <= 2 * Len(ts) + (IF HasInput(stack) THEN 1 ELSE 0)
  BY <1>3 DEF Reading, L
<1>5. SymbolText(kind, v) = <<t>> /\ Unfold(t) = <<t>> /\ kind # "input" /\ Valued(kind, v)
  BY TokenIsItself, TerminalIsNotBuilt
<1> HIDE DEF t
<1>6. PICK NN : NN = N \cup {t}
  OBVIOUS
<1>7. /\ Closed(NN) /\ N \subseteq NN /\ t \in NN
  <2>1. Unfold(t) \in Seq(N \cup {t})
    BY <1>5, OneInSeq
  <2> QED
    BY <1>4, <1>6, <2>1, ClosedGrows
<1>8. PieceAt(other, m, L + 1) = <<t>> /\ <<t>> \in Seq(NN)
  BY <1>1, <1>5, <1>7, OneInSeq DEF PieceAt
<1>9. Len(stack) = L
  BY DEF L
<1>10. L \in 1 .. L /\ b[L] \in Nat /\ T[L] \in Seq(N)
  <2>1. L \in 1 .. L
    BY <1>1
  <2>2. b[L] \in Nat
    BY <1>1, <1>4, <1>9, <2>1, CreditsGrow
  <2>3. T[L] \in Seq(N)
    BY <1>1, <1>4, <1>9, <2>1, TextsType
  <2> QED
    BY <2>1, <2>2, <2>3
<1>11. PICK c \in Nat : c = b[L] + Weight(kind)
  BY <1>10, WeightType
<1>0. PICK TT : TT = TextsAnd(T, L, PieceAt(other, m, L + 1))
  OBVIOUS
<1>00. PICK bb : bb = CreditsAnd(b, L, c)
  OBVIOUS
<1>12. /\ StackTexts(other, m, NN, TT) /\ Credits(other, bb)
       /\ TT[L + 1] = T[L] \o PieceAt(other, m, L + 1)
       /\ bb[L + 1] = c
  <2>1. c >= b[L] + Weight(SymbolAt(other, L + 1))
    BY <1>1, <1>10, <1>11, WeightType
  <2>2. PieceAt(other, m, L + 1) \in Seq(NN)
    BY <1>8
  <2>3. m = m \/ L = 1
    OBVIOUS
  <2>4. StackTexts(stack, m, N, T) /\ Credits(stack, b)
    BY <1>4
  <2>5. L \in Nat
    BY <1>1
  <2>6. L >= 1
    BY <1>1
  <2>7. Len(other) = L + 1
    BY <1>1
  <2>8. \A i \in 1 .. L : other[i] = stack[i]
    BY <1>1
  <2>9. N \subseteq NN
    BY <1>7
  <2>10. OneMore(stack, m, N, T, b, other, m, NN, c)
    BY ONLY <1>9, <2>1, <2>2, <2>3, <2>4, <2>5, <2>6, <2>7, <2>8, <2>9, c \in Nat DEF OneMore
  <2>11. StackTexts(other, m, NN, TT) /\ Credits(other, bb)
    BY ONLY <1>0, <1>00, <1>9, <2>10, TextsPushed
  <2> QED
    <3>1. PICK piece : piece = PieceAt(other, m, L + 1)
      OBVIOUS
    <3>2. TextsAnd(T, L, piece)[L + 1] = T[L] \o piece
      BY ONLY <2>5, TextsAreMore
    <3>3. CreditsAnd(b, L, c)[L + 1] = c
      BY ONLY <2>5, CreditsAreMore, SMTT(30)
    <3> QED
      BY ONLY <1>0, <1>00, <2>11, <3>1, <3>2, <3>3, Zenon
<1>13. Unfolded(TT[L + 1], k) = Append(ts, t)
  <2>1. T[L] \in Seq(NN) /\ ts \in Seq(NN)
    BY <1>4, <1>7, <1>10, SeqMonotonic
  <2>2. Unfolded(T[L] \o <<t>>, k) = Unfolded(T[L], k) \o <<t>>
    BY <1>4, <1>5, <1>7, <2>1, TokenIsWritten
  <2>3. ts \o <<t>> = Append(ts, t)
    BY <1>7, <2>1, AppendIsConcat
  <2> QED
    BY ONLY <1>4, <1>8, <1>12, <2>2, <2>3, Zenon
<1>14. /\ Plain(Append(ts, t)) /\ Append(ts, t) \in Seq(NN)
       /\ Len(Append(ts, t)) = Len(ts) + 1 /\ Len(ts) \in Nat
  <2>1. ts \in Seq(NN)
    BY <1>4, <1>7, SeqMonotonic
  <2> QED
    BY <1>4, <1>5, <1>7, <2>1, PlainGrows
<1>15. HasInput(stack) => HasInput(other)
  <2>1. L >= 2 => 2 \in 1 .. L /\ L + 1 >= 2
    BY <1>1
  <2> QED
    BY <1>1, <1>9, <2>1 DEF HasInput, SymbolAt
<1>16. bb[Len(other)] + k <= 2 * Len(Append(ts, t)) + (IF HasInput(other) THEN 1 ELSE 0)
  <2>1. Weight(kind) \in 0 .. 2
    BY WeightType
  <2>2. bb[Len(other)] = b[L] + Weight(kind)
    BY <1>1, <1>11, <1>12
  <2>3. PICK x \in Nat : x = Len(ts)
    BY <1>14
  <2>4. b[L] + k <= 2 * x + (IF HasInput(stack) THEN 1 ELSE 0)
    BY <1>4, <2>3
  <2>5. b[L] + Weight(kind) + k <= 2 * (x + 1) + (IF HasInput(other) THEN 1 ELSE 0)
    BY ONLY <1>4, <1>10, <1>15, <2>1, <2>4, x \in Nat
  <2> QED
    BY ONLY <1>14, <2>2, <2>3, <2>5
<1>17. Reading(other, m, Append(ts, t), NN, TT, bb, k)
  BY <1>1, <1>4, <1>7, <1>12, <1>13, <1>14, <1>16 DEF Reading
<1>18. \A i \in 2 .. Len(other) : Valued(SymbolAt(other, i), Value(other[i]))
  <2> TAKE i \in 2 .. Len(other)
  <2>1. CASE i = L + 1
    BY <1>1, <1>5, <2>1
  <2>2. CASE i # L + 1
    <3>1. i \in 2 .. L /\ i \in 1 .. L
      BY <1>1, <2>2
    <3>2. Valued(SymbolAt(stack, i), Value(stack[i]))
      BY <1>9, <3>1 DEF IsWritten
    <3> QED
      BY <1>1, <3>1, <3>2 DEF SymbolAt
  <2> QED
    BY <2>1, <2>2
<1> QED
  BY <1>17, <1>18 DEF IsWritten, t

\* A reduction by p, to the value x.
Reduces(stack, p, n, below, x, other) ==
  /\ Path(stack) /\ p \in Complete(State(stack[Len(stack)])) /\ p # 1
  /\ n = Len(Rhs(p)) /\ below = pop(stack, n) /\ other = Pushed(below, Lhs(p), x)

\* What a reduction by p leaves and puts on the stack.
LEMMA Reduction ==
  ASSUME NEW stack, NEW p, NEW n, NEW below, NEW x, NEW other,
         Reduces(stack, p, n, below, x, other)
  PROVE  /\ p \in DOMAIN Productions /\ n \in Nat /\ Len(stack) \in Nat /\ n < Len(stack)
         /\ Len(below) = Len(stack) - n
         /\ \A i \in 1 .. Len(stack) - n : below[i] = stack[i] /\ other[i] = stack[i]
         /\ Path(other) /\ Len(other) = (Len(stack) - n) + 1
         /\ SymbolAt(other, (Len(stack) - n) + 1) = Lhs(p)
         /\ Value(other[(Len(stack) - n) + 1]) = x
         /\ \A i \in 1 .. n : SymbolAt(stack, (Len(stack) - n) + i) = Rhs(p)[i]
<1> /\ Path(stack) /\ p \in Complete(State(stack[Len(stack)])) /\ p # 1
    /\ n = Len(Rhs(p)) /\ below = pop(stack, n) /\ other = Pushed(below, Lhs(p), x)
  BY DEF Reduces
<1>1. /\ p \in DOMAIN Productions /\ n \in Nat /\ n < Len(stack)
      /\ \A i \in 1 .. n : SymbolAt(stack, (Len(stack) - n) + i) = Rhs(p)[i]
  BY CompleteIsOnTheStack
<1>2. Len(stack) \in Nat
  BY PathType
<1>3. /\ Path(below) /\ Len(below) = Len(stack) - n
      /\ \A i \in 1 .. Len(stack) - n : below[i] = stack[i]
  BY ONLY <1>1, below = pop(stack, n), Path(stack), PathPopped
<1>4. Goto(State(below[Len(below)]), Lhs(p)) # {}
  BY CompleteCanBeReduced
<1>5. /\ Path(other) /\ Len(other) = Len(below) + 1
      /\ other[Len(below) + 1] = stack_symbol(Goto(State(below[Len(below)]), Lhs(p)), x)
      /\ SymbolAt(other, Len(below) + 1) = Lhs(p)
      /\ \A i \in 1 .. Len(below) : other[i] = below[i]
  <2>1. PICK A : A = Lhs(p)
    OBVIOUS
  <2>2. other = Pushed(below, A, x) /\ Goto(State(below[Len(below)]), A) # {}
    BY <1>4, <2>1
  <2>3. /\ Path(other) /\ Len(other) = Len(below) + 1
        /\ other[Len(below) + 1] = stack_symbol(Goto(State(below[Len(below)]), A), x)
        /\ SymbolAt(other, Len(below) + 1) = A
        /\ \A i \in 1 .. Len(below) : other[i] = below[i]
    <3>1. Path(below)
      BY <1>3
    <3>2. /\ Path(Pushed(below, A, x)) /\ Len(Pushed(below, A, x)) = Len(below) + 1
          /\ Pushed(below, A, x)[Len(below) + 1]
                = stack_symbol(Goto(State(below[Len(below)]), A), x)
          /\ SymbolAt(Pushed(below, A, x), Len(below) + 1) = A
          /\ \A i \in 1 .. Len(below) : Pushed(below, A, x)[i] = below[i]
      <4>1. Path(Pushed(below, A, x))
        BY ONLY <2>2, <3>1, PathPushed
      <4>2. Len(Pushed(below, A, x)) = Len(below) + 1
        BY ONLY <2>2, <3>1, PathPushed
      <4>3. Pushed(below, A, x)[Len(below) + 1]
              = stack_symbol(Goto(State(below[Len(below)]), A), x)
        BY ONLY <2>2, <3>1, PathPushed
      <4>4. SymbolAt(Pushed(below, A, x), Len(below) + 1) = A
        BY ONLY <2>2, <3>1, PathPushed
      <4>5. \A i \in 1 .. Len(below) : Pushed(below, A, x)[i] = below[i]
        BY ONLY <2>2, <3>1, PathPushed
      <4> QED
        BY <4>1, <4>2, <4>3, <4>4, <4>5
    <3> QED
      BY ONLY <2>2, <3>2, Zenon
  <2> QED
    BY ONLY <2>1, <2>3, Zenon
<1>6. Value(other[Len(below) + 1]) = x
  BY <1>5 DEF Value, stack_symbol
<1> QED
  BY ONLY <1>1, <1>2, <1>3, <1>5, <1>6

\* The right-hand side of p is on the stack above K, with the values v.
HasParts(stack, m, N, T, p, n, K, v) ==
  /\ Len(stack) \in Nat /\ StackTexts(stack, m, N, T)
  /\ n \in Nat /\ n = Len(Rhs(p)) /\ K \in Nat /\ K >= 1 /\ K + n = Len(stack)
  /\ \A i \in 1 .. n : SymbolAt(stack, K + i) = Rhs(p)[i] /\ Rhs(p)[i] # "input"
  /\ \A i \in 1 .. n : v[i] = Value(stack[K + i])

\* The symbols of the right-hand side of p, above K, are written with its text.
LEMMA TextsRead ==
  ASSUME NEW stack, NEW m, NEW N, NEW T, NEW p, NEW n, NEW K, NEW v,
         HasParts(stack, m, N, T, p, n, K, v)
  PROVE  HasTexts(p, v, N, n) /\ T[K + n] = T[K] \o Text(p, v) /\ Text(p, v) \in Seq(N)
<1> /\ Len(stack) \in Nat /\ StackTexts(stack, m, N, T)
    /\ n \in Nat /\ n = Len(Rhs(p)) /\ K \in Nat /\ K >= 1 /\ K + n = Len(stack)
    /\ \A i \in 1 .. n : SymbolAt(stack, K + i) = Rhs(p)[i] /\ Rhs(p)[i] # "input"
    /\ \A i \in 1 .. n : v[i] = Value(stack[K + i])
  BY DEF HasParts
<1>1. PICK t : t = [i \in 1 .. n |-> SymbolText(Rhs(p)[i], v[i])]
  OBVIOUS
<1>2. ASSUME NEW i \in 1 .. n
      PROVE  /\ t[i] \in Seq(N) /\ t[i] = SymbolText(Rhs(p)[i], v[i])
             /\ T[K + i] = T[(K + i) - 1] \o t[i]
  <2>1. K + i \in 2 .. Len(stack)
    OBVIOUS
  <2>2. /\ PieceAt(stack, m, K + i) \in Seq(N)
        /\ T[K + i] = T[(K + i) - 1] \o PieceAt(stack, m, K + i)
    BY <2>1 DEF StackTexts
  <2>3. PieceAt(stack, m, K + i) = SymbolText(Rhs(p)[i], v[i])
    BY DEF PieceAt
  <2>4. t[i] = SymbolText(Rhs(p)[i], v[i])
    BY <1>1
  <2> QED
    BY ONLY <2>2, <2>3, <2>4, Zenon
<1>3. HasTexts(p, v, N, n)
  BY <1>2 DEF HasTexts
<1>4. T[K] \in Seq(N)
  <2>1. K \in 1 .. Len(stack)
    OBVIOUS
  <2> QED
    BY <2>1, TextsType
<1>5. T[K + n] = T[K] \o FirstTexts(t, n)
  <2>1. \A i \in 1 .. n : t[i] \in Seq(N) /\ T[K + i] = T[(K + i) - 1] \o t[i]
    BY <1>2
  <2> QED
    <3>1. Following(N, T, t, K, n)
      BY ONLY <1>4, <2>1, n \in Nat, K \in Nat DEF Following
    <3> QED
      BY ONLY <3>1, TextsFollow
<1>6. Text(p, v) = FirstTexts(t, n)
  BY <1>1 DEF Text
<1>7. FirstTexts(t, n) \in Seq(N)
  <2>1. CASE n = 0
    <3>1. FirstTexts(t, n) = <<>>
      BY ONLY <2>1, NoText, Zenon
    <3> QED
      BY <3>1
  <2>2. CASE n # 0
    BY <1>2, <2>2, FirstTextsType
  <2> QED
    BY <2>1, <2>2
<1> QED
  BY ONLY <1>3, <1>5, <1>6, <1>7, Zenon

\* With a symbol more on it, a stack is written with ts if its text is, and if no
\* level is left out of account.
LEMMA WrittenWith ==
  ASSUME NEW below, NEW m, NEW N, NEW T, NEW b, NEW other, NEW mm, NEW NN, NEW c,
         OneMore(below, m, N, T, b, other, mm, NN, c),
         Closed(NN), NEW ts \in Seq(NN), Plain(ts), NEW k \in Nat,
         Unfolded(T[Len(below)] \o PieceAt(other, mm, Len(below) + 1), k) = ts,
         c + k <= 2 * Len(ts) + (IF HasInput(other) THEN 1 ELSE 0),
         \A i \in 2 .. Len(below) : Valued(SymbolAt(below, i), Value(below[i])),
         Valued(SymbolAt(other, Len(below) + 1), Value(other[Len(below) + 1]))
  PROVE  IsWritten(other, mm, ts)
<1>1. PICK L \in Nat : L = Len(below)
  BY DEF OneMore
<1>2. L >= 1 /\ Len(other) = L + 1 /\ \A i \in 1 .. L : other[i] = below[i]
  BY <1>1 DEF OneMore
<1>3. PICK piece : piece = PieceAt(other, mm, L + 1)
  OBVIOUS
<1>4. PICK TT : TT = TextsAnd(T, L, piece)
  OBVIOUS
<1>5. PICK bb : bb = CreditsAnd(b, L, c)
  OBVIOUS
<1>6. StackTexts(other, mm, NN, TT) /\ Credits(other, bb)
  BY ONLY <1>1, <1>3, <1>4, <1>5, OneMore(below, m, N, T, b, other, mm, NN, c), TextsPushed
<1>7. TT[L + 1] = T[L] \o piece
  <2>1. TextsAnd(T, L, piece)[L + 1] = T[L] \o piece
    BY ONLY L \in Nat, TextsAreMore
  <2> QED
    BY ONLY <1>4, <2>1, Zenon
<1>8. bb[L + 1] = c
  <2>1. CreditsAnd(b, L, c)[L + 1] = c
    <3>1. c \in Nat
      BY DEF OneMore
    <3> QED
      BY ONLY L \in Nat, <3>1, CreditsAreMore
  <2> QED
    BY ONLY <1>5, <2>1, Zenon
<1>9. Unfolded(TT[Len(other)], k) = ts
  <2>1. Unfolded(T[L] \o piece, k) = ts
    BY ONLY <1>1, <1>3, Unfolded(T[Len(below)] \o PieceAt(other, mm, Len(below) + 1), k) = ts, Zenon
  <2> QED
    BY ONLY <1>2, <1>7, <2>1, Zenon
<1>10. bb[Len(other)] + k <= 2 * Len(ts) + (IF HasInput(other) THEN 1 ELSE 0)
  BY ONLY <1>2, <1>8, c + k <= 2 * Len(ts) + (IF HasInput(other) THEN 1 ELSE 0), Zenon
<1>11. Reading(other, mm, ts, NN, TT, bb, k)
  BY ONLY <1>6, <1>9, <1>10, Closed(NN), ts \in Seq(NN), Plain(ts), k \in Nat, Zenon DEF Reading
<1>12. \A i \in 2 .. Len(other) : Valued(SymbolAt(other, i), Value(other[i]))
  <2> TAKE i \in 2 .. Len(other)
  <2>1. CASE i = L + 1
    BY <1>1, <2>1
  <2>2. CASE i # L + 1
    <3>1. i \in 2 .. L /\ i \in 1 .. L
      BY <1>2, <2>2
    <3>2. Valued(SymbolAt(below, i), Value(below[i]))
      BY <1>1, <3>1
    <3> QED
      BY <1>2, <3>1, <3>2 DEF SymbolAt
  <2> QED
    BY <2>1, <2>2
<1>13. \E N1, T1, b1 : \E k1 : Reading(other, mm, ts, N1, T1, b1, k1)
  BY ONLY <1>11
<1> QED
  BY ONLY <1>12, <1>13 DEF IsWritten

\* After a reduction that does not end the text.
LEMMA WrittenReduced ==
  ASSUME NEW stack, NEW m, NEW ts, IsWritten(stack, m, ts), ~HasInput(stack),
         NEW p, p # 2, NEW n, NEW below, NEW v, NEW other,
         Reduces(stack, p, n, below, Built(p, v), other), Listed(v), Len(v) = n,
         \A i \in 1 .. n : v[i] = Value(stack[(Len(stack) - n) + i])
  PROVE  IsWritten(other, m, ts)
<1> DEFINE L == Len(stack)
           K == Len(stack) - n
<1>x. PICK x : x = Built(p, v)
  OBVIOUS
<1>0. Path(stack) /\ p # 1 /\ n = Len(Rhs(p))
  BY DEF Reduces
<1>1. /\ p \in DOMAIN Productions /\ n \in Nat /\ L \in Nat /\ n < L
      /\ Len(below) = K
      /\ \A i \in 1 .. K : below[i] = stack[i] /\ other[i] = stack[i]
      /\ Path(other) /\ Len(other) = K + 1
      /\ SymbolAt(other, K + 1) = Lhs(p)
      /\ Value(other[K + 1]) = x
      /\ \A i \in 1 .. n : SymbolAt(stack, K + i) = Rhs(p)[i]
  BY <1>x, Reduction
<1>2. K \in Nat /\ K >= 1 /\ K + n = L /\ K <= L /\ L >= 1 /\ K \in 1 .. L /\ L \in 1 .. L
  BY <1>1
<1>3. PICK N, T, b : \E k : Reading(stack, m, ts, N, T, b, k)
  BY DEF IsWritten
<1>4. PICK k : Reading(stack, m, ts, N, T, b, k)
  BY <1>3
<1>5. /\ Closed(N) /\ StackTexts(stack, m, N, T) /\ Credits(stack, b)
      /\ ts \in Seq(N) /\ Plain(ts) /\ Unfolded(T[L], k) = ts /\ k \in Nat
      /\ b[L] + k <= 2 * Len(ts)
  BY <1>4 DEF Reading
<1>6. Lhs(p) # "input" /\ Lhs(p) \in Nonterminal
  BY <1>1, LeftSides
<1>7. ASSUME NEW i \in 1 .. n PROVE Rhs(p)[i] # "input" /\ Valued(Rhs(p)[i], v[i])
  <2>1. K + i \in 1 .. L /\ K + i \in 2 .. L /\ K + i # 1 /\ (K + i = 2 => L >= 2)
    BY <1>1, <1>2
  <2>2. SymbolAt(stack, K + i) # "input"
    BY <1>0, <2>1, InputIsSecond DEF HasInput
  <2>3. Valued(SymbolAt(stack, K + i), Value(stack[K + i]))
    BY <2>1 DEF IsWritten
  <2> QED
    BY <1>1, <2>2, <2>3
<1>8. HasTexts(p, v, N, n) /\ T[L] = T[K] \o Text(p, v) /\ Text(p, v) \in Seq(N)
  <2>1. \A i \in 1 .. n : SymbolAt(stack, K + i) = Rhs(p)[i] /\ Rhs(p)[i] # "input"
    BY <1>1, <1>7
  <2>2. HasTexts(p, v, N, n) /\ T[K + n] = T[K] \o Text(p, v) /\ Text(p, v) \in Seq(N)
    <3> HIDE DEF K
    <3> QED
      <4>1. HasParts(stack, m, N, T, p, n, K, v)
        BY <1>0, <1>1, <1>2, <1>5, <2>1 DEF HasParts, K
      <4> QED
        BY ONLY <4>1, TextsRead
  <2> QED
    BY ONLY <1>2, <2>2, Zenon
<1>9. Reads(p, v, N, Len(Rhs(p)))
  BY <1>0, <1>7, <1>8 DEF Reads
<1>10. Rewrites(p, v) \/ Builds(p, v)
  BY <1>0, <1>1, <1>9, ProductionIsRead
<1>11. /\ StackTexts(below, m, N, T) /\ Credits(below, b)
       /\ \A i \in 2 .. Len(below) : Valued(SymbolAt(below, i), Value(below[i]))
  <2>1. StackTexts(below, m, N, T) /\ Credits(below, b)
    BY <1>1, <1>2, <1>5, TextsBelow
  <2>2. ASSUME NEW i \in 2 .. Len(below) PROVE Valued(SymbolAt(below, i), Value(below[i]))
    <3>1. i \in 2 .. L /\ i \in 1 .. K
      BY <1>1, <1>2
    <3>2. Valued(SymbolAt(stack, i), Value(stack[i]))
      BY <3>1 DEF IsWritten
    <3> QED
      BY <1>1, <3>1, <3>2 DEF SymbolAt
  <2> QED
    BY <2>1, <2>2
<1>12. /\ b[K] \in Nat /\ b[L] \in Nat /\ b[L] >= b[K] /\ T[K] \in Seq(N)
       /\ \A i \in 1 .. n : b[L] >= b[K] + Weight(Rhs(p)[i])
  <2>1. ASSUME NEW i \in 1 .. n PROVE b[L] >= b[K] + Weight(Rhs(p)[i])
    <3>1. K + i \in 2 .. L /\ K < K + i
      BY <1>1, <1>2
    <3>2. b[L] >= b[K] + Weight(SymbolAt(stack, K + i))
      BY <1>1, <1>2, <1>5, <3>1, CreditsGrow
    <3> QED
      BY <1>1, <3>2
  <2>2. b[K] \in Nat /\ b[L] \in Nat /\ b[L] >= b[K]
    BY <1>1, <1>2, <1>5, CreditsGrow
  <2>3. T[K] \in Seq(N)
    BY <1>1, <1>2, <1>5, TextsType
  <2> QED
    BY <2>1, <2>2, <2>3
<1> HIDE DEF L, K
<1>13. PieceAt(other, m, K + 1) = SymbolText(Lhs(p), x)
  BY <1>1, <1>6 DEF PieceAt
<1>14. PICK len \in Nat : len = Len(ts)
  BY <1>5, LenProperties
<1>15. Len(stack) = L
  BY DEF L
<1>16. CASE Rewrites(p, v)
  <2>1. /\ Weight(Lhs(p)) = 0 /\ Valued(Lhs(p), x) /\ SymbolText(Lhs(p), x) = Text(p, v)
    BY <1>x, <1>16 DEF Rewrites
  <2>2. PieceAt(other, m, K + 1) = Text(p, v) /\ PieceAt(other, m, K + 1) \in Seq(N)
    BY <1>8, <1>13, <2>1
  <2>3. OneMore(below, m, N, T, b, other, m, N, b[L])
    <3>1. Weight(SymbolAt(other, Len(below) + 1)) = 0
      BY <1>1, <2>1
    <3>2. b[L] \in Nat /\ b[L] >= b[Len(below)] + Weight(SymbolAt(other, Len(below) + 1))
      BY ONLY <1>1, <1>12, <3>1
    <3> QED
      BY <1>1, <1>2, <1>11, <2>2, <3>2 DEF OneMore
  <2>4. Unfolded(T[Len(below)] \o PieceAt(other, m, Len(below) + 1), k) = ts
    BY ONLY <1>1, <1>5, <1>8, <2>2, Zenon
  <2>5. b[L] + k <= 2 * Len(ts) + (IF HasInput(other) THEN 1 ELSE 0)
    BY ONLY <1>5, <1>12, <1>14
  <2>6. Valued(SymbolAt(other, Len(below) + 1), Value(other[Len(below) + 1]))
    BY <1>1, <2>1
  <2> QED
    BY ONLY <1>5, <1>11, <2>3, <2>4, <2>5, <2>6, WrittenWith, Zenon
<1>17. CASE Builds(p, v)
  <2>1. /\ Valued(Lhs(p), x) /\ SymbolText(Lhs(p), x) = <<x>> /\ Unfold(x) = Text(p, v)
    BY <1>x, <1>17 DEF Builds
  <2>2. PICK NN : NN = N \cup {x}
    OBVIOUS
  <2>3. /\ Closed(NN) /\ N \subseteq NN /\ x \in NN /\ ts \in Seq(NN) /\ T[K] \in Seq(NN)
    <3>1. Unfold(x) \in Seq(NN)
      BY <1>8, <2>1, <2>2, SeqMonotonic
    <3>2. ts \in Seq(NN) /\ T[K] \in Seq(NN)
      BY <1>5, <1>12, <2>2, SeqMonotonic
    <3> QED
      BY <1>5, <2>2, <3>1, <3>2, ClosedGrows
  <2>4. PieceAt(other, m, K + 1) = <<x>> /\ <<x>> \in Seq(NN)
    BY <1>13, <2>1, <2>3, OneInSeq
  <2>5. PICK c : c = b[L] - 1
    OBVIOUS
  <2>6. c \in Nat /\ c >= b[K] + Weight(Lhs(p))
    <3>1. PICK j \in 1 .. n : Weight(Rhs(p)[j]) >= 1 + Weight(Lhs(p))
      BY <1>0, <1>17 DEF Builds
    <3>2. b[L] >= b[K] + Weight(Rhs(p)[j])
      BY <1>12, <3>1
    <3>3. Weight(Rhs(p)[j]) \in Nat /\ Weight(Lhs(p)) \in Nat
      <4>1. Weight(Rhs(p)[j]) \in 0 .. 2 /\ Weight(Lhs(p)) \in 0 .. 2
        BY ONLY WeightType
      <4> QED
        BY ONLY <4>1
    <3> QED
      BY ONLY <1>12, <2>5, <3>1, <3>2, <3>3
  <2>7. OneMore(below, m, N, T, b, other, m, NN, c)
    BY <1>1, <1>2, <1>11, <1>12, <2>3, <2>4, <2>6 DEF OneMore
  <2>8. Unfolded(T[Len(below)] \o PieceAt(other, m, Len(below) + 1), k + 1) = ts
    <3>1. Unfolded(T[K] \o Unfold(x), k) = ts
      BY ONLY <1>5, <1>8, <2>1, Zenon
    <3>2. Unfolded(T[K] \o <<x>>, k + 1) = ts
      BY ONLY <1>5, <2>3, <3>1, NodeIsWritten
    <3> QED
      BY ONLY <1>1, <2>4, <3>2, Zenon
  <2>9. c + (k + 1) <= 2 * Len(ts) + (IF HasInput(other) THEN 1 ELSE 0)
    BY ONLY <1>5, <1>12, <1>14, <2>5
  <2>10. Valued(SymbolAt(other, Len(below) + 1), Value(other[Len(below) + 1]))
    BY <1>1, <2>1
  <2>11. k + 1 \in Nat
    BY <1>5
  <2> QED
    BY ONLY <1>5, <1>11, <2>3, <2>7, <2>8, <2>9, <2>10, <2>11, WrittenWith, Zenon
<1> QED
  BY <1>10, <1>16, <1>17

\* After the reduction that hands over the module.
LEMMA WrittenInput ==
  ASSUME NEW stack, NEW m, NEW ts, IsWritten(stack, m, ts), ~HasInput(stack),
         NEW n, NEW below, NEW v, NEW x, NEW other,
         Reduces(stack, 2, n, below, x, other),
         \A i \in 1 .. n : v[i] = Value(stack[(Len(stack) - n) + i])
  PROVE  IsWritten(other, ModuleOf(v[1]), ts) /\ HasInput(other)
<1> DEFINE L == Len(stack)
           K == Len(stack) - n
<1>0. Path(stack) /\ n = Len(Rhs(2))
  BY DEF Reduces
<1>01. PICK mm : mm = ModuleOf(v[1])
  OBVIOUS
<1>1. /\ n \in Nat /\ L \in Nat /\ n < L
      /\ Len(below) = K
      /\ \A i \in 1 .. K : below[i] = stack[i] /\ other[i] = stack[i]
      /\ Path(other) /\ Len(other) = K + 1
      /\ SymbolAt(other, K + 1) = Lhs(2)
      /\ \A i \in 1 .. n : SymbolAt(stack, K + i) = Rhs(2)[i]
  BY Reduction
<1>2. Lhs(2) = "input" /\ n = 1 /\ Rhs(2)[1] # "input"
  BY <1>0, GroupRules DEF IsRule
<1>3. K = 1 /\ L = 2
  <2>1. K + 1 \in 1 .. Len(other) /\ K + 1 # 1
    BY <1>1
  <2>2. K + 1 = 2
    BY <1>1, <1>2, <2>1, InputIsSecond
  <2> QED
    BY <1>1, <1>2, <2>2
<1>4. PICK N, T, b : \E k : Reading(stack, m, ts, N, T, b, k)
  BY DEF IsWritten
<1>5. PICK k : Reading(stack, m, ts, N, T, b, k)
  BY <1>4
<1>6. /\ Closed(N) /\ StackTexts(stack, m, N, T) /\ Credits(stack, b)
      /\ ts \in Seq(N) /\ Plain(ts) /\ Unfolded(T[L], k) = ts /\ k \in Nat
      /\ b[L] + k <= 2 * Len(ts)
  BY <1>5 DEF Reading
<1>7. HasTexts(2, v, N, n) /\ T[L] = T[K] \o Text(2, v) /\ Text(2, v) \in Seq(N)
  <2>1. HasParts(stack, m, N, T, 2, n, K, v)
    <3>1. \A i \in 1 .. n : SymbolAt(stack, K + i) = Rhs(2)[i] /\ Rhs(2)[i] # "input"
      BY <1>1, <1>2
    <3>2. \A i \in 1 .. n : v[i] = Value(stack[K + i])
      OBVIOUS
    <3>3. K \in Nat /\ K >= 1 /\ K + n = Len(stack)
      BY <1>1, <1>3
    <3> HIDE DEF K
    <3> QED
      BY ONLY <1>0, <1>1, <1>6, <3>1, <3>2, <3>3 DEF HasParts, L
  <2>2. HasTexts(2, v, N, n) /\ T[K + n] = T[K] \o Text(2, v) /\ Text(2, v) \in Seq(N)
    <3> HIDE DEF K
    <3> QED
      BY ONLY <2>1, TextsRead
  <2>3. K + n = L
    BY <1>1
  <2> QED
    BY ONLY <2>2, <2>3, Zenon
<1>8. Unfold(mm) = Text(2, v)
  BY <1>01, <1>2, <1>7, InputRead
<1>9. PICK NN : NN = N \cup {mm}
  OBVIOUS
<1>10. T[K] \in Seq(N) /\ b[K] \in Nat /\ b[L] \in Nat /\ b[L] >= b[K]
  <2>1. K \in 1 .. Len(stack) /\ L \in 1 .. Len(stack)
    BY <1>1, <1>3
  <2> QED
    BY <1>1, <1>6, <2>1, CreditsGrow, TextsType
<1>11. /\ Closed(NN) /\ N \subseteq NN /\ mm \in NN /\ ts \in Seq(NN) /\ T[K] \in Seq(NN)
  <2>1. Unfold(mm) \in Seq(NN)
    BY <1>7, <1>8, <1>9, SeqMonotonic
  <2>2. ts \in Seq(NN) /\ T[K] \in Seq(NN)
    BY <1>6, <1>9, <1>10, SeqMonotonic
  <2> QED
    BY <1>6, <1>9, <2>1, <2>2, ClosedGrows
<1>12. StackTexts(below, m, N, T) /\ Credits(below, b)
  <2>1. /\ Len(stack) \in Nat /\ Len(below) \in Nat /\ Len(below) <= Len(stack)
        /\ \A i \in 1 .. Len(below) : below[i] = stack[i]
    <3>1. Len(below) = 1 /\ Len(stack) = 2
      BY <1>1, <1>3
    <3>2. \A i \in 1 .. 1 : below[i] = stack[i]
      BY <1>1, <1>3
    <3> QED
      BY ONLY <3>1, <3>2
  <2> QED
    BY ONLY <1>6, <2>1, TextsBelow
<1> HIDE DEF L, K
<1>13. PieceAt(other, mm, K + 1) = <<mm>> /\ <<mm>> \in Seq(NN)
  BY <1>1, <1>2, <1>11, OneInSeq DEF PieceAt
<1>14. Weight("input") = 0
  BY DEF Weight
<1>15. OneMore(below, m, N, T, b, other, mm, NN, b[L])
  <2>1. /\ Len(below) \in Nat /\ Len(below) >= 1 /\ Len(other) = Len(below) + 1
        /\ \A i \in 1 .. Len(below) : other[i] = below[i]
        /\ mm = m \/ Len(below) = 1
    BY <1>1, <1>3
  <2>2. PieceAt(other, mm, Len(below) + 1) \in Seq(NN)
    BY <1>1, <1>13
  <2>3. Weight(SymbolAt(other, Len(below) + 1)) = 0
    BY <1>1, <1>2, <1>14
  <2>4. b[L] \in Nat /\ b[L] >= b[Len(below)] + Weight(SymbolAt(other, Len(below) + 1))
    BY ONLY <1>1, <1>10, <2>3
  <2> QED
    BY ONLY <1>11, <1>12, <2>1, <2>2, <2>4 DEF OneMore
<1>16. Unfolded(T[Len(below)] \o PieceAt(other, mm, Len(below) + 1), k + 1) = ts
  <2>1. Unfolded(T[K] \o Unfold(mm), k) = ts
    BY ONLY <1>6, <1>7, <1>8, Zenon
  <2>2. Unfolded(T[K] \o <<mm>>, k + 1) = ts
    BY ONLY <1>6, <1>11, <2>1, NodeIsWritten
  <2> QED
    BY ONLY <1>1, <1>13, <2>2, Zenon
<1>17. HasInput(other)
  BY <1>1, <1>2, <1>3 DEF HasInput
<1>18. b[L] + (k + 1) <= 2 * Len(ts) + (IF HasInput(other) THEN 1 ELSE 0)
  <2>1. PICK len \in Nat : len = Len(ts)
    BY <1>6, LenProperties
  <2> QED
    BY ONLY <1>6, <1>10, <1>17, <2>1
<1>19. Valued(SymbolAt(other, Len(below) + 1), Value(other[Len(below) + 1]))
  BY <1>1, <1>2 DEF Valued, SeparatedLists
<1>20. \A i \in 2 .. Len(below) : Valued(SymbolAt(below, i), Value(below[i]))
  BY <1>1, <1>3
<1>21. k + 1 \in Nat
  BY <1>6
<1>22. IsWritten(other, mm, ts)
  BY ONLY <1>6, <1>11, <1>15, <1>16, <1>18, <1>19, <1>20, <1>21, WrittenWith, Zenon
<1> QED
  BY <1>01, <1>17, <1>22

-----------------------------------------------------------------------------
(* What the stack spells.                                                  *)

\* The text of the symbols above the initial state.
StackPieces(stack, m) == [i \in 1 .. Len(stack) - 1 |-> PieceAt(stack, m, i + 1)]

\* What is on the stack is a text that spells the tokens it is written with.
LEMMA WrittenSpells ==
  ASSUME NEW stack, Path(stack), NEW m, NEW ts, IsWritten(stack, m, ts)
  PROVE  Spells(FlattenSeq(StackPieces(stack, m)), ts)
<1>1. PICK N, T, b : \E k : Reading(stack, m, ts, N, T, b, k)
  BY DEF IsWritten
<1>2. PICK k : Reading(stack, m, ts, N, T, b, k)
  BY <1>1
<1>3. PICK L \in Nat : L = Len(stack) /\ L >= 1
  BY PathType
<1>4. /\ StackTexts(stack, m, N, T) /\ Credits(stack, b)
      /\ ts \in Seq(N) /\ Unfolded(T[L], k) = ts /\ k \in Nat
      /\ b[L] + k <= 2 * Len(ts) + (IF HasInput(stack) THEN 1 ELSE 0)
  BY <1>2, <1>3 DEF Reading
<1>5. PICK n \in Nat : n = L - 1
  BY <1>3
<1>6. PICK t : t = [i \in 1 .. n |-> PieceAt(stack, m, i + 1)]
  OBVIOUS
<1>7. Following(N, T, t, 1, n)
  <2>1. T[1] \in Seq(N)
    BY <1>4 DEF StackTexts
  <2>2. ASSUME NEW i \in 1 .. n PROVE t[i] \in Seq(N) /\ T[1 + i] = T[(1 + i) - 1] \o t[i]
    <3>1. i + 1 \in 2 .. Len(stack) /\ 1 + i = i + 1 /\ (1 + i) - 1 = (i + 1) - 1
      BY <1>3, <1>5
    <3>2. /\ PieceAt(stack, m, i + 1) \in Seq(N)
          /\ T[i + 1] = T[(i + 1) - 1] \o PieceAt(stack, m, i + 1)
      BY <1>4, <3>1 DEF StackTexts
    <3>3. t[i] = PieceAt(stack, m, i + 1)
      BY <1>6
    <3> QED
      BY ONLY <3>1, <3>2, <3>3, Zenon
  <2>3. 1 \in Nat
    OBVIOUS
  <2> QED
    BY ONLY <2>1, <2>2, <2>3, n \in Nat DEF Following
<1>8. T[1 + n] = T[1] \o FirstTexts(t, n)
  BY ONLY <1>7, TextsFollow
<1>9. T[1] = <<>> /\ T[1 + n] = T[L] /\ T[L] \in Seq(N)
  <2>1. 1 + n = L /\ L \in 1 .. Len(stack)
    BY <1>3, <1>5
  <2>2. T[L] \in Seq(N)
    BY <1>3, <1>4, <2>1, TextsType
  <2> QED
    BY <1>4, <2>1, <2>2 DEF StackTexts
<1>10. FirstTexts(t, n) = FlattenSeq(StackPieces(stack, m))
  <2>1. [i \in 1 .. n |-> t[i]] = StackPieces(stack, m)
    BY <1>3, <1>5, <1>6 DEF StackPieces
  <2> QED
    BY ONLY <2>1, Zenon DEF FirstTexts
<1>11. FirstTexts(t, n) \in Seq(N)
  <2>1. n = 0 => FirstTexts(t, n) = <<>>
    BY NoText, Zenon
  <2>2. ASSUME n # 0 PROVE FirstTexts(t, n) \in Seq(N)
    BY <1>7, <2>2, FirstTextsType DEF Following
  <2>3. <<>> \in Seq(N)
    OBVIOUS
  <2> QED
    BY ONLY <2>1, <2>2, <2>3, Zenon
<1>12. T[L] = FlattenSeq(StackPieces(stack, m))
  <2>1. PICK a \in Seq(N) : a = FirstTexts(t, n)
    BY <1>11
  <2>2. <<>> \o a = a
    BY ONLY a \in Seq(N), ConcatEmptySeq
  <2> QED
    BY ONLY <1>8, <1>9, <1>10, <2>1, <2>2, Zenon
<1>13. k \in 0 .. 2 * Len(ts) + 1
  <2>1. PICK len \in Nat : len = Len(ts)
    BY <1>4, LenProperties
  <2>2. b[L] \in Nat
    BY <1>3, <1>4, CreditsGrow
  <2> QED
    BY ONLY <1>4, <2>1, <2>2
<1> QED
  BY ONLY <1>4, <1>12, <1>13 DEF Spells

\* Above an input alone.
LEMMA WrittenProgram ==
  ASSUME NEW stack, Path(stack), NEW m, NEW ts, IsWritten(stack, m, ts),
         HasInput(stack), Len(stack) = 2
  PROVE  Spells(<<m>>, ts)
<1>1. Spells(FlattenSeq(StackPieces(stack, m)), ts)
  BY WrittenSpells
<1>2. PICK t : t = StackPieces(stack, m)
  OBVIOUS
<1>3. t \in [1 .. 1 -> Seq({m})] /\ t[1] = <<m>>
  BY <1>2 DEF StackPieces, PieceAt, HasInput
<1>4. FlattenSeq(t) = <<m>>
  <2>1. FirstTexts(t, 1) = t[1]
    <3>1. \A i \in 1 .. 1 : t[i] \in Seq({m})
      BY <1>3
    <3>2. 1 \in Nat /\ 1 >= 1
      OBVIOUS
    <3> QED
      BY ONLY <3>1, <3>2, FewTexts
  <2>2. FirstTexts(t, 1) = FlattenSeq(t)
    <3>1. [i \in 1 .. 1 |-> t[i]] = t
      BY <1>3
    <3> QED
      BY ONLY <3>1, Zenon DEF FirstTexts
  <2> QED
    BY ONLY <1>3, <2>1, <2>2, Zenon
<1> QED
  BY ONLY <1>1, <1>2, <1>4, Zenon

-----------------------------------------------------------------------------
(* The tokens the parser has used.                                         *)

\* The elements before the last one.
LEMMA FrontOfAppend ==
  ASSUME NEW s, Listed(s), NEW x
  PROVE  SubSeq(Append(s, x), 1, Len(Append(s, x)) - 1) = s /\ Len(Append(s, x)) - 1 = Len(s)
<1>1. /\ Listed(Append(s, x)) /\ Len(s) \in Nat /\ Len(Append(s, x)) = Len(s) + 1
      /\ \A i \in 1 .. Len(s) : Append(s, x)[i] = s[i]
  BY ListedAppend
<1>2. PICK n \in Nat : n = Len(s)
  BY <1>1
<1>3. n \in 0 .. Len(Append(s, x)) /\ Len(Append(s, x)) - 1 = n
  BY <1>1, <1>2
<1>4. PICK f : f = SubSeq(Append(s, x), 1, n)
  OBVIOUS
<1>5. Listed(f) /\ Len(f) = n /\ \A i \in 1 .. n : f[i] = Append(s, x)[i]
  BY <1>1, <1>3, <1>4, ListedSubSeq
<1>6. f = s
  <2>1. f \in Seq(Range(f)) /\ s \in Seq(Range(s))
    BY <1>5 DEF Listed
  <2>2. f = [i \in 1 .. n |-> f[i]] /\ s = [i \in 1 .. n |-> s[i]]
    BY ONLY <1>2, <1>5, <2>1
  <2>3. \A i \in 1 .. n : f[i] = s[i]
    BY <1>1, <1>2, <1>5
  <2> QED
    BY ONLY <2>2, <2>3
<1> QED
  BY ONLY <1>2, <1>3, <1>4, <1>6

\* All but the last of the tokens.
LEMMA AllOfThem ==
  ASSUME NEW s, Listed(s)
  PROVE  SubSeq(s, 1, Len(s) - 0) = s
<1>1. Len(s) \in Nat /\ s \in Seq(Range(s))
  BY ListedAppend DEF Listed
<1>2. Len(s) - 0 = Len(s)
  BY <1>1
<1>3. SubSeq(s, 1, Len(s)) = s
  BY ONLY <1>1, SubSeqFull
<1> QED
  BY ONLY <1>2, <1>3, Zenon

\* The tokens of a text that grows by one.
LEMMA SpelledGrows ==
  ASSUME NEW s, Listed(s), NEW x
  PROVE  Spelled(Append(s, x)) = Append(Spelled(s), Token(x.kind, x.value))
<1> DEFINE t == Token(x.kind, x.value)
           l == Append(s, x)
           f == [i \in 1 .. Len(s) |-> Token(s[i].kind, s[i].value)]
           g == [i \in 1 .. Len(s) + 1 |-> Token(l[i].kind, l[i].value)]
<1>1. /\ Listed(l) /\ Len(s) \in Nat /\ Len(l) = Len(s) + 1
      /\ l[Len(s) + 1] = x /\ \A i \in 1 .. Len(s) : l[i] = s[i]
  BY ListedAppend
<1>2. DOMAIN s = 1 .. Len(s) /\ DOMAIN l = 1 .. Len(s) + 1
  BY <1>1 DEF Listed
<1> HIDE DEF l
<1>3. Spelled(s) = f /\ Spelled(l) = g
  BY <1>2 DEF Spelled
<1>4. PICK S : S = {Token(y.kind, y.value) : y \in Range(s)} \cup {t}
  OBVIOUS
<1>5. f \in Seq(S) /\ Len(f) = Len(s) /\ t \in S
  <2>1. \A i \in 1 .. Len(s) : s[i] \in Range(s)
    BY <1>2 DEF Range
  <2>2. \A i \in 1 .. Len(s) : Token(s[i].kind, s[i].value) \in S
    BY <1>4, <2>1
  <2> HIDE DEF t
  <2>3. f \in [1 .. Len(s) -> S]
    BY <2>2
  <2> HIDE DEF f
  <2> QED
    BY <1>1, <1>4, <2>3
<1>6. Append(f, t) = g
  <2>1. PICK a : a = Append(f, t)
    OBVIOUS
  <2>2. a \in Seq(S) /\ Len(a) = Len(s) + 1 /\ a[Len(s) + 1] = t
        /\ \A i \in 1 .. Len(s) : a[i] = f[i]
    <3> HIDE DEF f, t
    <3> QED
      BY ONLY <1>5, <2>1, AppendProperties
  <2>3. ASSUME NEW i \in 1 .. Len(s) + 1 PROVE a[i] = g[i]
    <3>1. CASE i = Len(s) + 1
      BY <1>1, <2>2, <3>1
    <3>2. CASE i # Len(s) + 1
      <4>1. i \in 1 .. Len(s)
        BY <1>1, <3>2
      <4> QED
        BY <1>1, <2>2, <4>1
    <3> QED
      BY <3>1, <3>2
  <2>4. a = [i \in 1 .. Len(s) + 1 |-> a[i]]
    BY ONLY <2>2
  <2> QED
    BY <2>1, <2>3, <2>4
<1> QED
  BY <1>3, <1>6 DEF l

\* A text that is accepted.
LEMMA WrittenEnds ==
  ASSUME NEW stack, Path(stack), NEW m, NEW ts, Listed(ts), NEW end,
         IsWritten(stack, m, Append(ts, end)), IsFinal(State(stack[Len(stack)]))
  PROVE  Spells(<<m>>, ts)
<1>1. Len(stack) = 3 /\ SymbolAt(stack, 2) = "input" /\ SymbolAt(stack, 3) = "END"
  BY FinalStack
<1>2. PICK N, T, b : \E k : Reading(stack, m, Append(ts, end), N, T, b, k)
  BY DEF IsWritten
<1>3. PICK k : Reading(stack, m, Append(ts, end), N, T, b, k)
  BY <1>2
<1>4. PICK all : all = Append(ts, end)
  OBVIOUS
<1>5. HasInput(stack)
  BY <1>1 DEF HasInput
<1>6. /\ Closed(N) /\ StackTexts(stack, m, N, T) /\ Credits(stack, b)
      /\ all \in Seq(N) /\ Unfolded(T[3], k) = all /\ k \in Nat
      /\ b[3] + k <= 2 * Len(all) + 1
  BY <1>1, <1>3, <1>4, <1>5 DEF Reading
<1>7. PICK t : t = Token("END", Value(stack[3]))
  OBVIOUS
<1>8. SymbolText("END", Value(stack[3])) = <<t>> /\ Unfold(t) = <<t>>
  <2>1. "END" \in Terminal
    <3>1. Len(Rhs(1)) = 2 /\ Rhs(1)[2] = "END" /\ 1 \in DOMAIN Productions
      BY GroupRules, ProductionsList DEF IsRule
    <3>2. 2 \in DOMAIN Rhs(1)
      BY <3>1, ProductionType
    <3> QED
      BY <3>1, <3>2, LeftSides DEF Terminal, Symbol
  <2> QED
    BY <1>7, <2>1, TokenIsItself
<1>9. /\ T[1] = <<>>
      /\ \A i \in {2, 3} : PieceAt(stack, m, i) \in Seq(N) /\ T[i] = T[i - 1] \o PieceAt(stack, m, i)
  BY <1>1, <1>6 DEF StackTexts
<1>10. PieceAt(stack, m, 2) = <<m>> /\ PieceAt(stack, m, 3) = <<t>>
  BY <1>1, <1>8 DEF PieceAt
<1>11. PICK p \in Seq(N) : p = <<m>>
  BY <1>9, <1>10
<1>12. <<t>> \in Seq(N) /\ t \in N
  <2>1. <<t>> \in Seq(N)
    BY <1>9, <1>10
  <2>2. <<t>>[1] \in N
    BY ONLY <2>1
  <2> QED
    BY <2>1, <2>2
<1>13. T[2] = p /\ T[3] = p \o <<t>>
  <2>1. T[2] = T[2 - 1] \o PieceAt(stack, m, 2) /\ T[3] = T[3 - 1] \o PieceAt(stack, m, 3)
    BY <1>9
  <2>2. 2 - 1 = 1 /\ 3 - 1 = 2
    OBVIOUS
  <2>3. <<>> \o p = p
    BY ONLY p \in Seq(N), ConcatEmptySeq
  <2> QED
    BY ONLY <1>9, <1>10, <1>11, <2>1, <2>2, <2>3, Zenon
<1>14. PICK a \in Seq(N) : a = Unfolded(p, k)
  BY <1>6, UnfoldedType
<1>15. all = Append(a, t)
  <2>1. Unfolded(p \o <<t>>, k) = Unfolded(p, k) \o <<t>>
    BY ONLY p \in Seq(N), <1>6, <1>8, <1>12, TokenIsWritten
  <2>2. a \o <<t>> = Append(a, t)
    BY ONLY a \in Seq(N), <1>12, AppendIsConcat
  <2> QED
    BY ONLY <1>6, <1>13, <1>14, <2>1, <2>2, Zenon
<1>16. a = ts
  <2>1. Listed(a)
    BY ListedSeq
  <2>2. SubSeq(all, 1, Len(all) - 1) = a
    BY ONLY <1>15, <2>1, FrontOfAppend
  <2>3. SubSeq(all, 1, Len(all) - 1) = ts
    BY ONLY <1>4, Listed(ts), FrontOfAppend
  <2> QED
    BY ONLY <2>2, <2>3, Zenon
<1>17. k \in 0 .. 2 * Len(ts) + 1
  <2>1. PICK n \in Nat : n = Len(ts)
    BY ListedAppend
  <2>2. Len(all) = n + 1
    BY <1>4, <2>1, ListedAppend
  <2>3. b[3] >= b[1] + Weight("END") /\ b[1] = 0 /\ b[3] \in Nat
    <3>1. 1 \in 1 .. Len(stack) /\ 3 \in 2 .. Len(stack) /\ 3 \in 1 .. Len(stack) /\ 1 < 3 /\ Len(stack) \in Nat
      BY <1>1
    <3>2. b[Len(stack)] >= b[1] + Weight(SymbolAt(stack, 3)) /\ b[3] \in Nat
      BY <1>6, <3>1, CreditsGrow
    <3> QED
      BY <1>1, <1>6, <3>2 DEF Credits
  <2>4. Weight("END") = 2
    BY DEF Weight
  <2> QED
    BY ONLY <1>6, <2>1, <2>2, <2>3, <2>4
<1>18. Unfolded(<<m>>, k) = ts
  BY ONLY <1>11, <1>14, <1>16, Zenon
<1> QED
  BY ONLY <1>17, <1>18 DEF Spells

-----------------------------------------------------------------------------
(* The parser and the driver.                                              *)

\* While parse() runs: its stack, the token it has read and not used, and what
\* was registered.  A token is read only if there is none and the text has not
\* ended.
RunningInv ==
  /\ Path(yystack)
  /\ yyla # Empty => \E used : Listed(used) /\ tokens = Append(used, yyla)
  /\ lexing => yyla = Empty /\ ~IsFinal(top)
  /\ IsFinal(top) => yyla = Empty
  /\ Len(errors) = before.errors

\* What is on the stack is written with the tokens used, and the module is that
\* of before until an input is on the stack.
TextInv ==
  /\ IsWritten(yystack, module, Spelled(Used))
  /\ HasInput(yystack) \/ module = before.module

\* The error of the last parse is about the last token read.
ErrorInv ==
  LET e == Last(errors)
  IN  /\ e.unexpected = Last(tokens).kind /\ e.at = Last(tokens).loc
      /\ e.unexpected \notin e.expected

\* After it has returned.
ReturnedInv ==
  /\ Len(errors) = before.errors + (IF result = -1 \/ (result = 1 /\ ~suppress) THEN 1 ELSE 0)
  /\ result = 1 /\ ~suppress => ErrorInv
  /\ ModuleIsTheText

\* The inductive invariant of the parser and its driver.
ParseInv ==
  /\ Listed(errors) /\ Listed(tokens)
  /\ result = Running => RunningInv /\ TextInv
  /\ result # Running => ReturnedInv

\* The tokens used.
LEMMA UsedTokens ==
  /\ yyla = Empty /\ Listed(tokens) => Used = tokens
  /\ \A used : Listed(used) /\ yyla # Empty /\ tokens = Append(used, yyla) =>
       Used = used /\ SubSeq(tokens, 1, Len(tokens) - 1) = used /\ Last(tokens) = yyla
<1>1. ASSUME yyla = Empty, Listed(tokens) PROVE Used = tokens
  <2>1. Used = SubSeq(tokens, 1, Len(tokens) - 0)
    BY <1>1, Zenon DEF Used
  <2> QED
    BY ONLY <1>1, <2>1, AllOfThem
<1>2. ASSUME NEW used, Listed(used), yyla # Empty, tokens = Append(used, yyla)
      PROVE  Used = used /\ SubSeq(tokens, 1, Len(tokens) - 1) = used /\ Last(tokens) = yyla
  <2>1. SubSeq(tokens, 1, Len(tokens) - 1) = used
    BY ONLY <1>2, FrontOfAppend
  <2>2. Used = SubSeq(tokens, 1, Len(tokens) - 1)
    BY <1>2, Zenon DEF Used
  <2>3. Last(tokens) = yyla
    BY ONLY <1>2, ListedAppend
  <2> QED
    BY <2>1, <2>2, <2>3
<1> QED
  BY <1>1, <1>2

\* The tokens used after a step.
LEMMA UsedTokensNext ==
  /\ yyla' = Empty /\ Listed(tokens') => Used' = tokens'
  /\ \A used : Listed(used) /\ yyla' # Empty /\ tokens' = Append(used, yyla') => Used' = used
<1>1. ASSUME yyla' = Empty, Listed(tokens') PROVE Used' = tokens'
  <2>1. Used' = SubSeq(tokens', 1, Len(tokens') - 0)
    BY <1>1, Zenon DEF Used
  <2> QED
    BY ONLY <1>1, <2>1, AllOfThem
<1>2. ASSUME NEW used, Listed(used), yyla' # Empty, tokens' = Append(used, yyla')
      PROVE  Used' = used
  <2>1. SubSeq(tokens', 1, Len(tokens') - 1) = used
    BY ONLY <1>2, FrontOfAppend
  <2>2. Used' = SubSeq(tokens', 1, Len(tokens') - 1)
    BY <1>2, Zenon DEF Used
  <2> QED
    BY <2>1, <2>2
<1> QED
  BY <1>1, <1>2

\* Before any text is parsed the invariant of the parser holds.
LEMMA ParseInvInit == Init => ParseInv
<1> SUFFICES ASSUME Init PROVE ParseInv
  OBVIOUS
<1>1. errors = <<>> /\ tokens = <<>> /\ result = 0 /\ before.errors = 0 /\ buffer = NoBuffer
  BY DEF Init, ScannerInit
<1>2. ReturnedInv
  BY <1>1, NothingListed DEF ReturnedInv, ModuleIsTheText, Returned
<1> QED
  BY <1>1, <1>2, NothingListed, RunningAssumption DEF ParseInv

\* What the parser sees of the other variables is the same.
LEMMA ParseInvStays ==
  ASSUME ParseInv,
         UNCHANGED <<yystack, yyla, tokens, errors, before, result, suppress, module>>,
         result = Running /\ lexing' => lexing \/ (yyla = Empty /\ ~IsFinal(top)),
         buffer' = buffer \/ buffer' = NoBuffer
  PROVE  ParseInv'
<1>1. UNCHANGED <<top, Used>>
  BY DEF top, Depth, Used
<1>2. ASSUME result = Running PROVE RunningInv' /\ TextInv'
  BY <1>1, <1>2 DEF ParseInv, RunningInv, TextInv
<1>3. ASSUME result # Running PROVE ReturnedInv'
  <2>1. ReturnedInv
    BY <1>3 DEF ParseInv
  <2>2. ErrorInv => ErrorInv'
    BY DEF ErrorInv
  <2>3. ModuleIsTheText => ModuleIsTheText'
    BY DEF ModuleIsTheText, Returned
  <2> QED
    BY <2>1, <2>2, <2>3 DEF ReturnedInv
<1> QED
  BY <1>2, <1>3 DEF ParseInv

\* It holds once parse() is called, whether or not the file can be opened,
LEMMA CallParserStep ==
  ASSUME ParseInv, CallParser
  PROVE  ParseInv'
<1>1. tokens' = <<>> /\ before'.errors = Len(errors) /\ before'.module = module
  <2>1. PICK input : Begin(input)
    BY DEF CallParser, parseFromFile, parseFromString
  <2> QED
    BY <2>1 DEF Begin
<1>2. Listed(errors) /\ Len(errors) \in Nat
  BY ListedAppend DEF ParseInv
<1>3. CASE Head(session).file = Unreadable
  <2>1. /\ result' = -1 /\ \E e : errors' = Append(errors, e)
        /\ buffer' = NoBuffer
    BY <1>3 DEF CallParser, parseFromFile, Idle
  <2>2. Listed(errors') /\ Len(errors') = Len(errors) + 1
    BY ONLY <1>2, <2>1, ListedAppend
  <2>3. ReturnedInv'
    BY <1>1, <1>2, <2>1, <2>2 DEF ReturnedInv, ModuleIsTheText, Returned
  <2> QED
    BY <1>1, <2>1, <2>2, <2>3, NothingListed, RunningAssumption DEF ParseInv
<1>4. CASE Head(session).file # Unreadable
  <2>1. /\ yystack' = push(<<>>, stack_symbol(InitialState, Empty))
        /\ yyla' = Empty /\ result' = Running /\ errors' = errors /\ module' = module
    BY <1>4 DEF CallParser, parseFromFile, parseFromString, Start
  <2>2. Path(yystack') /\ ~IsFinal(top')
    <3>1. PICK stack : stack = yystack'
      OBVIOUS
    <3>2. Path(stack)
      BY ONLY <2>1, <3>1, PathBegins
    <3>3. Len(stack) = 1
      BY <2>1, <3>1 DEF push
    <3>4. ~IsFinal(State(stack[Len(stack)]))
      BY <3>2, <3>3, FinalStack
    <3> QED
      BY <3>1, <3>2, <3>4 DEF top, Depth
  <2>3. RunningInv'
    BY <1>1, <2>1, <2>2 DEF RunningInv
  <2>4. TextInv'
    <3>1. Used' = <<>>
      BY <1>1, <2>1, NothingListed, UsedTokensNext
    <3>2. Spelled(<<>>) = <<>>
      BY DEF Spelled
    <3>3. IsWritten(yystack', module', <<>>)
      BY ONLY <2>1, WrittenBegins
    <3> QED
      BY <1>1, <2>1, <3>1, <3>2, <3>3 DEF TextInv
  <2> QED
    BY <1>1, <1>2, <2>1, <2>3, <2>4, NothingListed DEF ParseInv
<1> QED
  BY <1>3, <1>4

\* once the lexer is called,
LEMMA ReadTokenStep ==
  ASSUME ParseInv, ReadToken, tokens' = tokens, before' = before
  PROVE  ParseInv'
<1>1. /\ UNCHANGED <<yystack, yyla, errors, result, suppress, module, buffer>>
      /\ yyla = Empty /\ ~IsFinal(top)
  BY DEF ReadToken, CallLexer, parserVars, NeedsToken
<1> QED
  BY <1>1, ParseInvStays

\* once the lexer has matched a lexeme,
LEMMA ScanStep ==
  ASSUME ParseInv, result = Running, Scan, UNCHANGED parserVars, before' = before,
         tokens' = IF lexing /\ ~lexing' THEN Append(tokens, yyla') ELSE tokens
  PROVE  ParseInv'
<1>1. UNCHANGED <<yystack, result, suppress, errors, module>> /\ lexing
  BY DEF parserVars, Scan
<1>2. PICK lexeme : SkipLexeme(lexeme) \/ ReturnToken(lexeme) \/ ReturnEnd(lexeme)
  BY DEF Scan
<1>3. RunningInv /\ TextInv /\ Listed(errors) /\ Listed(tokens)
  BY DEF ParseInv
<1>4. yyla = Empty /\ ~IsFinal(top) /\ Used = tokens
  BY <1>1, <1>3, UsedTokens DEF RunningInv
<1>5. CASE SkipLexeme(lexeme)
  <2>1. UNCHANGED <<yyla, tokens, buffer, lexing>>
    BY <1>5 DEF SkipLexeme
  <2> QED
    BY <1>1, <2>1, ParseInvStays
<1>6. CASE ReturnToken(lexeme) \/ ReturnEnd(lexeme)
  <2>1. ~lexing' /\ yyla' # Empty
    <3>1. CASE ReturnToken(lexeme)
      <4>1. PICK value : yyla' = make(TokenOf(lexeme), value, loc')
        BY <3>1 DEF ReturnToken
      <4>2. TokenOf(lexeme) # "" /\ ~lexing'
        BY <3>1 DEF ReturnToken
      <4>3. yyla'.kind = TokenOf(lexeme) /\ Empty.kind = ""
        BY <4>1 DEF make, Empty
      <4> QED
        BY <4>2, <4>3
    <3>2. CASE ReturnEnd(lexeme)
      BY <3>2 DEF ReturnEnd, make, Empty
    <3> QED
      BY <1>6, <3>1, <3>2
  <2>2. tokens' = Append(tokens, yyla')
    BY <1>1, <2>1
  <2>3. Listed(tokens') /\ Used' = tokens
    BY <1>3, <2>1, <2>2, ListedAppend, UsedTokensNext
  <2>4. RunningInv'
    BY <1>1, <1>3, <1>4, <2>1, <2>2 DEF RunningInv, top, Depth
  <2>5. TextInv'
    BY <1>1, <1>3, <1>4, <2>3 DEF TextInv
  <2> QED
    BY <1>1, <1>3, <2>3, <2>4, <2>5 DEF ParseInv
<1> QED
  BY <1>2, <1>5, <1>6

\* after a shift,
LEMMA ShiftStep ==
  ASSUME ParseInv, Shift, tokens' = tokens, before' = before
  PROVE  ParseInv'
<1>1. result = Running /\ RunningInv /\ TextInv /\ Listed(errors) /\ Listed(tokens)
  BY DEF Shift, AtWork, ParseInv
<1>2. /\ yystack' = Pushed(yystack, yyla.kind, yyla.value)
      /\ yyla.kind \in Expected(State(yystack[Len(yystack)])) /\ yyla # Empty
      /\ yyla' = Empty /\ UNCHANGED <<result, suppress, errors, module, lexing>> /\ ~lexing
  BY DEF Shift, AtWork, top, Depth, Pushed
<1>3. PICK used : Listed(used) /\ tokens = Append(used, yyla) /\ Used = used
  BY <1>1, <1>2, UsedTokens DEF RunningInv
<1>4. yyla.kind \in Terminal /\ Goto(State(yystack[Len(yystack)]), yyla.kind) # {} /\ Path(yystack)
  BY <1>1, <1>2, ExpectedCanBeShifted DEF RunningInv
<1>5. Path(yystack')
  BY ONLY <1>2, <1>4, PathPushed
<1>6. Used' = tokens
  BY <1>1, <1>2, UsedTokensNext
<1>7. IsWritten(yystack', module, Spelled(tokens))
  <2>1. Spelled(tokens) = Append(Spelled(used), Token(yyla.kind, yyla.value))
    BY <1>3, SpelledGrows
  <2>2. IsWritten(yystack, module, Spelled(used))
    BY <1>1, <1>3 DEF TextInv
  <2>3. IsWritten(Pushed(yystack, yyla.kind, yyla.value), module,
                  Append(Spelled(used), Token(yyla.kind, yyla.value)))
    BY ONLY <1>4, <2>2, WrittenShifted
  <2> QED
    BY ONLY <1>2, <2>1, <2>3
<1>8. HasInput(yystack) => HasInput(yystack')
  <2>1. /\ Len(yystack) \in Nat /\ Len(yystack') = Len(yystack) + 1
        /\ \A i \in 1 .. Len(yystack) : yystack'[i] = yystack[i]
    <3>1. Len(yystack) \in Nat
      BY ONLY <1>4, PathType
    <3>2. Len(yystack') = Len(yystack) + 1
      BY ONLY <1>2, <1>4, PathPushed
    <3>3. \A i \in 1 .. Len(yystack) : yystack'[i] = yystack[i]
      BY ONLY <1>2, <1>4, PathPushed
    <3> QED
      BY <3>1, <3>2, <3>3
  <2>2. Len(yystack) >= 2 => 2 \in 1 .. Len(yystack) /\ Len(yystack) + 1 >= 2
    BY <2>1
  <2> QED
    BY <2>1, <2>2 DEF HasInput, SymbolAt
<1>9. RunningInv'
  BY <1>1, <1>2, <1>5 DEF RunningInv
<1>10. TextInv'
  BY <1>1, <1>2, <1>6, <1>7, <1>8 DEF TextInv
<1> QED
  BY <1>1, <1>2, <1>9, <1>10 DEF ParseInv

\* after a reduction, by whatever production is the default one,
LEMMA ReduceStep ==
  ASSUME ParseInv, Reduce, tokens' = tokens, before' = before
  PROVE  ParseInv'
<1>1. result = Running /\ RunningInv /\ TextInv /\ Listed(errors) /\ Listed(tokens) /\ ~lexing
  BY DEF Reduce, Defaults, AtWork, ParseInv
<1>2. /\ UNCHANGED <<yyla, lexing, result, suppress, errors>>
      /\ ~IsFinal(State(yystack[Len(yystack)]))
  BY DEF Reduce, Defaults, scannerVars, top, Depth
<1>3. PICK p \in {DefaultProduction} \ {NoProduction} :
        LET n      == Len(Rhs(p))
            popped == pop(yystack, n)
            values == [i \in 1 .. n |-> Value(yystack[Depth - n + i])]
            entered == Goto(State(popped[Len(popped)]), Lhs(p))
        IN  /\ yystack' = push(popped, stack_symbol(entered, Built(p, values)))
            /\ IF Lhs(p) = "input" THEN setModule(ModuleOf(values[1])) ELSE UNCHANGED module
  BY DEF Reduce
<1>4. p \in Complete(State(yystack[Len(yystack)]))
  BY <1>3, DefaultIsComplete DEF DefaultProduction, top, Depth
<1>5. p # 1
  BY <1>2, <1>4 DEF IsFinal
<1>6. PICK n : n = Len(Rhs(p))
  OBVIOUS
<1>7. PICK popped : popped = pop(yystack, n)
  OBVIOUS
<1>8. PICK v : v = [i \in 1 .. n |-> Value(yystack[Depth - n + i])]
  OBVIOUS
<1>9. yystack' = Pushed(popped, Lhs(p), Built(p, v))
  BY <1>3, <1>6, <1>7, <1>8 DEF Pushed
<1>10. Reduces(yystack, p, n, popped, Built(p, v), yystack')
  BY <1>1, <1>4, <1>5, <1>6, <1>7, <1>9 DEF Reduces, RunningInv
<1>11. /\ Path(yystack) /\ Path(yystack') /\ n \in Nat /\ p \in DOMAIN Productions
       /\ Len(yystack') \in Nat /\ SymbolAt(yystack', Len(yystack')) = Lhs(p)
  BY <1>1, <1>10, Reduction DEF RunningInv
<1>12. ~HasInput(yystack)
  <2> SUFFICES ASSUME HasInput(yystack) PROVE FALSE
    OBVIOUS
  <2>1. Len(yystack) \in Nat /\ Len(yystack) >= 2
    BY <1>11, PathType DEF HasInput
  <2>2. 2 \in 1 .. Len(yystack) /\ 2 # 1
    BY ONLY <2>1
  <2>3. Complete(State(yystack[Len(yystack)])) \subseteq {1}
    BY <1>11, <2>2, InputIsSecond DEF HasInput
  <2> QED
    BY <1>4, <1>5, <2>3
<1>13. ~IsFinal(State(yystack'[Len(yystack')]))
  <2> SUFFICES ASSUME IsFinal(State(yystack'[Len(yystack')])) PROVE FALSE
    OBVIOUS
  <2>1. SymbolAt(yystack', Len(yystack')) = "END"
    BY <1>11, FinalStack
  <2> QED
    BY <1>11, <2>1, LeftSides
<1>14. /\ Listed(v) /\ Len(v) = n
       /\ \A i \in 1 .. n : v[i] = Value(yystack[(Len(yystack) - n) + i])
  <2>1. \A i \in 1 .. n : v[i] = Value(yystack[(Len(yystack) - n) + i])
    BY <1>8 DEF Depth
  <2>2. v \in Seq({v[i] : i \in 1 .. n}) /\ Len(v) = n
    <3>1. v = [i \in 1 .. n |-> v[i]]
      BY <1>8
    <3>2. v \in [1 .. n -> {v[i] : i \in 1 .. n}]
      BY <3>1
    <3> QED
      BY <1>11, <3>2
  <2> QED
    BY <2>1, <2>2, ListedSeq
<1>15. Used' = Used
  BY <1>2 DEF Used
<1>16. IsWritten(yystack, module, Spelled(Used)) /\ module = before.module
  BY <1>1, <1>12 DEF TextInv
<1>17. ASSUME p = 2 PROVE TextInv'
  <2>1. module' = ModuleOf(v[1])
    BY <1>3, <1>6, <1>8, <1>17, LeftSides, <1>11 DEF setModule
  <2>2. IsWritten(yystack', ModuleOf(v[1]), Spelled(Used)) /\ HasInput(yystack')
    BY <1>10, <1>12, <1>14, <1>16, <1>17, WrittenInput
  <2>3. IsWritten(yystack', module', Spelled(Used'))
    BY <1>15, <2>1, <2>2
  <2> QED
    BY <2>2, <2>3 DEF TextInv
<1>18. ASSUME p # 2 PROVE TextInv'
  <2>1. module' = module
    BY <1>3, <1>11, <1>18, LeftSides
  <2>2. IsWritten(yystack', module, Spelled(Used))
    BY <1>10, <1>12, <1>14, <1>16, <1>18, WrittenReduced
  <2>3. IsWritten(yystack', module', Spelled(Used'))
    BY <1>15, <2>1, <2>2
  <2>4. module' = before'.module
    BY <1>16, <2>1
  <2> QED
    BY <2>3, <2>4 DEF TextInv
<1>19. TextInv'
  BY <1>17, <1>18
<1>20. RunningInv'
  BY <1>1, <1>2, <1>11, <1>13 DEF RunningInv, top, Depth
<1> QED
  BY <1>1, <1>2, <1>19, <1>20 DEF ParseInv

\* A text that ends is not empty.
LEMMA WrittenIsSomething ==
  ASSUME NEW stack, Path(stack), NEW m, NEW ts, IsWritten(stack, m, ts),
         IsFinal(State(stack[Len(stack)]))
  PROVE  Len(ts) # 0
<1>1. Len(stack) = 3 /\ SymbolAt(stack, 2) = "input" /\ SymbolAt(stack, 3) = "END"
  BY FinalStack
<1>2. PICK N, T, b : \E k : Reading(stack, m, ts, N, T, b, k)
  BY DEF IsWritten
<1>3. PICK k : Reading(stack, m, ts, N, T, b, k)
  BY <1>2
<1>4. HasInput(stack)
  BY <1>1 DEF HasInput
<1>5. Credits(stack, b) /\ k \in Nat /\ b[3] + k <= 2 * Len(ts) + 1
  BY <1>1, <1>3, <1>4 DEF Reading
<1>6. b[3] \in Nat /\ b[2] \in Nat /\ b[3] >= b[2] + Weight("END")
  <2>1. 2 \in 2 .. Len(stack) /\ 3 \in 2 .. Len(stack) /\ 3 - 1 = 2
    BY <1>1
  <2>2. b[3] >= b[3 - 1] + Weight(SymbolAt(stack, 3))
    BY <1>5, <2>1 DEF Credits
  <2>3. b[2] \in Nat /\ b[3] \in Nat
    BY <1>5, <2>1 DEF Credits
  <2> QED
    BY ONLY <1>1, <2>1, <2>2, <2>3
<1>7. Weight("END") = 2
  BY DEF Weight
<1>8. PICK c : c = Len(ts)
  OBVIOUS
<1>9. c # 0
  BY ONLY <1>5, <1>6, <1>7, <1>8
<1> QED
  BY ONLY <1>8, <1>9

\* when parse() gives up,
LEMMA SyntaxErrorStep ==
  ASSUME ParseInv, SyntaxError, tokens' = tokens, before' = before
  PROVE  ParseInv'
<1>1. result = Running /\ RunningInv /\ TextInv /\ Listed(errors) /\ Listed(tokens)
  BY DEF SyntaxError, Defaults, AtWork, ParseInv
<1>2. /\ result' = 1 /\ UNCHANGED <<suppress, module>>
      /\ errors' = IF suppress THEN errors ELSE Append(errors, yysyntax_error)
  BY DEF SyntaxError, Return, error
<1>3. yyla # Empty
  <2> SUFFICES ASSUME yyla = Empty PROVE FALSE
    OBVIOUS
  <2>1. IsConsistent(top)
    BY DEF SyntaxError, Defaults, NeedsToken
  <2>2. DefaultProduction \in Complete(State(yystack[Len(yystack)]))
    BY <2>1, DefaultIsComplete DEF DefaultProduction, top, Depth
  <2>3. DefaultProduction \in DOMAIN Productions
    BY <1>1, <2>2, CompleteIsOnTheStack DEF RunningInv
  <2> QED
    BY <2>3, ProductionType DEF SyntaxError
<1>4. PICK used : Listed(used) /\ tokens = Append(used, yyla)
  BY <1>1, <1>3 DEF RunningInv
<1>5. Used = used /\ SubSeq(tokens, 1, Len(tokens) - 1) = used /\ yyla = Last(tokens)
  BY <1>3, <1>4, UsedTokens
<1>6. yyla.kind \notin Expected(top)
  BY <1>3 DEF SyntaxError, Defaults
<1>7. /\ yysyntax_error.unexpected \notin yysyntax_error.expected
      /\ yysyntax_error.unexpected = Last(tokens).kind
      /\ yysyntax_error.at = Last(tokens).loc
  BY <1>5, <1>6 DEF yysyntax_error
<1>8. Spells(<<module>>, Spelled(used)) \/ module = before.module
  <2>1. CASE HasInput(yystack)
    <3>1. PICK n \in Nat : n = Len(yystack) /\ n >= 2
      BY <1>1, <2>1, PathType DEF RunningInv, HasInput
    <3>2. 2 \in 1 .. Len(yystack) /\ 2 # 1
      BY <3>1
    <3>3. Len(yystack) = 2 \/ IsFinal(State(yystack[Len(yystack)]))
      BY <1>1, <2>1, <3>2, InputIsSecond DEF RunningInv, HasInput
    <3>4. Len(yystack) = 2
      BY <3>3 DEF SyntaxError, Defaults, top, Depth
    <3> QED
      BY <1>1, <1>5, <2>1, <3>4, WrittenProgram DEF RunningInv, TextInv
  <2>2. CASE ~HasInput(yystack)
    BY <1>1, <2>2 DEF TextInv
  <2> QED
    BY <2>1, <2>2
<1>9. ModuleIsTheText'
  <2>1. SubSeq(tokens', 1, Len(tokens') - 1) = used
    BY <1>5
  <2>2. Spells(<<module'>>, Spelled(used)) \/ module' = before'.module
    BY <1>2, <1>8
  <2>3. result' # 0
    BY <1>2
  <2> QED
    BY <2>1, <2>2, <2>3 DEF ModuleIsTheText
<1>10. Len(errors) = before.errors
  BY <1>1 DEF RunningInv
<1>11. CASE suppress
  <2>1. Len(errors') = before'.errors + 0
    BY <1>1, <1>2, <1>10, <1>11, ListedAppend
  <2> QED
    BY <1>1, <1>2, <1>9, <1>11, <2>1, RunningAssumption DEF ParseInv, ReturnedInv
<1>12. CASE ~suppress
  <2>1. Listed(errors') /\ Len(errors') = Len(errors) + 1 /\ Last(errors') = yysyntax_error
    BY <1>1, <1>2, <1>12, ListedAppend
  <2>2. ErrorInv'
    BY <1>7, <2>1 DEF ErrorInv
  <2> QED
    BY <1>1, <1>2, <1>9, <1>10, <1>12, <2>1, <2>2, RunningAssumption DEF ParseInv, ReturnedInv
<1> QED
  BY <1>11, <1>12

\* and when it accepts.
LEMMA AcceptStep ==
  ASSUME ParseInv, Accept, tokens' = tokens, before' = before
  PROVE  ParseInv'
<1>1. /\ result = Running /\ RunningInv /\ TextInv /\ Listed(errors) /\ Listed(tokens)
      /\ IsFinal(top)
  BY DEF Accept, AtWork, ParseInv
<1>2. result' = 0 /\ UNCHANGED <<suppress, errors, module>>
  BY DEF Accept, Return
<1>3. Len(errors) \in Nat
  BY <1>1, ListedAppend
<1>4. Used = tokens
  BY <1>1, UsedTokens DEF RunningInv
<1>5. Path(yystack) /\ IsWritten(yystack, module, Spelled(tokens))
      /\ IsFinal(State(yystack[Len(yystack)]))
  BY <1>1, <1>4 DEF RunningInv, TextInv, top, Depth
<1>6. Len(tokens) # 0
  <2> SUFFICES ASSUME Len(tokens) = 0 PROVE FALSE
    OBVIOUS
  <2>1. tokens = <<>>
    <3>1. tokens \in Seq(Range(tokens))
      BY <1>1 DEF Listed
    <3> QED
      BY <3>1
  <2>2. Spelled(tokens) = <<>> /\ Len(<<>>) = 0
    BY <2>1 DEF Spelled
  <2> QED
    BY <1>5, <2>2, WrittenIsSomething
<1>7. PICK front : Listed(front) /\ front = SubSeq(tokens, 1, Len(tokens) - 1)
                   /\ tokens = Append(front, Last(tokens))
  BY <1>1, <1>6, AppendOfFront
<1>8. PICK end : Spelled(tokens) = Append(Spelled(front), end)
  BY <1>7, SpelledGrows
<1>9. Listed(Spelled(front))
  <2>1. PICK n \in Nat : n = Len(front) /\ DOMAIN front = 1 .. n
    <3>1. front \in Seq(Range(front))
      BY <1>7 DEF Listed
    <3> QED
      BY <3>1
  <2>2. PICK f : f = Spelled(front)
    OBVIOUS
  <2>3. f = [i \in 1 .. n |-> f[i]]
    BY <2>1, <2>2 DEF Spelled
  <2>4. f \in [1 .. n -> {f[i] : i \in 1 .. n}]
    BY <2>3
  <2>5. f \in Seq({f[i] : i \in 1 .. n})
    BY ONLY <2>4, n \in Nat
  <2> QED
    BY <2>2, <2>5, ListedSeq
<1>10. Spells(<<module>>, Spelled(front))
  BY <1>5, <1>8, <1>9, WrittenEnds
<1>11. ModuleIsTheText'
  <2>1. SubSeq(tokens', 1, Len(tokens') - 1) = front
    BY <1>7
  <2>2. Spells(<<module'>>, Spelled(front))
    BY <1>2, <1>10
  <2> QED
    BY <2>1, <2>2 DEF ModuleIsTheText
<1>12. Len(errors') = before'.errors + 0
  BY <1>1, <1>2, <1>3 DEF RunningInv
<1> QED
  BY <1>1, <1>2, <1>11, <1>12, RunningAssumption DEF ParseInv, ReturnedInv

\* Every step keeps the invariant of the parser.
LEMMA ParseInvStep ==
  ASSUME ParseInv, [Next]_vars
  PROVE  ParseInv'
<1>1. CASE CallParser
  BY <1>1, CallParserStep
<1>2. CASE ParseStep
  <2>1. before' = before /\ result = Running
        /\ tokens' = IF lexing /\ ~lexing' THEN Append(tokens, yyla') ELSE tokens
    BY <1>2 DEF ParseStep
  <2>2. CASE Scan /\ UNCHANGED parserVars
    BY <2>1, <2>2, ScanStep
  <2>3. ASSUME ~lexing PROVE tokens' = tokens
    BY <2>1, <2>3
  <2>4. CASE ReadToken
    BY <2>1, <2>3, <2>4, ReadTokenStep DEF ReadToken, AtWork
  <2>5. CASE Shift
    BY <2>1, <2>3, <2>5, ShiftStep DEF Shift, AtWork
  <2>6. CASE Reduce
    BY <2>1, <2>3, <2>6, ReduceStep DEF Reduce, Defaults, AtWork
  <2>7. CASE SyntaxError
    BY <2>1, <2>3, <2>7, SyntaxErrorStep DEF SyntaxError, Defaults, AtWork
  <2>8. CASE Accept
    BY <2>1, <2>3, <2>8, AcceptStep DEF Accept, AtWork
  <2> QED
    BY <1>2, <2>2, <2>4, <2>5, <2>6, <2>7, <2>8 DEF ParseStep, Parse
<1>3. CASE parseReturns
  <2>1. /\ UNCHANGED <<yystack, yyla, tokens, errors, before, result, suppress, module, lexing>>
        /\ buffer' = NoBuffer
    BY <1>3 DEF parseReturns, yylex_destroy, parserVars, frontVars
  <2> QED
    BY <2>1, ParseInvStays
<1>4. CASE WalkModule \/ VisitStep \/ Done \/ UNCHANGED vars
  <2>1. UNCHANGED <<yystack, yyla, tokens, errors, before, result, suppress, module, lexing, buffer>>
    BY <1>4 DEF WalkModule, VisitStep, Done, vars, scannerVars, parserVars, frontVars
  <2> QED
    BY <2>1, ParseInvStays
<1> QED
  BY <1>1, <1>2, <1>3, <1>4 DEF Next

\* The inductive invariant holds of any texts parsed one after the other.
THEOREM ParseInvariant == Spec => []ParseInv
BY ParseInvInit, ParseInvStep, PTL DEF Spec

\* Of any texts, parsed one after the other, a parse that fails registers one
\* error, which names the token it has read last; and errors are kept to oneself
\* only while they are suppressed.
THEOREM ErrorsReported == Spec => []ErrorsAreReportedOnce
<1>1. ParseInv => ErrorsAreReportedOnce
  BY DEF ParseInv, ReturnedInv, ErrorInv, ErrorsAreReportedOnce
<1> QED
  BY ParseInvariant, <1>1, PTL

\* Whatever the text, the values on the parser's stack spell the tokens it has
\* used: no semantic action of the 50 productions loses, repeats or reorders a
\* part of the text.
THEOREM StackSpells == Spec => []StackSpellsTheText
<1>1. ParseInv => StackSpellsTheText
  <2> SUFFICES ASSUME ParseInv, result = Running PROVE Spells(StackText, Spelled(Used))
    BY DEF StackSpellsTheText
  <2>1. Spells(FlattenSeq(StackPieces(yystack, module)), Spelled(Used))
    BY WrittenSpells DEF ParseInv, RunningInv, TextInv
  <2>2. StackText = FlattenSeq(StackPieces(yystack, module))
    BY DEF StackText, StackPieces, PieceAt, SymbolAt
  <2> QED
    BY <2>1, <2>2
<1> QED
  BY ParseInvariant, <1>1, PTL

\* Whatever the text, the module after a parse that succeeds is written with the
\* whole of it, and after one that fails it is the one of before or the program
\* the text was before the token in error.
THEOREM ModuleHasTheText == Spec => []ModuleIsTheText
<1>1. ParseInv => ModuleIsTheText
  <2>1. result = Running => ModuleIsTheText
    BY DEF ModuleIsTheText, Returned
  <2>2. ParseInv /\ result # Running => ModuleIsTheText
    BY DEF ParseInv, ReturnedInv
  <2> QED
    BY <2>1, <2>2
<1> QED
  BY ParseInvariant, <1>1, PTL

-----------------------------------------------------------------------------
(* The tree that the semantic actions build.                               *)

\* The nodes that a visitor meets, as the parser builds them.
LeafKinds == {"env", "global", "argument", "inference", "singular", "array", "computed"}

IsField(n)       == n.kind = "env"
IsGlobal(n)      == n.kind = "global"
IsArgument(n)    == n.kind = "argument"
IsAlternative(n) == n.kind \in {"singular", "array", "computed"}
IsTarget(n)      == n.kind = "target" /\ IsAlternative(n.alternative)
IsProposition(n) == n.kind = "proposition" /\ IsTarget(n.target)
IsEquality(n)    == n.kind = "equality" /\ IsTarget(n.lhs) /\ IsTarget(n.rhs)
IsInference(n)   == n.kind = "inference"
IsPremise(n)     == n.kind = "premise" /\ (IsInference(n.alternative) \/ IsEquality(n.alternative))

AllAre(nodes, Is(_)) == Listed(nodes) /\ \A i \in 1 .. Len(nodes) : Is(nodes[i])

IsDefn(n) ==
  /\ n.kind = "defn"
  /\ AllAre(n.globals, IsGlobal) /\ AllAre(n.arguments, IsArgument)
  /\ AllAre(n.premises, IsPremise) /\ IsProposition(n.proposition)
IsGroup(n)  == n.kind = "group" /\ AllAre(n.env, IsField) /\ AllAre(n.defns, IsDefn)
IsModule(n) == n.kind = "module" /\ AllAre(n.groups, IsGroup)

\* The value of a symbol is such a node,
IsA(symbol, n) ==
  CASE symbol = "environment_defn" -> IsField(n)
    [] symbol = "global_decl" -> IsGlobal(n)
    [] symbol = "inference_argument" -> IsArgument(n)
    [] symbol \in {"deduction_target_singular", "deduction_target_array",
                   "deduction_target_computed"} -> IsAlternative(n)
    [] symbol = "deduction_target" -> IsTarget(n)
    [] symbol = "proposition_defn" -> IsProposition(n)
    [] symbol = "premise_type_inference_defn" -> IsInference(n)
    [] symbol = "premise_type_equality_defn" -> IsEquality(n)
    [] symbol = "premise_defn" -> IsPremise(n)
    [] symbol = "inference_defn" -> IsDefn(n)
    [] symbol = "inference_group" -> IsGroup(n)
    [] OTHER -> TRUE

ElementOf(symbol) ==
  CASE symbol = "inference_group_list" -> "inference_group"
    [] symbol = "environment_defn_list" -> "environment_defn"
    [] symbol = "inference_defn_list" -> "inference_defn"
    [] symbol \in {"premise_defn_list", "premise_set"} -> "premise_defn"
    [] symbol \in {"global_decl_list", "global_decl_set"} -> "global_decl"
    [] symbol \in {"argument_list", "argument_set"} -> "inference_argument"

TreeLists == {"inference_group_list", "environment_defn_list", "inference_defn_list",
              "premise_defn_list", "premise_set", "global_decl_list", "global_decl_set",
              "argument_list", "argument_set"}

ListOf(symbol, v) == Listed(v) /\ \A i \in 1 .. Len(v) : IsA(symbol, v[i])

\* or a list of such nodes.
Shaped(symbol, v) ==
  IF symbol \in TreeLists THEN ListOf(ElementOf(symbol), v) ELSE IsA(symbol, v)

\* The values of the right-hand side of p.
ShapedParts(p, v, n) == Listed(v) /\ Len(v) = n /\ \A i \in 1 .. n : Shaped(Rhs(p)[i], v[i])

\* What the elements of lists are.
LEMMA ShapesOfLists ==
  /\ \A v : Shaped("inference_group_list", v) <=> AllAre(v, IsGroup)
  /\ \A v : Shaped("environment_defn_list", v) <=> AllAre(v, IsField)
  /\ \A v : Shaped("inference_defn_list", v) <=> AllAre(v, IsDefn)
  /\ \A v : Shaped("premise_set", v) <=> AllAre(v, IsPremise)
  /\ \A v : Shaped("global_decl_set", v) <=> AllAre(v, IsGlobal)
  /\ \A v : Shaped("argument_set", v) <=> AllAre(v, IsArgument)

<1>1. \A v : Shaped("inference_group_list", v) <=> AllAre(v, IsGroup)
  <2>1. ElementOf("inference_group_list") = "inference_group" /\ "inference_group_list" \in TreeLists
    BY DEF ElementOf, TreeLists
  <2>2. \A n : IsA("inference_group", n) <=> IsGroup(n)
    BY ONLY Zenon DEF IsA
  <2> QED
    BY ONLY <2>1, <2>2, Zenon DEF Shaped, ListOf, AllAre
<1>2. \A v : Shaped("environment_defn_list", v) <=> AllAre(v, IsField)
  <2>1. ElementOf("environment_defn_list") = "environment_defn" /\ "environment_defn_list" \in TreeLists
    BY DEF ElementOf, TreeLists
  <2>2. \A n : IsA("environment_defn", n) <=> IsField(n)
    BY ONLY Zenon DEF IsA
  <2> QED
    BY ONLY <2>1, <2>2, Zenon DEF Shaped, ListOf, AllAre
<1>3. \A v : Shaped("inference_defn_list", v) <=> AllAre(v, IsDefn)
  <2>1. ElementOf("inference_defn_list") = "inference_defn" /\ "inference_defn_list" \in TreeLists
    BY DEF ElementOf, TreeLists
  <2>2. \A n : IsA("inference_defn", n) <=> IsDefn(n)
    BY ONLY Zenon DEF IsA
  <2> QED
    BY ONLY <2>1, <2>2, Zenon DEF Shaped, ListOf, AllAre
<1>4. \A v : Shaped("premise_set", v) <=> AllAre(v, IsPremise)
  <2>1. ElementOf("premise_set") = "premise_defn" /\ "premise_set" \in TreeLists
    BY DEF ElementOf, TreeLists
  <2>2. \A n : IsA("premise_defn", n) <=> IsPremise(n)
    BY ONLY Zenon DEF IsA
  <2> QED
    BY ONLY <2>1, <2>2, Zenon DEF Shaped, ListOf, AllAre
<1>5. \A v : Shaped("global_decl_set", v) <=> AllAre(v, IsGlobal)
  <2>1. ElementOf("global_decl_set") = "global_decl" /\ "global_decl_set" \in TreeLists
    BY DEF ElementOf, TreeLists
  <2>2. \A n : IsA("global_decl", n) <=> IsGlobal(n)
    BY ONLY Zenon DEF IsA
  <2> QED
    BY ONLY <2>1, <2>2, Zenon DEF Shaped, ListOf, AllAre
<1>6. \A v : Shaped("argument_set", v) <=> AllAre(v, IsArgument)
  <2>1. ElementOf("argument_set") = "inference_argument" /\ "argument_set" \in TreeLists
    BY DEF ElementOf, TreeLists
  <2>2. \A n : IsA("inference_argument", n) <=> IsArgument(n)
    BY ONLY Zenon DEF IsA
  <2> QED
    BY ONLY <2>1, <2>2, Zenon DEF Shaped, ListOf, AllAre
<1> QED
  BY <1>1, <1>2, <1>3, <1>4, <1>5, <1>6

\* What the values of other symbols are.
LEMMA ShapesOfNodes ==
  /\ \A v : Shaped("deduction_target", v) <=> IsTarget(v)
  /\ \A v : Shaped("proposition_defn", v) <=> IsProposition(v)
  /\ \A v : Shaped("premise_type_inference_defn", v) <=> IsInference(v)
  /\ \A v : Shaped("premise_type_equality_defn", v) <=> IsEquality(v)
  /\ \A v : Shaped("premise_defn", v) <=> IsPremise(v)
  /\ \A v : Shaped("inference_defn", v) <=> IsDefn(v)
  /\ \A v : Shaped("inference_group", v) <=> IsGroup(v)
  /\ \A v : Shaped("environment_defn", v) <=> IsField(v)
  /\ \A v : Shaped("global_decl", v) <=> IsGlobal(v)
  /\ \A v : Shaped("inference_argument", v) <=> IsArgument(v)
  /\ \A v : Shaped("deduction_target_singular", v) <=> IsAlternative(v)
  /\ \A v : Shaped("deduction_target_array", v) <=> IsAlternative(v)
  /\ \A v : Shaped("deduction_target_computed", v) <=> IsAlternative(v)
<1>1. \A v : Shaped("deduction_target", v) <=> IsTarget(v)
  <2>1. "deduction_target" \notin TreeLists
    BY DEF TreeLists
  <2>2. \A n : IsA("deduction_target", n) <=> IsTarget(n)
    BY ONLY Zenon DEF IsA
  <2> QED
    BY ONLY <2>1, <2>2, Zenon DEF Shaped
<1>2. \A v : Shaped("proposition_defn", v) <=> IsProposition(v)
  <2>1. "proposition_defn" \notin TreeLists
    BY DEF TreeLists
  <2>2. \A n : IsA("proposition_defn", n) <=> IsProposition(n)
    BY ONLY Zenon DEF IsA
  <2> QED
    BY ONLY <2>1, <2>2, Zenon DEF Shaped
<1>3. \A v : Shaped("premise_type_inference_defn", v) <=> IsInference(v)
  <2>1. "premise_type_inference_defn" \notin TreeLists
    BY DEF TreeLists
  <2>2. \A n : IsA("premise_type_inference_defn", n) <=> IsInference(n)
    BY ONLY Zenon DEF IsA
  <2> QED
    BY ONLY <2>1, <2>2, Zenon DEF Shaped
<1>4. \A v : Shaped("premise_type_equality_defn", v) <=> IsEquality(v)
  <2>1. "premise_type_equality_defn" \notin TreeLists
    BY DEF TreeLists
  <2>2. \A n : IsA("premise_type_equality_defn", n) <=> IsEquality(n)
    BY ONLY Zenon DEF IsA
  <2> QED
    BY ONLY <2>1, <2>2, Zenon DEF Shaped
<1>5. \A v : Shaped("premise_defn", v) <=> IsPremise(v)
  <2>1. "premise_defn" \notin TreeLists
    BY DEF TreeLists
  <2>2. \A n : IsA("premise_defn", n) <=> IsPremise(n)
    BY ONLY Zenon DEF IsA
  <2> QED
    BY ONLY <2>1, <2>2, Zenon DEF Shaped
<1>6. \A v : Shaped("inference_defn", v) <=> IsDefn(v)
  <2>1. "inference_defn" \notin TreeLists
    BY DEF TreeLists
  <2>2. \A n : IsA("inference_defn", n) <=> IsDefn(n)
    BY ONLY Zenon DEF IsA
  <2> QED
    BY ONLY <2>1, <2>2, Zenon DEF Shaped
<1>7. \A v : Shaped("inference_group", v) <=> IsGroup(v)
  <2>1. "inference_group" \notin TreeLists
    BY DEF TreeLists
  <2>2. \A n : IsA("inference_group", n) <=> IsGroup(n)
    BY ONLY Zenon DEF IsA
  <2> QED
    BY ONLY <2>1, <2>2, Zenon DEF Shaped
<1>8. \A v : Shaped("environment_defn", v) <=> IsField(v)
  <2>1. "environment_defn" \notin TreeLists
    BY DEF TreeLists
  <2>2. \A n : IsA("environment_defn", n) <=> IsField(n)
    BY ONLY Zenon DEF IsA
  <2> QED
    BY ONLY <2>1, <2>2, Zenon DEF Shaped
<1>9. \A v : Shaped("global_decl", v) <=> IsGlobal(v)
  <2>1. "global_decl" \notin TreeLists
    BY DEF TreeLists
  <2>2. \A n : IsA("global_decl", n) <=> IsGlobal(n)
    BY ONLY Zenon DEF IsA
  <2> QED
    BY ONLY <2>1, <2>2, Zenon DEF Shaped
<1>10. \A v : Shaped("inference_argument", v) <=> IsArgument(v)
  <2>1. "inference_argument" \notin TreeLists
    BY DEF TreeLists
  <2>2. \A n : IsA("inference_argument", n) <=> IsArgument(n)
    BY ONLY Zenon DEF IsA
  <2> QED
    BY ONLY <2>1, <2>2, Zenon DEF Shaped
<1>11. \A v : Shaped("deduction_target_singular", v) <=> IsAlternative(v)
  <2>1. "deduction_target_singular" \notin TreeLists
    BY DEF TreeLists
  <2>2. \A n : IsA("deduction_target_singular", n) <=> IsAlternative(n)
    BY ONLY Zenon DEF IsA
  <2> QED
    BY ONLY <2>1, <2>2, Zenon DEF Shaped
<1>12. \A v : Shaped("deduction_target_array", v) <=> IsAlternative(v)
  <2>1. "deduction_target_array" \notin TreeLists
    BY DEF TreeLists
  <2>2. \A n : IsA("deduction_target_array", n) <=> IsAlternative(n)
    BY ONLY Zenon DEF IsA
  <2> QED
    BY ONLY <2>1, <2>2, Zenon DEF Shaped
<1>13. \A v : Shaped("deduction_target_computed", v) <=> IsAlternative(v)
  <2>1. "deduction_target_computed" \notin TreeLists
    BY DEF TreeLists
  <2>2. \A n : IsA("deduction_target_computed", n) <=> IsAlternative(n)
    BY ONLY Zenon DEF IsA
  <2> QED
    BY ONLY <2>1, <2>2, Zenon DEF Shaped
<1> QED
  BY <1>1, <1>2, <1>3, <1>4, <1>5, <1>6, <1>7, <1>8, <1>9, <1>10, <1>11, <1>12, <1>13

\* The productions that begin a list with nothing.
LEMMA EmptyShapes ==
  ASSUME NEW p \in {3, 6, 9, 23}, NEW v, ShapedParts(p, v, 0)
  PROVE  Shaped(Lhs(p), Built(p, v))
<1>1. /\ Lhs(p) \in {"inference_group_list", "environment_defn_list", "inference_defn_list",
                     "premise_defn_list"}
      /\ Len(v) = 0
  BY GroupRules, PremiseRules DEF IsRule, ShapedParts
<1>2. Lhs(p) \in Lists /\ Lhs(p) \in TreeLists
  BY ONLY <1>1 DEF Lists, TreeLists
<1>3. Built(p, v) = <<>>
  BY ONLY <1>1, <1>2, ListIsBuilt
<1>4. \A s : ListOf(s, <<>>)
  <2>1. \A i : ~(i \in 1 .. 0)
    OBVIOUS
  <2> QED
    BY ONLY <2>1, NothingListed, Zenon DEF ListOf
<1> QED
  BY ONLY <1>2, <1>3, <1>4, Zenon DEF Shaped

\* The productions that begin a list with an element.
LEMMA FirstShapes ==
  ASSUME NEW p \in {14, 19}, NEW v, ShapedParts(p, v, 1)
  PROVE  Shaped(Lhs(p), Built(p, v))
<1>1. /\ Lhs(p) \in {"global_decl_list", "argument_list"} /\ Len(v) = 1
      /\ Rhs(p)[1] = ElementOf(Lhs(p)) /\ Rhs(p)[1] \notin TreeLists
      /\ Shaped(Rhs(p)[1], v[1])
  <2>1. \/ Lhs(p) = "global_decl_list" /\ Rhs(p)[1] = "global_decl"
        \/ Lhs(p) = "argument_list" /\ Rhs(p)[1] = "inference_argument"
    BY RuleRules DEF IsRule
  <2>2. Len(v) = 1 /\ Shaped(Rhs(p)[1], v[1])
    <3>1. 1 \in 1 .. 1
      OBVIOUS
    <3> QED
      BY <3>1 DEF ShapedParts
  <2> QED
    BY ONLY <2>1, <2>2 DEF ElementOf, TreeLists
<1>2. Lhs(p) \in Lists /\ Lhs(p) \in TreeLists
  BY ONLY <1>1 DEF Lists, TreeLists
<1>3. Built(p, v) = <<v[1]>>
  BY ONLY <1>1, <1>2, ListIsBuilt
<1>4. IsA(ElementOf(Lhs(p)), v[1])
  BY ONLY <1>1, Zenon DEF Shaped
<1>5. ListOf(ElementOf(Lhs(p)), <<v[1]>>)
  <2>1. PICK l : l = <<v[1]>>
    OBVIOUS
  <2>2. Listed(l) /\ Len(l) = 1 /\ l[1] = v[1]
    BY ONLY <2>1, ListedOne
  <2>3. \A i \in 1 .. 1 : i = 1
    OBVIOUS
  <2> QED
    BY ONLY <1>4, <2>1, <2>2, <2>3, Zenon DEF ListOf
<1> QED
  BY ONLY <1>2, <1>3, <1>5, Zenon DEF Shaped

\* An element more in a list.
LEMMA ListShape ==
  ASSUME NEW s, NEW l, ListOf(s, l), NEW x, IsA(s, x)
  PROVE  ListOf(s, Append(l, x))
<1>1. PICK a : a = Append(l, x)
  OBVIOUS
<1>2. PICK n \in Nat : n = Len(l)
  BY ListedAppend DEF ListOf
<1>3. /\ Listed(a) /\ Len(a) = n + 1 /\ a[n + 1] = x /\ \A i \in 1 .. n : a[i] = l[i]
  BY <1>1, <1>2, ListedAppend DEF ListOf
<1>4. ASSUME NEW i \in 1 .. n + 1 PROVE IsA(s, a[i])
  <2>1. i = n + 1 \/ i \in 1 .. n
    OBVIOUS
  <2>2. i \in 1 .. n => IsA(s, l[i])
    BY <1>2 DEF ListOf
  <2> QED
    BY ONLY <1>3, <2>1, <2>2, IsA(s, x), Zenon
<1> QED
  BY ONLY <1>1, <1>3, <1>4, Zenon DEF ListOf

\* The productions that put one element more behind a list.
LEMMA LongerShapes ==
  ASSUME NEW p \in {4, 7, 10, 24, 15, 20}, NEW v, ShapedParts(p, v, Len(Rhs(p)))
  PROVE  Shaped(Lhs(p), Built(p, v))
<1>1. PICK n \in {2, 3} :
        /\ Len(Rhs(p)) = n
        /\ Lhs(p) \in {"inference_group_list", "environment_defn_list", "inference_defn_list",
                       "premise_defn_list", "global_decl_list", "argument_list"}
        /\ Rhs(p)[1] = Lhs(p) /\ Rhs(p)[n] = ElementOf(Lhs(p)) /\ Rhs(p)[n] \notin TreeLists
  <2>1. \/ Lhs(p) = "inference_group_list" /\ Rhs(p) = <<"inference_group_list", "inference_group">>
        \/ Lhs(p) = "environment_defn_list" /\ Rhs(p) = <<"environment_defn_list", "environment_defn">>
        \/ Lhs(p) = "inference_defn_list" /\ Rhs(p) = <<"inference_defn_list", "inference_defn">>
        \/ Lhs(p) = "premise_defn_list" /\ Rhs(p) = <<"premise_defn_list", "premise_defn">>
        \/ Lhs(p) = "global_decl_list" /\ Rhs(p) = <<"global_decl_list", "COMMA", "global_decl">>
        \/ Lhs(p) = "argument_list" /\ Rhs(p) = <<"argument_list", "COMMA", "inference_argument">>
    <3>1. CASE p = 4
      BY ONLY <3>1, GroupRules DEF IsRule
    <3>2. CASE p = 7
      BY ONLY <3>2, GroupRules DEF IsRule
    <3>3. CASE p = 10
      BY ONLY <3>3, GroupRules DEF IsRule
    <3>4. CASE p = 24
      BY ONLY <3>4, PremiseRules DEF IsRule
    <3>5. CASE p = 15
      BY ONLY <3>5, RuleRules DEF IsRule
    <3>6. CASE p = 20
      BY ONLY <3>6, RuleRules DEF IsRule
    <3> QED
      BY <3>1, <3>2, <3>3, <3>4, <3>5, <3>6
  <2>2. \/ /\ Len(Rhs(p)) = 2 /\ Rhs(p)[1] = Lhs(p)
           /\ \/ Lhs(p) = "inference_group_list" /\ Rhs(p)[2] = "inference_group"
              \/ Lhs(p) = "environment_defn_list" /\ Rhs(p)[2] = "environment_defn"
              \/ Lhs(p) = "inference_defn_list" /\ Rhs(p)[2] = "inference_defn"
              \/ Lhs(p) = "premise_defn_list" /\ Rhs(p)[2] = "premise_defn"
        \/ /\ Len(Rhs(p)) = 3 /\ Rhs(p)[1] = Lhs(p)
           /\ \/ Lhs(p) = "global_decl_list" /\ Rhs(p)[3] = "global_decl"
              \/ Lhs(p) = "argument_list" /\ Rhs(p)[3] = "inference_argument"
    BY ONLY <2>1
  <2> QED
    BY ONLY <2>2 DEF ElementOf, TreeLists
<1>2. Lhs(p) \in Lists /\ Lhs(p) \in TreeLists
  BY ONLY <1>1 DEF Lists, TreeLists
<1>3. Len(v) = n /\ Shaped(Rhs(p)[1], v[1]) /\ Shaped(Rhs(p)[n], v[n])
  <2>1. 1 \in 1 .. n /\ n \in 1 .. n
    OBVIOUS
  <2> QED
    BY <1>1, <2>1 DEF ShapedParts
<1>4. Built(p, v) = Append(v[1], v[n])
  <2>1. n = 2 \/ n = 3
    OBVIOUS
  <2> QED
    BY ONLY <1>2, <1>3, <2>1, ListIsBuilt
<1>5. ListOf(ElementOf(Lhs(p)), v[1]) /\ IsA(ElementOf(Lhs(p)), v[n])
  BY ONLY <1>1, <1>2, <1>3, Zenon DEF Shaped
<1>6. ListOf(ElementOf(Lhs(p)), Append(v[1], v[n]))
  BY ONLY <1>5, ListShape
<1> QED
  BY ONLY <1>2, <1>4, <1>6, Zenon DEF Shaped

\* a group,
LEMMA GroupShape ==
  ASSUME NEW v, ShapedParts(5, v, 6)
  PROVE  Shaped(Lhs(5), Built(5, v))
<1>1. Lhs(5) = "inference_group" /\ Len(v) = 6
      /\ Rhs(5)[4] = "environment_defn_list"
      /\ Rhs(5)[5] = "inference_defn_list"
  BY GroupRules DEF IsRule, ShapedParts
<1>2. PICK n : n = Built(5, v)
  OBVIOUS
<1>3. n = [kind |-> "group", name |-> v[2], env |-> v[4], defns |-> v[5]]
  BY ONLY <1>1, <1>2, NodeIsBuilt DEF GroupValue
<1>4. n.kind = "group" /\ n.env = v[4] /\ n.defns = v[5]
  BY ONLY <1>3
<1>5. AllAre(v[4], IsField) /\ AllAre(v[5], IsDefn)
  <2>1. 4 \in 1 .. 6 /\ 5 \in 1 .. 6
    OBVIOUS
  <2>2. Shaped(Rhs(5)[4], v[4]) /\ Shaped(Rhs(5)[5], v[5])
    BY <2>1 DEF ShapedParts
  <2> QED
    BY ONLY <1>1, <2>2, ShapesOfLists, ShapesOfNodes, Zenon
<1>6. IsGroup(n)
  BY ONLY <1>4, <1>5, Zenon DEF IsGroup
<1> QED
  BY ONLY <1>1, <1>2, <1>6, ShapesOfNodes, Zenon

\* a definition of the environment,
LEMMA FieldShape ==
  ASSUME NEW v, ShapedParts(8, v, 4)
  PROVE  Shaped(Lhs(8), Built(8, v))
<1>1. Lhs(8) = "environment_defn" /\ Len(v) = 4
  BY GroupRules DEF IsRule, ShapedParts
<1>2. PICK n : n = Built(8, v)
  OBVIOUS
<1>3. n = [kind |-> "env", field |-> v[1], value |-> v[3]]
  BY ONLY <1>1, <1>2, NodeIsBuilt DEF GroupValue
<1>4. n.kind = "env"
  BY ONLY <1>3
<1>6. IsField(n)
  BY ONLY <1>4, Zenon DEF IsField
<1> QED
  BY ONLY <1>1, <1>2, <1>6, ShapesOfNodes, Zenon

\* an inference_defn,
LEMMA DefnShape ==
  ASSUME NEW v, ShapedParts(11, v, 8)
  PROVE  Shaped(Lhs(11), Built(11, v))
<1>1. Lhs(11) = "inference_defn" /\ Len(v) = 8
      /\ Rhs(11)[4] = "global_decl_set"
      /\ Rhs(11)[5] = "argument_set"
      /\ Rhs(11)[6] = "premise_set"
      /\ Rhs(11)[7] = "proposition_defn"
  BY RuleRules DEF IsRule, ShapedParts
<1>2. PICK n : n = Built(11, v)
  OBVIOUS
<1>3. n = [kind |-> "defn", name |-> v[2], globals |-> v[4], arguments |-> v[5],
          premises |-> v[6], proposition |-> v[7]]
  BY ONLY <1>1, <1>2, NodeIsBuilt DEF RuleValue
<1>4. n.kind = "defn" /\ n.globals = v[4] /\ n.arguments = v[5] /\ n.premises = v[6] /\ n.proposition = v[7]
  BY ONLY <1>3
<1>5. AllAre(v[4], IsGlobal) /\ AllAre(v[5], IsArgument) /\ AllAre(v[6], IsPremise) /\ IsProposition(v[7])
  <2>1. 4 \in 1 .. 8 /\ 5 \in 1 .. 8 /\ 6 \in 1 .. 8 /\ 7 \in 1 .. 8
    OBVIOUS
  <2>2. Shaped(Rhs(11)[4], v[4]) /\ Shaped(Rhs(11)[5], v[5]) /\ Shaped(Rhs(11)[6], v[6]) /\ Shaped(Rhs(11)[7], v[7])
    BY <2>1 DEF ShapedParts
  <2> QED
    BY ONLY <1>1, <2>2, ShapesOfLists, ShapesOfNodes, Zenon
<1>6. IsDefn(n)
  BY ONLY <1>4, <1>5, Zenon DEF IsDefn
<1> QED
  BY ONLY <1>1, <1>2, <1>6, ShapesOfNodes, Zenon

\* a global,
LEMMA GlobalShape ==
  ASSUME NEW v, ShapedParts(16, v, 1)
  PROVE  Shaped(Lhs(16), Built(16, v))
<1>1. Lhs(16) = "global_decl" /\ Len(v) = 1
  BY RuleRules DEF IsRule, ShapedParts
<1>2. PICK n : n = Built(16, v)
  OBVIOUS
<1>3. n = [kind |-> "global", name |-> v[1]]
  BY ONLY <1>1, <1>2, NodeIsBuilt DEF RuleValue
<1>4. n.kind = "global"
  BY ONLY <1>3
<1>6. IsGlobal(n)
  BY ONLY <1>4, Zenon DEF IsGlobal
<1> QED
  BY ONLY <1>1, <1>2, <1>6, ShapesOfNodes, Zenon

\* an argument,
LEMMA ArgumentShape ==
  ASSUME NEW v, ShapedParts(21, v, 3)
  PROVE  Shaped(Lhs(21), Built(21, v))
<1>1. Lhs(21) = "inference_argument" /\ Len(v) = 3
  BY RuleRules DEF IsRule, ShapedParts
<1>2. PICK n : n = Built(21, v)
  OBVIOUS
<1>3. n = [kind |-> "argument", name |-> v[1], type |-> v[3]]
  BY ONLY <1>1, <1>2, NodeIsBuilt DEF RuleValue
<1>4. n.kind = "argument"
  BY ONLY <1>3
<1>6. IsArgument(n)
  BY ONLY <1>4, Zenon DEF IsArgument
<1> QED
  BY ONLY <1>1, <1>2, <1>6, ShapesOfNodes, Zenon

\* a premise,
LEMMA InferencePremiseShape ==
  ASSUME NEW v, ShapedParts(25, v, 1)
  PROVE  Shaped(Lhs(25), Built(25, v))
<1>1. Lhs(25) = "premise_defn" /\ Len(v) = 1
      /\ Rhs(25)[1] = "premise_type_inference_defn"
  BY PremiseRules DEF IsRule, ShapedParts
<1>2. PICK n : n = Built(25, v)
  OBVIOUS
<1>3. n = [kind |-> "premise", alternative |-> v[1]]
  BY ONLY <1>1, <1>2, NodeIsBuilt DEF PremiseValue
<1>4. n.kind = "premise" /\ n.alternative = v[1]
  BY ONLY <1>3
<1>5. IsInference(v[1])
  <2>1. 1 \in 1 .. 1
    OBVIOUS
  <2>2. Shaped(Rhs(25)[1], v[1])
    BY <2>1 DEF ShapedParts
  <2> QED
    BY ONLY <1>1, <2>2, ShapesOfLists, ShapesOfNodes, Zenon
<1>6. IsPremise(n)
  BY ONLY <1>4, <1>5, Zenon DEF IsPremise
<1> QED
  BY ONLY <1>1, <1>2, <1>6, ShapesOfNodes, Zenon

\* a premise,
LEMMA EqualityPremiseShape ==
  ASSUME NEW v, ShapedParts(26, v, 1)
  PROVE  Shaped(Lhs(26), Built(26, v))
<1>1. Lhs(26) = "premise_defn" /\ Len(v) = 1
      /\ Rhs(26)[1] = "premise_type_equality_defn"
  BY PremiseRules DEF IsRule, ShapedParts
<1>2. PICK n : n = Built(26, v)
  OBVIOUS
<1>3. n = [kind |-> "premise", alternative |-> v[1]]
  BY ONLY <1>1, <1>2, NodeIsBuilt DEF PremiseValue
<1>4. n.kind = "premise" /\ n.alternative = v[1]
  BY ONLY <1>3
<1>5. IsEquality(v[1])
  <2>1. 1 \in 1 .. 1
    OBVIOUS
  <2>2. Shaped(Rhs(26)[1], v[1])
    BY <2>1 DEF ShapedParts
  <2> QED
    BY ONLY <1>1, <2>2, ShapesOfLists, ShapesOfNodes, Zenon
<1>6. IsPremise(n)
  BY ONLY <1>4, <1>5, Zenon DEF IsPremise
<1> QED
  BY ONLY <1>1, <1>2, <1>6, ShapesOfNodes, Zenon

\* a proposition,
LEMMA PropositionShape ==
  ASSUME NEW v, ShapedParts(33, v, 4)
  PROVE  Shaped(Lhs(33), Built(33, v))
<1>1. Lhs(33) = "proposition_defn" /\ Len(v) = 4
      /\ Rhs(33)[3] = "deduction_target"
  BY PremiseRules DEF IsRule, ShapedParts
<1>2. PICK n : n = Built(33, v)
  OBVIOUS
<1>3. n = [kind |-> "proposition", target |-> v[3]]
  BY ONLY <1>1, <1>2, NodeIsBuilt DEF PremiseValue
<1>4. n.kind = "proposition" /\ n.target = v[3]
  BY ONLY <1>3
<1>5. IsTarget(v[3])
  <2>1. 3 \in 1 .. 4
    OBVIOUS
  <2>2. Shaped(Rhs(33)[3], v[3])
    BY <2>1 DEF ShapedParts
  <2> QED
    BY ONLY <1>1, <2>2, ShapesOfLists, ShapesOfNodes, Zenon
<1>6. IsProposition(n)
  BY ONLY <1>4, <1>5, Zenon DEF IsProposition
<1> QED
  BY ONLY <1>1, <1>2, <1>6, ShapesOfNodes, Zenon

\* an inference premise,
LEMMA InferenceShape ==
  ASSUME NEW p \in {27, 28}, NEW v, ShapedParts(p, v, Len(Rhs(p)))
  PROVE  Shaped(Lhs(p), Built(p, v))
<1>1. Lhs(p) = "premise_type_inference_defn"
  BY PremiseRules DEF IsRule
<1>2. PICK n : n = Built(p, v)
  OBVIOUS
<1>3. n.kind = "inference"
  BY ONLY <1>1, <1>2, NodeIsBuilt DEF PremiseValue
<1> QED
  BY ONLY <1>1, <1>2, <1>3, ShapesOfNodes, Zenon DEF IsInference

\* an equality premise,
LEMMA EqualityShape ==
  ASSUME NEW p \in {30, 31}, NEW v, ShapedParts(p, v, Len(Rhs(p)))
  PROVE  Shaped(Lhs(p), Built(p, v))
<1>1. /\ Lhs(p) = "premise_type_equality_defn" /\ Len(Rhs(p)) \in 4 .. 5
      /\ Rhs(p)[1] = "deduction_target" /\ Rhs(p)[3] = "deduction_target"
  <2>1. CASE p = 30
    BY <2>1, PremiseRules DEF IsRule
  <2>2. CASE p = 31
    BY <2>2, PremiseRules DEF IsRule
  <2> QED
    BY <2>1, <2>2
<1>2. PICK n : n = Built(p, v)
  OBVIOUS
<1>3. n.kind = "equality" /\ n.lhs = v[1] /\ n.rhs = v[3]
  BY ONLY <1>1, <1>2, NodeIsBuilt DEF PremiseValue, Equality
<1>4. IsTarget(v[1]) /\ IsTarget(v[3])
  <2>1. 1 \in 1 .. Len(Rhs(p)) /\ 3 \in 1 .. Len(Rhs(p))
    BY <1>1
  <2>2. Shaped(Rhs(p)[1], v[1]) /\ Shaped(Rhs(p)[3], v[3])
    BY <2>1 DEF ShapedParts
  <2> QED
    BY ONLY <1>1, <2>2, ShapesOfNodes, Zenon
<1>5. IsEquality(n)
  BY ONLY <1>3, <1>4, Zenon DEF IsEquality
<1> QED
  BY ONLY <1>1, <1>2, <1>5, ShapesOfNodes, Zenon

\* a target,
LEMMA TargetShape ==
  ASSUME NEW p \in {39, 40, 41}, NEW v, ShapedParts(p, v, 1)
  PROVE  Shaped(Lhs(p), Built(p, v))
<1>1. /\ Lhs(p) = "deduction_target"
      /\ Rhs(p)[1] \in {"deduction_target_singular", "deduction_target_array",
                        "deduction_target_computed"}
  BY TargetRules DEF IsRule
<1>2. PICK n : n = Built(p, v)
  OBVIOUS
<1>3. n.kind = "target" /\ n.alternative = v[1]
  BY ONLY <1>1, <1>2, NodeIsBuilt DEF TargetValue
<1>4. IsAlternative(v[1])
  <2>1. 1 \in 1 .. 1
    OBVIOUS
  <2>2. Shaped(Rhs(p)[1], v[1])
    BY <2>1 DEF ShapedParts
  <2> QED
    BY <1>1, <2>2, ShapesOfNodes
<1>5. IsTarget(n)
  BY ONLY <1>3, <1>4, Zenon DEF IsTarget
<1> QED
  BY ONLY <1>1, <1>2, <1>5, ShapesOfNodes, Zenon

\* and what is in a target.
LEMMA AlternativeShape ==
  ASSUME NEW p \in 42 .. 46, NEW v
  PROVE  Shaped(Lhs(p), Built(p, v))
<1>1. Lhs(p) \in {"deduction_target_singular", "deduction_target_array",
                  "deduction_target_computed"}
  BY TargetRules DEF IsRule
<1>2. PICK n : n = Built(p, v)
  OBVIOUS
<1>3. n.kind \in {"singular", "array", "computed"}
  BY ONLY <1>1, <1>2, NodeIsBuilt DEF TargetValue
<1>4. IsAlternative(n)
  BY ONLY <1>3 DEF IsAlternative
<1> QED
  BY ONLY <1>1, <1>2, <1>4, ShapesOfNodes

\* The optional lists.
LEMMA SetShapes ==
  ASSUME NEW p \in {12, 13, 17, 18, 22}, NEW v, ShapedParts(p, v, Len(Rhs(p)))
  PROVE  Shaped(Lhs(p), Built(p, v))
<1>1. \A s \in TreeLists : Shaped(s, <<>>)
  <2>1. \A i : ~(i \in 1 .. 0)
    OBVIOUS
  <2> QED
    BY ONLY <2>1, NothingListed, Zenon DEF ListOf, Shaped
<1>2. CASE p \in {12, 17}
  <2>1. Lhs(p) \in {"global_decl_set", "argument_set"} /\ Built(p, v) = <<>>
    <3>1. CASE p = 12
      <4>1. Lhs(12) = "global_decl_set" /\ Len(Rhs(12)) = 0
        BY RuleRules DEF IsRule
      <4>2. v = <<>>
        BY <3>1, <4>1, EmptySeq DEF ShapedParts, Listed
      <4> QED
        BY ONLY <3>1, <4>1, <4>2, NodeIsBuilt DEF RuleValue
    <3>2. CASE p = 17
      <4>1. Lhs(17) = "argument_set" /\ Len(Rhs(17)) = 4
        BY RuleRules DEF IsRule
      <4>2. Len(v) = 4
        BY <3>2, <4>1 DEF ShapedParts
      <4> QED
        BY ONLY <3>2, <4>1, <4>2, NodeIsBuilt DEF RuleValue
    <3> QED
      BY <1>2, <3>1, <3>2
  <2>2. Lhs(p) \in TreeLists
    BY ONLY <2>1 DEF TreeLists
  <2> QED
    BY ONLY <1>1, <2>1, <2>2, Zenon
<1>3. CASE p \in {13, 18, 22}
  <2>1. /\ Len(Rhs(p)) = 5
        /\ \/ Lhs(p) = "global_decl_set" /\ Rhs(p)[4] = "global_decl_list"
           \/ Lhs(p) = "argument_set" /\ Rhs(p)[4] = "argument_list"
           \/ Lhs(p) = "premise_set" /\ Rhs(p)[4] = "premise_defn_list"
    <3>1. CASE p = 13
      BY ONLY <3>1, RuleRules DEF IsRule
    <3>2. CASE p = 18
      BY ONLY <3>2, RuleRules DEF IsRule
    <3>3. CASE p = 22
      BY ONLY <3>3, PremiseRules DEF IsRule
    <3> QED
      BY <1>3, <3>1, <3>2, <3>3
  <2>2. Len(v) = 5 /\ Shaped(Rhs(p)[4], v[4])
    <3>1. 4 \in 1 .. 5
      OBVIOUS
    <3> QED
      BY <2>1, <3>1 DEF ShapedParts
  <2>3. v # <<>>
    BY ONLY <2>2
  <2>4. Built(p, v) = v[4]
    <3>1. CASE Lhs(p) = "global_decl_set"
      BY ONLY <2>2, <2>3, <3>1, NodeIsBuilt DEF RuleValue
    <3>2. CASE Lhs(p) = "argument_set"
      <4>1. Built(p, v) = RuleValue("argument_set", v)
        BY ONLY <3>2, NodeIsBuilt
      <4>2. RuleValue("argument_set", v) = IF Len(v) = 4 THEN <<>> ELSE v[4]
        BY ONLY DEF RuleValue
      <4>3. Len(v) # 4
        BY ONLY <2>2
      <4> QED
        BY ONLY <4>1, <4>2, <4>3
    <3>3. CASE Lhs(p) = "premise_set"
      BY ONLY <2>2, <2>3, <3>3, NodeIsBuilt DEF PremiseValue
    <3> QED
      BY ONLY <2>1, <3>1, <3>2, <3>3
  <2>5. /\ Lhs(p) \in TreeLists /\ Rhs(p)[4] \in TreeLists
        /\ ElementOf(Lhs(p)) = ElementOf(Rhs(p)[4])
    BY ONLY <2>1 DEF TreeLists, ElementOf
  <2> QED
    BY ONLY <2>2, <2>4, <2>5, Zenon DEF Shaped
<1> QED
  BY <1>2, <1>3

\* What is asked of no value of theirs.
LEMMA AnyShape ==
  ASSUME NEW p \in {29, 32, 34, 35, 36, 37, 38, 47, 48, 49, 50}
  PROVE  \A x : Shaped(Lhs(p), x)
<1>1. Lhs(p) \in {"while_clause", "range_clause", "identifiable", "identifier",
                  "deduction_target_list", "equality_operator"}
  <2>1. /\ Lhs(29) = "while_clause" /\ Lhs(32) = "range_clause"
        /\ Lhs(34) = "identifiable" /\ Lhs(35) = "identifiable" /\ Lhs(36) = "identifier"
        /\ Lhs(37) = "deduction_target_list" /\ Lhs(38) = "deduction_target_list"
        /\ Lhs(47) = "equality_operator" /\ Lhs(48) = "equality_operator"
        /\ Lhs(49) = "equality_operator" /\ Lhs(50) = "equality_operator"
    BY PremiseRules, TargetRules DEF IsRule
  <2> QED
    BY ONLY <2>1, p \in {29, 32, 34, 35, 36, 37, 38, 47, 48, 49, 50}
<1> QED
  BY ONLY <1>1 DEF Shaped, TreeLists, IsA

\* Every semantic action makes, of values as they should be, another one.
LEMMA ShapesAreKept ==
  ASSUME NEW p \in 3 .. 50, NEW v, ShapedParts(p, v, Len(Rhs(p)))
  PROVE  Shaped(Lhs(p), Built(p, v))
<1>1. CASE p \in {3, 6, 9, 23}
  <2>1. Len(Rhs(p)) = 0
    <3>1. /\ Len(Rhs(3)) = 0 /\ Len(Rhs(6)) = 0 /\ Len(Rhs(9)) = 0 /\ Len(Rhs(23)) = 0
      BY GroupRules, PremiseRules DEF IsRule
    <3> QED
      BY ONLY <1>1, <3>1
  <2> QED
    BY ONLY <1>1, <2>1, ShapedParts(p, v, Len(Rhs(p))), EmptyShapes
<1>2. CASE p \in {14, 19}
  <2>1. Len(Rhs(p)) = 1
    <3>1. Len(Rhs(14)) = 1 /\ Len(Rhs(19)) = 1
      BY RuleRules DEF IsRule
    <3> QED
      BY ONLY <1>2, <3>1
  <2> QED
    BY ONLY <1>2, <2>1, ShapedParts(p, v, Len(Rhs(p))), FirstShapes
<1>3. CASE p \in {4, 7, 10, 24, 15, 20}
  BY <1>3, LongerShapes
<1>4. CASE p \in {5, 8}
  <2>1. Len(Rhs(5)) = 6 /\ Len(Rhs(8)) = 4
    BY GroupRules DEF IsRule
  <2> QED
    BY <1>4, <2>1, GroupShape, FieldShape
<1>5. CASE p \in {11, 16, 21}
  <2>1. Len(Rhs(11)) = 8 /\ Len(Rhs(16)) = 1 /\ Len(Rhs(21)) = 3
    BY RuleRules DEF IsRule
  <2> QED
    BY <1>5, <2>1, DefnShape, GlobalShape, ArgumentShape
<1>6. CASE p \in {25, 26, 33}
  <2>1. Len(Rhs(25)) = 1 /\ Len(Rhs(26)) = 1 /\ Len(Rhs(33)) = 4
    BY PremiseRules DEF IsRule
  <2> QED
    BY <1>6, <2>1, InferencePremiseShape, EqualityPremiseShape, PropositionShape
<1>7. CASE p \in {27, 28, 30, 31}
  BY <1>7, InferenceShape, EqualityShape
<1>8. CASE p \in {39, 40, 41}
  <2>1. Len(Rhs(39)) = 1 /\ Len(Rhs(40)) = 1 /\ Len(Rhs(41)) = 1
    BY TargetRules DEF IsRule
  <2>2. Len(Rhs(p)) = 1
    BY <1>8, <2>1
  <2> QED
    BY <1>8, <2>2, TargetShape
<1>9. CASE p \in 42 .. 46
  BY <1>9, AlternativeShape
<1>10. CASE p \in {12, 13, 17, 18, 22}
  BY <1>10, SetShapes
<1>11. CASE p \in {29, 32, 34, 35, 36, 37, 38, 47, 48, 49, 50}
  BY <1>11, AnyShape
<1>12. \/ p \in {3, 6, 9, 23} \/ p \in {14, 19} \/ p \in {4, 7, 10, 24, 15, 20} \/ p \in {5, 8}
       \/ p \in {11, 16, 21} \/ p \in {25, 26, 33} \/ p \in {27, 28, 30, 31}
       \/ p \in {39, 40, 41} \/ p \in 42 .. 46 \/ p \in {12, 13, 17, 18, 22}
       \/ p \in {29, 32, 34, 35, 36, 37, 38, 47, 48, 49, 50}
  BY ONLY p \in 3 .. 50
<1> QED
  BY ONLY <1>1, <1>2, <1>3, <1>4, <1>5, <1>6, <1>7, <1>8, <1>9, <1>10, <1>11, <1>12, Zenon

\* An input is made a module of groups,
LEMMA ModuleShape ==
  ASSUME NEW v, ShapedParts(2, v, Len(Rhs(2)))
  PROVE  IsModule(ModuleOf(v[1])) /\ \A x : Shaped("input", x)
<1>1. Len(Rhs(2)) = 1 /\ Rhs(2)[1] = "inference_group_list"
  BY GroupRules DEF IsRule
<1>2. 1 \in 1 .. 1
  OBVIOUS
<1>3. Shaped("inference_group_list", v[1])
  BY <1>1, <1>2 DEF ShapedParts
<1>4. PICK n : n = ModuleOf(v[1])
  OBVIOUS
<1>5. n.kind = "module" /\ n.groups = v[1]
  BY ONLY <1>4 DEF ModuleOf
<1>6. IsModule(n)
  BY ONLY <1>3, <1>5, ShapesOfLists, Zenon DEF IsModule
<1>7. \A x : Shaped("input", x)
  BY DEF Shaped, TreeLists, IsA
<1> QED
  BY ONLY <1>4, <1>6, <1>7

\* and so is a module of no text at all.
LEMMA EmptyModule == IsModule(ModuleOf(<<>>))
<1>1. PICK n : n = ModuleOf(<<>>)
  OBVIOUS
<1>2. n.kind = "module" /\ n.groups = <<>>
  BY ONLY <1>1 DEF ModuleOf
<1>3. AllAre(n.groups, IsGroup)
  <2>1. \A i : ~(i \in 1 .. 0)
    OBVIOUS
  <2> QED
    BY ONLY <1>2, <2>1, NothingListed, Zenon DEF AllAre
<1>4. IsModule(n)
  BY ONLY <1>2, <1>3, Zenon DEF IsModule
<1> QED
  BY <1>1, <1>4

\* Nothing is asked of the value of a token.
LEMMA TerminalShape ==
  ASSUME NEW kind \in Terminal, NEW v
  PROVE  Shaped(kind, v)
<1>1. \A p \in 1 .. 50 : kind # Lhs(p)
  BY LeftSides, ProductionsList DEF Terminal
<1>2. kind \notin TreeLists
  <2>1. /\ Lhs(3) = "inference_group_list" /\ Lhs(6) = "environment_defn_list"
        /\ Lhs(9) = "inference_defn_list" /\ Lhs(23) = "premise_defn_list"
        /\ Lhs(14) = "global_decl_list" /\ Lhs(19) = "argument_list"
        /\ Lhs(12) = "global_decl_set" /\ Lhs(17) = "argument_set" /\ Lhs(22) = "premise_set"
    BY GroupRules, RuleRules, PremiseRules DEF IsRule
  <2>2. /\ kind # Lhs(3) /\ kind # Lhs(6) /\ kind # Lhs(9) /\ kind # Lhs(23) /\ kind # Lhs(14)
        /\ kind # Lhs(19) /\ kind # Lhs(12) /\ kind # Lhs(17) /\ kind # Lhs(22)
    BY ONLY <1>1
  <2> QED
    BY ONLY <2>1, <2>2 DEF TreeLists
<1>3. IsA(kind, v)
  <2>1. /\ Lhs(25) = "premise_defn" /\ Lhs(5) = "inference_group"
        /\ Lhs(8) = "environment_defn" /\ Lhs(11) = "inference_defn"
        /\ Lhs(16) = "global_decl" /\ Lhs(21) = "inference_argument"
        /\ Lhs(27) = "premise_type_inference_defn" /\ Lhs(30) = "premise_type_equality_defn"
        /\ Lhs(33) = "proposition_defn"
    BY GroupRules, RuleRules, PremiseRules DEF IsRule
  <2>2. /\ Lhs(39) = "deduction_target" /\ Lhs(42) = "deduction_target_singular"
        /\ Lhs(43) = "deduction_target_array" /\ Lhs(45) = "deduction_target_computed"
    BY TargetRules DEF IsRule
  <2>3. /\ kind # Lhs(25) /\ kind # Lhs(5) /\ kind # Lhs(8) /\ kind # Lhs(11) /\ kind # Lhs(16)
        /\ kind # Lhs(21) /\ kind # Lhs(27) /\ kind # Lhs(30) /\ kind # Lhs(33)
        /\ kind # Lhs(39) /\ kind # Lhs(42) /\ kind # Lhs(43) /\ kind # Lhs(45)
    BY ONLY <1>1
  <2>4. kind \notin {"premise_defn", "inference_group", "environment_defn", "inference_defn",
                    "global_decl", "inference_argument", "premise_type_inference_defn",
                    "premise_type_equality_defn", "proposition_defn", "deduction_target",
                    "deduction_target_singular", "deduction_target_array",
                    "deduction_target_computed"}
    BY ONLY <2>1, <2>2, <2>3
  <2> QED
    BY ONLY <2>4 DEF IsA
<1> QED
  BY ONLY <1>2, <1>3, Zenon DEF Shaped

\* The values on the stack are as their symbols ask for.
ShapedStack(stack) ==
  \A i \in 2 .. Len(stack) : Shaped(SymbolAt(stack, i), Value(stack[i]))

\* The module is a tree of the nodes that a visitor knows.
TreeInv == IsModule(module) /\ (result = Running => ShapedStack(yystack))

\* A symbol more on a stack, with a value it may have.
LEMMA ShapesPushed ==
  ASSUME NEW stack, NEW n, NEW other, NEW symbol, ShapedStack(stack), Len(stack) \in Nat,
         n \in Nat, n <= Len(stack), Len(other) = n + 1,
         \A i \in 1 .. n : other[i] = stack[i],
         SymbolAt(other, n + 1) = symbol, Shaped(symbol, Value(other[n + 1]))
  PROVE  ShapedStack(other)
<1>1. ASSUME NEW i \in 2 .. n + 1 PROVE Shaped(SymbolAt(other, i), Value(other[i]))
  <2>1. CASE i = n + 1
    BY <2>1
  <2>2. CASE i # n + 1
    <3>1. i \in 1 .. n /\ i \in 2 .. Len(stack)
      BY <2>2
    <3>2. Shaped(SymbolAt(stack, i), Value(stack[i])) /\ other[i] = stack[i]
      BY <3>1 DEF ShapedStack
    <3>3. SymbolAt(other, i) = SymbolAt(stack, i)
      BY <3>2 DEF SymbolAt
    <3> QED
      BY ONLY <3>2, <3>3, Zenon
  <2> QED
    BY <2>1, <2>2
<1> QED
  BY <1>1 DEF ShapedStack

\* The module of a new driver is such a tree.
LEMMA TreeInvInit == Init => TreeInv
<1> SUFFICES ASSUME Init PROVE TreeInv
  OBVIOUS
<1>1. module = ModuleOf(<<>>) /\ result = 0
  BY DEF Init
<1> QED
  BY <1>1, EmptyModule, RunningAssumption DEF TreeInv

\* A shift leaves trees on the stack,
LEMMA TreeShifted ==
  ASSUME ParseInv, TreeInv, Shift
  PROVE  TreeInv'
<1>1. result = Running /\ RunningInv /\ ShapedStack(yystack) /\ IsModule(module)
  BY DEF Shift, AtWork, ParseInv, TreeInv
<1>2. /\ yystack' = Pushed(yystack, yyla.kind, yyla.value)
      /\ yyla.kind \in Expected(State(yystack[Len(yystack)])) /\ module' = module
  BY DEF Shift, AtWork, top, Depth, Pushed
<1>3. yyla.kind \in Terminal /\ Goto(State(yystack[Len(yystack)]), yyla.kind) # {} /\ Path(yystack)
  BY <1>1, <1>2, ExpectedCanBeShifted DEF RunningInv
<1>4. PICK entry : entry = stack_symbol(Goto(State(yystack[Len(yystack)]), yyla.kind), yyla.value)
  OBVIOUS
<1>5. /\ Len(yystack) \in Nat /\ Len(yystack') = Len(yystack) + 1
      /\ \A i \in 1 .. Len(yystack) : yystack'[i] = yystack[i]
      /\ yystack'[Len(yystack) + 1] = entry
      /\ SymbolAt(yystack', Len(yystack) + 1) = yyla.kind
  <2>1. PICK stack : stack = yystack
    OBVIOUS
  <2>2. PICK kind : kind = yyla.kind
    OBVIOUS
  <2>3. PICK value : value = yyla.value
    OBVIOUS
  <2>4. PICK other : other = yystack'
    OBVIOUS
  <2>5. Path(stack) /\ Goto(State(stack[Len(stack)]), kind) # {}
    BY ONLY <1>3, <2>1, <2>2
  <2>6. other = Pushed(stack, kind, value)
    BY ONLY <1>2, <2>1, <2>2, <2>3, <2>4
  <2>7. entry = stack_symbol(Goto(State(stack[Len(stack)]), kind), value)
    BY ONLY <1>4, <2>1, <2>2, <2>3
  <2>8. other = Append(stack, entry)
    BY ONLY <2>6, <2>7 DEF Pushed, push
  <2>9. Listed(stack) /\ Len(stack) \in Nat
    BY ONLY <2>5, PathType
  <2>10. /\ Len(other) = Len(stack) + 1 /\ other[Len(stack) + 1] = entry
         /\ \A i \in 1 .. Len(stack) : other[i] = stack[i]
    BY ONLY <2>8, <2>9, ListedAppend
  <2>11. SymbolAt(Pushed(stack, kind, value), Len(stack) + 1) = kind
    BY ONLY <2>5, PathPushed
  <2> QED
    BY ONLY <2>1, <2>2, <2>4, <2>6, <2>9, <2>10, <2>11, Zenon
<1>6. Shaped(yyla.kind, Value(yystack'[Len(yystack) + 1]))
  BY <1>3, TerminalShape
<1>7. ShapedStack(yystack')
  <2>1. Len(yystack) <= Len(yystack)
    BY <1>5
  <2> QED
    BY ONLY <1>1, <1>5, <1>6, <2>1, ShapesPushed
<1> QED
  BY <1>1, <1>2, <1>7 DEF TreeInv

\* and so does a reduction, which may make one of them the module.
LEMMA TreeReduced ==
  ASSUME ParseInv, TreeInv, Reduce
  PROVE  TreeInv'
<1>1. result = Running /\ RunningInv /\ ShapedStack(yystack) /\ IsModule(module)
  BY DEF Reduce, Defaults, AtWork, ParseInv, TreeInv
<1>2. ~IsFinal(State(yystack[Len(yystack)]))
  BY DEF Reduce, Defaults, top, Depth
<1>3. PICK p \in {DefaultProduction} \ {NoProduction} :
        LET n      == Len(Rhs(p))
            popped == pop(yystack, n)
            values == [i \in 1 .. n |-> Value(yystack[Depth - n + i])]
            entered == Goto(State(popped[Len(popped)]), Lhs(p))
        IN  /\ yystack' = push(popped, stack_symbol(entered, Built(p, values)))
            /\ IF Lhs(p) = "input" THEN setModule(ModuleOf(values[1])) ELSE UNCHANGED module
  BY DEF Reduce
<1>4. p \in Complete(State(yystack[Len(yystack)]))
  BY <1>3, DefaultIsComplete DEF DefaultProduction, top, Depth
<1>5. p # 1
  BY <1>2, <1>4 DEF IsFinal
<1>6. PICK n : n = Len(Rhs(p))
  OBVIOUS
<1>7. PICK popped : popped = pop(yystack, n)
  OBVIOUS
<1>8. PICK v : v = [i \in 1 .. n |-> Value(yystack[Depth - n + i])]
  OBVIOUS
<1>9. yystack' = Pushed(popped, Lhs(p), Built(p, v))
  BY <1>3, <1>6, <1>7, <1>8 DEF Pushed
<1>10. Reduces(yystack, p, n, popped, Built(p, v), yystack')
  BY <1>1, <1>4, <1>5, <1>6, <1>7, <1>9 DEF Reduces, RunningInv
<1>11. PICK m \in Nat :
         /\ m = Len(yystack) - n /\ n \in Nat /\ Len(yystack) \in Nat /\ n < Len(yystack)
         /\ p \in 1 .. 50
         /\ Len(yystack') = m + 1
         /\ \A i \in 1 .. m : yystack'[i] = yystack[i]
         /\ SymbolAt(yystack', m + 1) = Lhs(p) /\ Value(yystack'[m + 1]) = Built(p, v)
         /\ \A i \in 1 .. n : SymbolAt(yystack, m + i) = Rhs(p)[i]
  <2>1. PICK m : m = Len(yystack) - n
    OBVIOUS
  <2>2. n \in Nat /\ Len(yystack) \in Nat /\ n < Len(yystack) /\ p \in DOMAIN Productions
    BY ONLY <1>10, Reduction
  <2>3. Len(yystack') = m + 1 /\ \A i \in 1 .. m : yystack'[i] = yystack[i]
    BY ONLY <1>10, <2>1, Reduction
  <2>4. SymbolAt(yystack', m + 1) = Lhs(p) /\ Value(yystack'[m + 1]) = Built(p, v)
    BY ONLY <1>10, <2>1, Reduction
  <2>5. \A i \in 1 .. n : SymbolAt(yystack, m + i) = Rhs(p)[i]
    BY ONLY <1>10, <2>1, Reduction
  <2>6. p \in 1 .. 50
    BY <2>2, ProductionsList
  <2>7. m \in Nat
    BY <2>1, <2>2
  <2> QED
    BY ONLY <2>1, <2>2, <2>3, <2>4, <2>5, <2>6, <2>7
<1>12. ShapedParts(p, v, n)
  <2>1. Listed(v) /\ Len(v) = n
    <3>1. v = [i \in 1 .. n |-> v[i]]
      BY <1>8
    <3>2. v \in [1 .. n -> {v[i] : i \in 1 .. n}]
      BY <3>1
    <3>3. n \in Nat
      BY ONLY <1>11
    <3>4. v \in Seq({v[i] : i \in 1 .. n}) /\ Len(v) = n
      BY ONLY <3>2, <3>3, SMTT(30)
    <3> QED
      BY <3>4, ListedSeq
  <2>2. ASSUME NEW i \in 1 .. n PROVE Shaped(Rhs(p)[i], v[i])
    <3>1. v[i] = Value(yystack[m + i])
      BY <1>8, <1>11 DEF Depth
    <3>2. m + i \in 2 .. Len(yystack)
      BY <1>11
    <3>3. Shaped(SymbolAt(yystack, m + i), Value(yystack[m + i]))
      BY <1>1, <3>2 DEF ShapedStack
    <3>4. SymbolAt(yystack, m + i) = Rhs(p)[i]
      BY <1>11
    <3> QED
      BY ONLY <3>1, <3>3, <3>4, Zenon
  <2> QED
    BY <2>1, <2>2 DEF ShapedParts
<1>13. Shaped(Lhs(p), Built(p, v)) /\ IsModule(module')
  <2>1. CASE p = 2
    <3>1. module' = ModuleOf(v[1]) /\ Lhs(p) = "input"
      <4>1. Lhs(2) = "input"
        BY GroupRules DEF IsRule
      <4> QED
        BY <1>3, <1>6, <1>8, <2>1, <4>1 DEF setModule
    <3> QED
      BY <1>6, <1>12, <2>1, <3>1, ModuleShape
  <2>2. CASE p # 2
    <3>1. module' = module
      BY <1>3, <1>11, <2>2, LeftSides, ProductionsList
    <3>2. p \in 3 .. 50
      BY <1>5, <1>11, <2>2
    <3> QED
      BY ONLY <1>1, <1>6, <1>12, <3>1, <3>2, ShapesAreKept
  <2> QED
    BY <2>1, <2>2
<1>14. ShapedStack(yystack')
  <2>1. m <= Len(yystack)
    BY <1>11
  <2>2. Shaped(Lhs(p), Value(yystack'[m + 1]))
    BY ONLY <1>11, <1>13
  <2> QED
    BY ONLY <1>1, <1>11, <2>1, <2>2, ShapesPushed
<1> QED
  BY <1>13, <1>14 DEF TreeInv

\* What the parser builds is such a tree after every step of it.
LEMMA TreeInvStep ==
  ASSUME ParseInv, TreeInv, [Next]_vars
  PROVE  TreeInv'
<1>1. ASSUME module' = module, result' = Running => result = Running /\ yystack' = yystack
      PROVE  TreeInv'
  BY <1>1 DEF TreeInv
<1>2. CASE CallParser
  <2>1. module' = module
    BY <1>2 DEF CallParser, parseFromFile, parseFromString, Start
  <2>2. CASE Head(session).file = Unreadable
    <3>1. result' = -1
      BY <1>2, <2>2 DEF CallParser, parseFromFile
    <3> QED
      BY <1>1, <2>1, <3>1, RunningAssumption
  <2>3. CASE Head(session).file # Unreadable
    <3>1. yystack' = push(<<>>, stack_symbol(InitialState, Empty))
      BY <1>2, <2>3 DEF CallParser, parseFromFile, parseFromString, Start
    <3>2. Len(yystack') = 1
      BY <3>1 DEF push
    <3>3. ShapedStack(yystack')
      <4>1. \A i : ~(i \in 2 .. 1)
        OBVIOUS
      <4> QED
        BY <3>2, <4>1 DEF ShapedStack
    <3> QED
      BY <2>1, <3>3 DEF TreeInv
  <2> QED
    BY <2>2, <2>3
<1>3. CASE ParseStep
  <2>1. CASE Scan /\ UNCHANGED parserVars
    BY <1>1, <2>1 DEF parserVars
  <2>2. CASE ReadToken
    BY <1>1, <2>2 DEF ReadToken, parserVars
  <2>3. CASE Shift
    BY <2>3, TreeShifted
  <2>4. CASE Reduce
    BY <2>4, TreeReduced
  <2>5. CASE SyntaxError
    BY <1>1, <2>5, RunningAssumption DEF SyntaxError, Return
  <2>6. CASE Accept
    BY <1>1, <2>6, RunningAssumption DEF Accept, Return
  <2> QED
    BY <1>3, <2>1, <2>2, <2>3, <2>4, <2>5, <2>6 DEF ParseStep, Parse
<1>4. CASE parseReturns
  BY <1>1, <1>4 DEF parseReturns, parserVars
<1>5. CASE WalkModule \/ VisitStep \/ Done \/ UNCHANGED vars
  <2>1. UNCHANGED <<yystack, result, module>>
    BY <1>5 DEF WalkModule, VisitStep, Done, vars, parserVars
  <2> QED
    BY <1>1, <2>1
<1> QED
  BY <1>2, <1>3, <1>4, <1>5 DEF Next

-----------------------------------------------------------------------------
(* The walk over the module.                                               *)

\* What a visitor that never refuses is called for below n, by the kind of n,
NodeWalk(n) ==
  CASE n.kind = "module"      -> ModuleWalk(n)
    [] n.kind = "group"       -> GroupWalk(n)
    [] n.kind = "defn"        -> DefnWalk(n)
    [] n.kind = "premise"     -> PremiseWalk(n)
    [] n.kind = "equality"    -> EqualityWalk(n)
    [] n.kind = "proposition" -> PropositionWalk(n)
    [] n.kind = "target"      -> TargetWalk(n)
    [] OTHER                  -> LeafWalk(n)

\* for one call, and for all of an agenda.
WalkOf(call) == IF call[1] = "visit" THEN NodeWalk(call[2]) ELSE <<call>>
WalksOf(a)   == [i \in DOMAIN a |-> WalkOf(a[i])]
Pending(a)   == FlattenSeq(WalksOf(a))

\* A node that a visitor knows.
IsNode(n) ==
  \/ n.kind \in LeafKinds \/ IsTarget(n) \/ IsProposition(n) \/ IsEquality(n)
  \/ IsPremise(n) \/ IsDefn(n) \/ IsGroup(n) \/ IsModule(n)

Known(n) == IsNode(n) /\ Listed(NodeWalk(n))

\* The calls that are still to be made.
IsCall(call) == (call[1] = "visit" /\ Known(call[2])) \/ call[1] \in {"previsit", "postvisit"}

IsAgenda(a) == Listed(a) /\ \A i \in 1 .. Len(a) : IsCall(a[i])

\* Sequences that agree everywhere are the same.
LEMMA SameListed ==
  ASSUME NEW s, Listed(s), NEW t, Listed(t), Len(s) = Len(t),
         \A i \in 1 .. Len(s) : s[i] = t[i]
  PROVE  s = t
<1>1. s \in Seq(Range(s)) /\ t \in Seq(Range(t))
  BY DEF Listed
<1>2. s = [i \in 1 .. Len(s) |-> s[i]] /\ t = [i \in 1 .. Len(s) |-> t[i]]
  BY ONLY <1>1, Len(s) = Len(t)
<1> QED
  BY ONLY <1>2, \A i \in 1 .. Len(s) : s[i] = t[i]

\* A function on the numbers up to n is a sequence.
LEMMA FunctionListed ==
  ASSUME NEW n \in Nat, NEW f, f = [i \in 1 .. n |-> f[i]]
  PROVE  Listed(f) /\ Len(f) = n
<1>1. f \in [1 .. n -> {f[i] : i \in 1 .. n}]
  BY f = [i \in 1 .. n |-> f[i]]
<1>2. f \in Seq({f[i] : i \in 1 .. n}) /\ Len(f) = n
  BY ONLY <1>1, n \in Nat
<1> QED
  BY <1>2, ListedSeq

\* The domain of a sequence.
LEMMA ListedDomain ==
  ASSUME NEW s, Listed(s)
  PROVE  DOMAIN s = 1 .. Len(s) /\ Len(s) \in Nat
<1>1. s \in Seq(Range(s))
  BY DEF Listed
<1> QED
  BY ONLY <1>1

\* The calls that the calls of an agenda lead to.
LEMMA ItemsAre ==
  ASSUME NEW a, Listed(a)
  PROVE  Listed(WalksOf(a)) /\ Len(WalksOf(a)) = Len(a) /\ \A i \in 1 .. Len(a) : WalksOf(a)[i] = WalkOf(a[i])
<1>1. PICK f : f = WalksOf(a)
  OBVIOUS
<1>2. PICK n \in Nat : n = Len(a) /\ DOMAIN a = 1 .. n
  BY ListedDomain
<1>3. f = [i \in 1 .. n |-> WalkOf(a[i])]
  BY <1>1, <1>2, Zenon DEF WalksOf
<1>4. f = [i \in 1 .. n |-> f[i]] /\ \A i \in 1 .. n : f[i] = WalkOf(a[i])
  BY ONLY <1>3
<1>5. Listed(f) /\ Len(f) = n
  BY ONLY <1>4, FunctionListed
<1> QED
  BY ONLY <1>1, <1>2, <1>4, <1>5, Zenon

\* Of an agenda they are lists.
LEMMA ItemsAreLists ==
  ASSUME NEW a, IsAgenda(a)
  PROVE  ListOfLists(WalksOf(a))
<1>1. ASSUME NEW i \in 1 .. Len(a) PROVE Listed(WalkOf(a[i]))
  <2>1. IsCall(a[i])
    BY DEF IsAgenda
  <2>2. Listed(<<a[i]>>)
    BY ONLY ListedOne
  <2> QED
    BY ONLY <2>1, <2>2, Zenon DEF IsCall, Known, WalkOf
<1>2. Listed(a)
  BY DEF IsAgenda
<1> QED
  BY ONLY <1>1, <1>2, ItemsAre, Zenon DEF ListOfLists

\* One agenda after the other.
LEMMA PendingConcat ==
  ASSUME NEW a, IsAgenda(a), NEW b, IsAgenda(b)
  PROVE  IsAgenda(a \o b) /\ Pending(a \o b) = Pending(a) \o Pending(b)
<1>1. PICK m \in Nat, n \in Nat : m = Len(a) /\ n = Len(b)
  BY ListedDomain DEF IsAgenda
<1>2. PICK c : c = a \o b
  OBVIOUS
<1>3. /\ Listed(a) /\ Listed(b) /\ Listed(c) /\ Len(c) = m + n
      /\ \A i \in 1 .. m + n : c[i] = IF i <= m THEN a[i] ELSE b[i - m]
  BY <1>1, <1>2, ListedConcat DEF IsAgenda
<1>4. ASSUME NEW i \in 1 .. m + n PROVE IsCall(c[i])
  <2>1. CASE i <= m
    <3>1. i \in 1 .. m /\ c[i] = a[i]
      BY <1>3, <2>1
    <3> QED
      BY <1>1, <3>1 DEF IsAgenda
  <2>2. CASE ~(i <= m)
    <3>1. i - m \in 1 .. n /\ c[i] = b[i - m]
      BY <1>3, <2>2
    <3> QED
      BY <1>1, <3>1 DEF IsAgenda
  <2> QED
    BY <2>1, <2>2
<1>5. IsAgenda(c)
  BY <1>3, <1>4 DEF IsAgenda
<1>6. PICK s : s = WalksOf(a)
  OBVIOUS
<1>7. PICK t : t = WalksOf(b)
  OBVIOUS
<1>8. PICK u : u = WalksOf(c)
  OBVIOUS
<1>9. /\ Listed(s) /\ Len(s) = m /\ \A i \in 1 .. m : s[i] = WalkOf(a[i])
      /\ Listed(t) /\ Len(t) = n /\ \A i \in 1 .. n : t[i] = WalkOf(b[i])
      /\ Listed(u) /\ Len(u) = m + n /\ \A i \in 1 .. m + n : u[i] = WalkOf(c[i])
  BY ONLY <1>1, <1>3, <1>6, <1>7, <1>8, ItemsAre
<1>10. /\ Listed(s \o t) /\ Len(s \o t) = m + n
       /\ \A i \in 1 .. m + n : (s \o t)[i] = IF i <= m THEN s[i] ELSE t[i - m]
  BY ONLY <1>9, ListedConcat
<1>11. ASSUME NEW i \in 1 .. m + n PROVE u[i] = (s \o t)[i]
  <2>1. CASE i <= m
    <3>1. i \in 1 .. m /\ c[i] = a[i] /\ (s \o t)[i] = s[i]
      BY <1>3, <1>10, <2>1
    <3> QED
      BY ONLY <1>9, <3>1, i \in 1 .. m + n, Zenon
  <2>2. CASE ~(i <= m)
    <3>1. i - m \in 1 .. n /\ c[i] = b[i - m] /\ (s \o t)[i] = t[i - m]
      BY <1>3, <1>10, <2>2
    <3> QED
      BY ONLY <1>9, <3>1, i \in 1 .. m + n, Zenon
  <2> QED
    BY <2>1, <2>2
<1>12. u = s \o t
  BY ONLY <1>9, <1>10, <1>11, SameListed
<1>13. FlattenSeq(s \o t) = FlattenSeq(s) \o FlattenSeq(t)
  BY <1>6, <1>7, ItemsAreLists, FlattenConcat
<1> QED
  BY ONLY <1>2, <1>5, <1>6, <1>7, <1>8, <1>12, <1>13, Zenon DEF Pending

\* What is pending is a list.
LEMMA PendingListed ==
  ASSUME NEW a, IsAgenda(a)
  PROVE  Listed(Pending(a))
BY ItemsAreLists, FlattenListed DEF Pending

\* One call.
LEMMA PendingOne ==
  ASSUME NEW call, IsCall(call)
  PROVE  IsAgenda(<<call>>) /\ Pending(<<call>>) = WalkOf(call) /\ Listed(WalkOf(call))
<1>1. PICK a : a = <<call>>
  OBVIOUS
<1>2. Listed(a) /\ Len(a) = 1 /\ a[1] = call
  BY ONLY <1>1, ListedOne
<1>3. \A i \in 1 .. 1 : i = 1
  OBVIOUS
<1>4. IsAgenda(a)
  BY ONLY <1>2, <1>3, IsCall(call), Zenon DEF IsAgenda
<1>5. PICK s : s = WalksOf(a)
  OBVIOUS
<1>6. ListOfLists(s) /\ Listed(s) /\ Len(s) = 1 /\ s[1] = WalkOf(call)
  <2>1. 1 \in 1 .. 1
    OBVIOUS
  <2> QED
    BY ONLY <1>2, <1>4, <1>5, <2>1, ItemsAre, ItemsAreLists, Zenon
<1>7. Listed(WalkOf(call))
  BY <1>6 DEF ListOfLists
<1>8. s = <<WalkOf(call)>>
  <2>1. PICK o : o = <<WalkOf(call)>>
    OBVIOUS
  <2>2. Listed(o) /\ Len(o) = 1 /\ o[1] = WalkOf(call)
    BY ONLY <2>1, ListedOne
  <2>3. Len(s) = Len(o) /\ \A i \in 1 .. Len(s) : s[i] = o[i]
    BY ONLY <1>3, <1>6, <2>2, Zenon
  <2> QED
    BY ONLY <1>6, <2>1, <2>2, <2>3, SameListed
<1>9. FlattenSeq(s) = WalkOf(call)
  BY ONLY <1>7, <1>8, FlattenFew
<1> QED
  BY ONLY <1>1, <1>4, <1>5, <1>7, <1>9, Zenon DEF Pending

\* Nothing.
LEMMA PendingNothing == IsAgenda(<<>>) /\ Pending(<<>>) = <<>>
<1>1. IsAgenda(<<>>)
  <2>1. \A i : ~(i \in 1 .. 0)
    OBVIOUS
  <2> QED
    BY ONLY <2>1, NothingListed, Zenon DEF IsAgenda
<1>2. WalksOf(<<>>) = <<>>
  BY DEF WalksOf
<1> QED
  BY <1>1, <1>2, FlattenFew DEF Pending

KnownNodes(nodes) == Listed(nodes) /\ \A i \in 1 .. Len(nodes) : Known(nodes[i])

\* The visits of nodes.
LEMMA VisitsAre ==
  ASSUME NEW nodes, Listed(nodes)
  PROVE  /\ Listed(visits(nodes)) /\ Len(visits(nodes)) = Len(nodes)
         /\ \A i \in 1 .. Len(nodes) : visits(nodes)[i] = <<"visit", nodes[i]>>
<1>1. PICK f : f = visits(nodes)
  OBVIOUS
<1>2. PICK n \in Nat : n = Len(nodes) /\ DOMAIN nodes = 1 .. n
  BY ListedDomain
<1>3. f = [i \in 1 .. n |-> <<"visit", nodes[i]>>]
  BY <1>1, <1>2, Zenon DEF visits, Calls
<1>4. f = [i \in 1 .. n |-> f[i]] /\ \A i \in 1 .. n : f[i] = <<"visit", nodes[i]>>
  BY ONLY <1>3
<1>5. Listed(f) /\ Len(f) = n
  BY ONLY <1>4, FunctionListed
<1> QED
  BY ONLY <1>1, <1>2, <1>4, <1>5, Zenon

\* What is pending when they are to be visited.
LEMMA VisitsPending ==
  ASSUME NEW nodes, KnownNodes(nodes)
  PROVE  /\ IsAgenda(visits(nodes))
         /\ Pending(visits(nodes)) = FlattenSeq([i \in DOMAIN nodes |-> NodeWalk(nodes[i])])
<1>1. PICK n \in Nat : n = Len(nodes) /\ DOMAIN nodes = 1 .. n /\ Listed(nodes)
  BY ListedDomain DEF KnownNodes
<1>2. PICK f : f = visits(nodes)
  OBVIOUS
<1>3. Listed(f) /\ Len(f) = n /\ \A i \in 1 .. n : f[i] = <<"visit", nodes[i]>>
  BY ONLY <1>1, <1>2, VisitsAre
<1>4. ASSUME NEW i \in 1 .. n PROVE IsCall(f[i]) /\ WalkOf(f[i]) = NodeWalk(nodes[i])
  <2>1. PICK call : call = f[i]
    OBVIOUS
  <2>2. call = <<"visit", nodes[i]>>
    BY <1>3, <2>1
  <2>3. call[1] = "visit" /\ call[2] = nodes[i]
    BY ONLY <2>2
  <2>4. Known(nodes[i])
    BY <1>1 DEF KnownNodes
  <2> QED
    BY ONLY <2>1, <2>3, <2>4, Zenon DEF IsCall, WalkOf
<1>5. IsAgenda(f)
  BY <1>3, <1>4 DEF IsAgenda
<1>6. PICK s : s = WalksOf(f)
  OBVIOUS
<1>7. Listed(s) /\ Len(s) = n /\ \A i \in 1 .. n : s[i] = WalkOf(f[i])
  BY ONLY <1>3, <1>6, ItemsAre
<1>8. PICK t : t = [i \in DOMAIN nodes |-> NodeWalk(nodes[i])]
  OBVIOUS
<1>9. t = [i \in 1 .. n |-> t[i]] /\ \A i \in 1 .. n : t[i] = NodeWalk(nodes[i])
  BY ONLY <1>1, <1>8
<1>10. Listed(t) /\ Len(t) = n
  BY ONLY <1>9, FunctionListed
<1>11. s = t
  <2>1. \A i \in 1 .. n : s[i] = t[i]
    BY ONLY <1>4, <1>7, <1>9, Zenon
  <2> QED
    BY ONLY <1>7, <1>10, <2>1, SameListed
<1> QED
  BY ONLY <1>2, <1>5, <1>6, <1>8, <1>11, Zenon DEF Pending

\* Some nodes after others.
LEMMA VisitsConcat ==
  ASSUME NEW a, KnownNodes(a), NEW b, KnownNodes(b)
  PROVE  /\ KnownNodes(a \o b)
         /\ Pending(visits(a \o b)) = Pending(visits(a)) \o Pending(visits(b))
<1>1. PICK m \in Nat, n \in Nat : m = Len(a) /\ n = Len(b) /\ Listed(a) /\ Listed(b)
  BY ListedDomain DEF KnownNodes
<1>2. PICK c : c = a \o b
  OBVIOUS
<1>3. /\ Listed(c) /\ Len(c) = m + n
      /\ \A i \in 1 .. m + n : c[i] = IF i <= m THEN a[i] ELSE b[i - m]
  BY <1>1, <1>2, ListedConcat
<1>4. KnownNodes(c)
  <2>1. ASSUME NEW i \in 1 .. m + n PROVE Known(c[i])
    <3>1. CASE i <= m
      <4>1. i \in 1 .. m /\ c[i] = a[i]
        BY <1>3, <3>1
      <4> QED
        BY <1>1, <4>1 DEF KnownNodes
    <3>2. CASE ~(i <= m)
      <4>1. i - m \in 1 .. n /\ c[i] = b[i - m]
        BY <1>3, <3>2
      <4> QED
        BY <1>1, <4>1 DEF KnownNodes
    <3> QED
      BY <3>1, <3>2
  <2> QED
    BY <1>3, <2>1 DEF KnownNodes
<1>5. PICK s : s = visits(a)
  OBVIOUS
<1>6. PICK t : t = visits(b)
  OBVIOUS
<1>7. PICK u : u = visits(c)
  OBVIOUS
<1>8. /\ Listed(s) /\ Len(s) = m /\ \A i \in 1 .. m : s[i] = <<"visit", a[i]>>
      /\ Listed(t) /\ Len(t) = n /\ \A i \in 1 .. n : t[i] = <<"visit", b[i]>>
      /\ Listed(u) /\ Len(u) = m + n /\ \A i \in 1 .. m + n : u[i] = <<"visit", c[i]>>
  BY ONLY <1>1, <1>3, <1>5, <1>6, <1>7, VisitsAre
<1>9. /\ Listed(s \o t) /\ Len(s \o t) = m + n
      /\ \A i \in 1 .. m + n : (s \o t)[i] = IF i <= m THEN s[i] ELSE t[i - m]
  BY ONLY <1>8, ListedConcat
<1>10. ASSUME NEW i \in 1 .. m + n PROVE u[i] = (s \o t)[i]
  <2>1. CASE i <= m
    <3>1. i \in 1 .. m /\ c[i] = a[i] /\ (s \o t)[i] = s[i]
      BY <1>3, <1>9, <2>1
    <3> QED
      BY ONLY <1>8, <3>1, i \in 1 .. m + n, Zenon
  <2>2. CASE ~(i <= m)
    <3>1. i - m \in 1 .. n /\ c[i] = b[i - m] /\ (s \o t)[i] = t[i - m]
      BY <1>3, <1>9, <2>2
    <3> QED
      BY ONLY <1>8, <3>1, i \in 1 .. m + n, Zenon
  <2> QED
    BY <2>1, <2>2
<1>11. u = s \o t
  BY ONLY <1>8, <1>9, <1>10, SameListed
<1>12. Pending(s \o t) = Pending(s) \o Pending(t)
  BY <1>5, <1>6, VisitsPending, PendingConcat
<1> QED
  BY ONLY <1>2, <1>4, <1>5, <1>6, <1>7, <1>11, <1>12, Zenon

\* One node.
LEMMA VisitsOne ==
  ASSUME NEW n, Known(n)
  PROVE  KnownNodes(<<n>>) /\ Pending(visits(<<n>>)) = NodeWalk(n)
<1>1. PICK nodes : nodes = <<n>>
  OBVIOUS
<1>2. Listed(nodes) /\ Len(nodes) = 1 /\ nodes[1] = n
  BY ONLY <1>1, ListedOne
<1>3. 1 \in 1 .. 1 /\ \A i \in 1 .. 1 : i = 1
  OBVIOUS
<1>4. KnownNodes(nodes)
  BY ONLY <1>2, <1>3, Known(n), Zenon DEF KnownNodes
<1>5. PICK f : f = visits(nodes)
  OBVIOUS
<1>6. Listed(f) /\ Len(f) = 1 /\ f[1] = <<"visit", n>>
  BY ONLY <1>2, <1>3, <1>5, VisitsAre, Zenon
<1>7. PICK call : call = <<"visit", n>>
  OBVIOUS
<1>8. call[1] = "visit" /\ call[2] = n
  BY ONLY <1>7
<1>9. IsCall(call) /\ WalkOf(call) = NodeWalk(n)
  BY ONLY <1>8, Known(n), Zenon DEF IsCall, WalkOf
<1>10. f = <<call>>
  <2>1. PICK o : o = <<call>>
    OBVIOUS
  <2>2. Listed(o) /\ Len(o) = 1 /\ o[1] = call
    BY ONLY <2>1, ListedOne
  <2>3. Len(f) = Len(o) /\ \A i \in 1 .. Len(f) : f[i] = o[i]
    BY ONLY <1>3, <1>6, <1>7, <2>2, Zenon
  <2> QED
    BY ONLY <1>6, <2>1, <2>2, <2>3, SameListed
<1>11. Pending(<<call>>) = NodeWalk(n)
  BY ONLY <1>9, PendingOne
<1> QED
  BY ONLY <1>1, <1>4, <1>5, <1>10, <1>11, Zenon

\* A node and what is below it.
LEMMA AroundPending ==
  ASSUME NEW n, NEW nodes, KnownNodes(nodes)
  PROVE  /\ IsAgenda(around(n, nodes)) /\ around(n, nodes) # <<>>
         /\ Pending(around(n, nodes)) = Around(n, Pending(visits(nodes)))
         /\ Listed(Around(n, Pending(visits(nodes))))
<1>1. PICK pre : pre = <<"previsit", n>>
  OBVIOUS
<1>2. PICK post : post = <<"postvisit", n>>
  OBVIOUS
<1>3. IsCall(pre) /\ WalkOf(pre) = <<pre>> /\ IsCall(post) /\ WalkOf(post) = <<post>>
  <2>1. pre[1] = "previsit" /\ post[1] = "postvisit"
    BY ONLY <1>1, <1>2
  <2> QED
    BY ONLY <2>1 DEF IsCall, WalkOf
<1>4. IsAgenda(<<pre>>) /\ Pending(<<pre>>) = <<pre>> /\ IsAgenda(<<post>>) /\ Pending(<<post>>) = <<post>>
  BY ONLY <1>3, PendingOne
<1>5. PICK s : s = visits(nodes)
  OBVIOUS
<1>6. IsAgenda(s)
  BY ONLY KnownNodes(nodes), <1>5, VisitsPending
<1>7. IsAgenda(<<pre>> \o s) /\ Pending(<<pre>> \o s) = <<pre>> \o Pending(s)
  BY ONLY <1>4, <1>6, PendingConcat, ZenonT(40)
<1>8. /\ IsAgenda((<<pre>> \o s) \o <<post>>)
      /\ Pending((<<pre>> \o s) \o <<post>>) = (<<pre>> \o Pending(s)) \o <<post>>
  BY ONLY <1>4, <1>7, PendingConcat, ZenonT(40)
<1>9. around(n, nodes) = (<<pre>> \o s) \o <<post>>
  BY ONLY <1>1, <1>2, <1>5, Zenon DEF around
<1>10. Around(n, Pending(s)) = (<<pre>> \o Pending(s)) \o <<post>>
  BY ONLY <1>1, <1>2, Zenon DEF Around
<1>11. around(n, nodes) # <<>>
  <2>1. Listed(<<pre>>) /\ <<pre>> # <<>> /\ Listed(s) /\ Listed(<<post>>)
    BY <1>6, ListedOne DEF IsAgenda
  <2>2. Listed(<<pre>> \o s) /\ <<pre>> \o s # <<>>
    BY ONLY <2>1, ListedConcat
  <2>3. (<<pre>> \o s) \o <<post>> # <<>>
    BY ONLY <2>1, <2>2, ListedConcat
  <2> QED
    BY ONLY <1>9, <2>3, Zenon
<1>12. Listed(Around(n, Pending(s)))
  <2>1. Listed(Pending((<<pre>> \o s) \o <<post>>))
    BY ONLY <1>8, PendingListed, Zenon
  <2> QED
    BY ONLY <1>8, <1>10, <2>1, Zenon
<1> QED
  BY ONLY <1>5, <1>8, <1>9, <1>10, <1>11, <1>12, Zenon

\* A visitor that is to visit n is to make the calls below n.
Unfolds(n) ==
  Known(n) /\ IsAgenda(visit(n)) /\ visit(n) # <<>> /\ Pending(visit(n)) = NodeWalk(n)

\* It does so if n is visited around some nodes,
LEMMA UnfoldsAround ==
  ASSUME NEW n, NEW nodes, IsNode(n), KnownNodes(nodes), visit(n) = around(n, nodes),
         NodeWalk(n) = Around(n, Pending(visits(nodes)))
  PROVE  Unfolds(n)
BY AroundPending DEF Unfolds, Known

\* if it is a leaf,
LEMMA LeafUnfolds ==
  ASSUME NEW n, n.kind \in LeafKinds
  PROVE  Unfolds(n) /\ NodeWalk(n) = LeafWalk(n)
<1>1. visit(n) = around(n, <<>>)
  <2>1. visit(n) = visit_Leaf(n)
    BY ONLY n.kind \in LeafKinds DEF LeafKinds, visit
  <2> QED
    BY ONLY <2>1, Zenon DEF visit_Leaf
<1>2. NodeWalk(n) = LeafWalk(n)
  BY ONLY n.kind \in LeafKinds DEF LeafKinds, NodeWalk
<1>3. KnownNodes(<<>>)
  <2>1. \A i : ~(i \in 1 .. 0)
    OBVIOUS
  <2> QED
    BY ONLY <2>1, NothingListed, Zenon DEF KnownNodes
<1>4. Pending(visits(<<>>)) = <<>>
  <2>1. visits(<<>>) = <<>>
    BY DEF visits, Calls
  <2> QED
    BY <2>1, PendingNothing
<1>5. LeafWalk(n) = Around(n, Pending(visits(<<>>)))
  BY ONLY <1>4, Zenon DEF LeafWalk
<1>6. IsNode(n)
  BY DEF IsNode
<1> QED
  BY ONLY <1>1, <1>2, <1>3, <1>5, <1>6, UnfoldsAround, Zenon

\* a target,
LEMMA TargetUnfolds ==
  ASSUME NEW n, IsTarget(n)
  PROVE  Unfolds(n) /\ NodeWalk(n) = TargetWalk(n)
<1>1. n.kind = "target" /\ n.alternative.kind \in LeafKinds
  BY DEF IsTarget, IsAlternative, LeafKinds
<1>2. visit(n) = around(n, <<n.alternative>>)
  <2>1. visit(n) = visit_ASTDeductionTarget(n)
    BY ONLY <1>1 DEF visit
  <2> QED
    BY ONLY <2>1, Zenon DEF visit_ASTDeductionTarget
<1>3. NodeWalk(n) = TargetWalk(n)
  BY ONLY <1>1 DEF NodeWalk
<1>4. Known(n.alternative) /\ NodeWalk(n.alternative) = LeafWalk(n.alternative)
  BY <1>1, LeafUnfolds DEF Unfolds
<1>5. TargetWalk(n) = Around(n, Pending(visits(<<n.alternative>>)))
  <2>1. Pending(visits(<<n.alternative>>)) = LeafWalk(n.alternative)
    BY ONLY <1>4, VisitsOne
  <2> QED
    BY ONLY <2>1, Zenon DEF TargetWalk
<1>6. KnownNodes(<<n.alternative>>)
  BY ONLY <1>4, VisitsOne
<1>7. IsNode(n)
  BY DEF IsNode
<1> QED
  BY ONLY <1>2, <1>3, <1>5, <1>6, <1>7, UnfoldsAround, Zenon

\* a proposition,
LEMMA PropositionUnfolds ==
  ASSUME NEW n, IsProposition(n)
  PROVE  Unfolds(n) /\ NodeWalk(n) = PropositionWalk(n)
<1>1. n.kind = "proposition" /\ IsTarget(n.target)
  BY DEF IsProposition
<1>2. visit(n) = around(n, <<n.target>>)
  <2>1. visit(n) = visit_ASTPropositionDefn(n)
    BY ONLY <1>1 DEF visit
  <2> QED
    BY ONLY <2>1, Zenon DEF visit_ASTPropositionDefn
<1>3. NodeWalk(n) = PropositionWalk(n)
  BY ONLY <1>1 DEF NodeWalk
<1>4. Known(n.target) /\ NodeWalk(n.target) = TargetWalk(n.target)
  BY <1>1, TargetUnfolds DEF Unfolds
<1>5. PropositionWalk(n) = Around(n, Pending(visits(<<n.target>>)))
  <2>1. Pending(visits(<<n.target>>)) = TargetWalk(n.target)
    BY ONLY <1>4, VisitsOne
  <2> QED
    BY ONLY <2>1, Zenon DEF PropositionWalk
<1>6. KnownNodes(<<n.target>>)
  BY ONLY <1>4, VisitsOne
<1>7. IsNode(n)
  BY DEF IsNode
<1> QED
  BY ONLY <1>2, <1>3, <1>5, <1>6, <1>7, UnfoldsAround, Zenon

\* an equality,
LEMMA EqualityUnfolds ==
  ASSUME NEW n, IsEquality(n)
  PROVE  Unfolds(n) /\ NodeWalk(n) = EqualityWalk(n)
<1>1. n.kind = "equality" /\ IsTarget(n.lhs) /\ IsTarget(n.rhs)
  BY DEF IsEquality
<1>2. visit(n) = around(n, <<n.lhs, n.rhs>>)
  <2>1. visit(n) = visit_ASTInferenceEqualityDefn(n)
    BY ONLY <1>1 DEF visit
  <2> QED
    BY ONLY <2>1, Zenon DEF visit_ASTInferenceEqualityDefn
<1>3. NodeWalk(n) = EqualityWalk(n)
  BY ONLY <1>1 DEF NodeWalk
<1>4. /\ Known(n.lhs) /\ NodeWalk(n.lhs) = TargetWalk(n.lhs)
      /\ Known(n.rhs) /\ NodeWalk(n.rhs) = TargetWalk(n.rhs)
  BY <1>1, TargetUnfolds DEF Unfolds
<1>5. <<n.lhs, n.rhs>> = <<n.lhs>> \o <<n.rhs>>
  <2>1. PICK a : a = n.lhs
    OBVIOUS
  <2>2. PICK b : b = n.rhs
    OBVIOUS
  <2>3. <<a, b>> = <<a>> \o <<b>>
    <3>1. PICK s : s = <<a, b>>
      OBVIOUS
    <3>2. PICK t : t = Append(<<a>>, b)
      OBVIOUS
    <3>3. s \in Seq({a, b}) /\ Len(s) = 2 /\ s[1] = a /\ s[2] = b
      BY ONLY <3>1
    <3>4. Listed(<<a>>) /\ Len(<<a>>) = 1 /\ <<a>>[1] = a
      BY ONLY ListedOne
    <3>5. Listed(t) /\ Len(t) = 2 /\ t[1] = a /\ t[2] = b
      BY ONLY <3>2, <3>4, ListedAppend
    <3>6. s = t
      <4>1. Listed(s)
        BY ONLY <3>3, ListedSeq
      <4>2. \A i \in 1 .. 2 : i = 1 \/ i = 2
        OBVIOUS
      <4> QED
        BY ONLY <3>3, <3>5, <4>1, <4>2, SameListed
    <3>7. Append(<<a>>, b) = <<a>> \o <<b>>
      BY ONLY <3>4, ListedAppended
    <3> QED
      BY ONLY <3>1, <3>2, <3>6, <3>7, Zenon
  <2> QED
    BY ONLY <2>1, <2>2, <2>3, Zenon
<1>6. /\ KnownNodes(<<n.lhs>>) /\ Pending(visits(<<n.lhs>>)) = TargetWalk(n.lhs)
      /\ KnownNodes(<<n.rhs>>) /\ Pending(visits(<<n.rhs>>)) = TargetWalk(n.rhs)
  BY ONLY <1>4, VisitsOne
<1>7. /\ KnownNodes(<<n.lhs, n.rhs>>)
      /\ Pending(visits(<<n.lhs, n.rhs>>)) = TargetWalk(n.lhs) \o TargetWalk(n.rhs)
  <2>1. PICK s : s = <<n.lhs>>
    OBVIOUS
  <2>2. PICK t : t = <<n.rhs>>
    OBVIOUS
  <2>3. /\ KnownNodes(s \o t)
        /\ Pending(visits(s \o t)) = Pending(visits(s)) \o Pending(visits(t))
    BY ONLY <1>6, <2>1, <2>2, VisitsConcat
  <2> QED
    BY ONLY <1>5, <1>6, <2>1, <2>2, <2>3, Zenon
<1>8. EqualityWalk(n) = Around(n, Pending(visits(<<n.lhs, n.rhs>>)))
  BY ONLY <1>7, Zenon DEF EqualityWalk
<1>9. IsNode(n)
  BY DEF IsNode
<1> QED
  BY ONLY <1>2, <1>3, <1>7, <1>8, <1>9, UnfoldsAround, Zenon

\* a premise, which is not visited itself,
LEMMA PremiseUnfolds ==
  ASSUME NEW n, IsPremise(n)
  PROVE  Unfolds(n) /\ NodeWalk(n) = PremiseWalk(n)
<1>1. n.kind = "premise" /\ (IsInference(n.alternative) \/ IsEquality(n.alternative))
  BY DEF IsPremise
<1>2. visit(n) = visits(<<n.alternative>>)
  <2>1. visit(n) = visit_ASTPremiseDefn(n)
    BY ONLY <1>1 DEF visit
  <2> QED
    BY ONLY <2>1, Zenon DEF visit_ASTPremiseDefn
<1>3. NodeWalk(n) = PremiseWalk(n)
  BY ONLY <1>1 DEF NodeWalk
<1>4. Known(n.alternative) /\ NodeWalk(n.alternative) = PremiseWalk(n)
  <2>1. CASE IsEquality(n.alternative)
    <3>1. n.alternative.kind = "equality"
      BY <2>1 DEF IsEquality
    <3>2. Known(n.alternative) /\ NodeWalk(n.alternative) = EqualityWalk(n.alternative)
      BY <2>1, EqualityUnfolds DEF Unfolds
    <3> QED
      BY ONLY <3>1, <3>2, Zenon DEF PremiseWalk
  <2>2. CASE IsInference(n.alternative)
    <3>1. n.alternative.kind \in LeafKinds /\ n.alternative.kind # "equality"
      BY <2>2 DEF IsInference, LeafKinds
    <3>2. Known(n.alternative) /\ NodeWalk(n.alternative) = LeafWalk(n.alternative)
      BY <3>1, LeafUnfolds DEF Unfolds
    <3> QED
      BY ONLY <3>1, <3>2, Zenon DEF PremiseWalk
  <2> QED
    BY <1>1, <2>1, <2>2
<1>5. KnownNodes(<<n.alternative>>) /\ Pending(visits(<<n.alternative>>)) = PremiseWalk(n)
  BY ONLY <1>4, VisitsOne
<1>6. IsAgenda(visit(n)) /\ Pending(visit(n)) = PremiseWalk(n) /\ Listed(PremiseWalk(n))
  <2>1. IsAgenda(visits(<<n.alternative>>))
    BY ONLY <1>5, VisitsPending
  <2> QED
    BY ONLY <1>2, <1>5, <2>1, PendingListed, Zenon
<1>7. visit(n) # <<>>
  <2>1. Listed(<<n.alternative>>) /\ Len(<<n.alternative>>) = 1
    BY ONLY ListedOne
  <2>2. Len(visits(<<n.alternative>>)) = 1
    BY ONLY <2>1, VisitsAre, Zenon
  <2> QED
    BY ONLY <1>2, <2>2, SMTT(30)
<1>8. IsNode(n)
  BY DEF IsNode
<1> QED
  BY ONLY <1>3, <1>6, <1>7, <1>8, Zenon DEF Unfolds, Known

\* leaves,
LEMMA LeavesUnfold ==
  ASSUME NEW nodes, Listed(nodes), \A i \in 1 .. Len(nodes) : nodes[i].kind \in LeafKinds
  PROVE  KnownNodes(nodes) /\ Pending(visits(nodes)) = WalkAll(nodes, LeafWalk)
<1>1. \A i \in 1 .. Len(nodes) : Known(nodes[i]) /\ NodeWalk(nodes[i]) = LeafWalk(nodes[i])
  BY LeafUnfolds DEF Unfolds
<1>2. KnownNodes(nodes)
  BY <1>1 DEF KnownNodes
<1>3. DOMAIN nodes = 1 .. Len(nodes)
  BY ListedDomain
<1>4. [i \in DOMAIN nodes |-> NodeWalk(nodes[i])] = [i \in DOMAIN nodes |-> LeafWalk(nodes[i])]
  BY ONLY <1>1, <1>3
<1>5. Pending(visits(nodes)) = FlattenSeq([i \in DOMAIN nodes |-> NodeWalk(nodes[i])])
  BY ONLY <1>2, VisitsPending
<1>6. Pending(visits(nodes)) = FlattenSeq([i \in DOMAIN nodes |-> LeafWalk(nodes[i])])
  BY ONLY <1>4, <1>5, Zenon
<1> QED
  BY ONLY <1>2, <1>6, Zenon DEF WalkAll

\* premises,
LEMMA PremisesUnfold ==
  ASSUME NEW nodes, Listed(nodes), \A i \in 1 .. Len(nodes) : IsPremise(nodes[i])
  PROVE  KnownNodes(nodes) /\ Pending(visits(nodes)) = WalkAll(nodes, PremiseWalk)
<1>1. \A i \in 1 .. Len(nodes) : Known(nodes[i]) /\ NodeWalk(nodes[i]) = PremiseWalk(nodes[i])
  BY PremiseUnfolds DEF Unfolds
<1>2. KnownNodes(nodes)
  BY <1>1 DEF KnownNodes
<1>3. DOMAIN nodes = 1 .. Len(nodes)
  BY ListedDomain
<1>4. [i \in DOMAIN nodes |-> NodeWalk(nodes[i])] = [i \in DOMAIN nodes |-> PremiseWalk(nodes[i])]
  BY ONLY <1>1, <1>3
<1>5. Pending(visits(nodes)) = FlattenSeq([i \in DOMAIN nodes |-> NodeWalk(nodes[i])])
  BY ONLY <1>2, VisitsPending
<1>6. Pending(visits(nodes)) = FlattenSeq([i \in DOMAIN nodes |-> PremiseWalk(nodes[i])])
  BY ONLY <1>4, <1>5, Zenon
<1> QED
  BY ONLY <1>2, <1>6, Zenon DEF WalkAll

\* an inference_defn,
LEMMA DefnUnfolds ==
  ASSUME NEW n, IsDefn(n)
  PROVE  Unfolds(n) /\ NodeWalk(n) = DefnWalk(n)
<1>1. /\ n.kind = "defn" /\ AllAre(n.globals, IsGlobal) /\ AllAre(n.arguments, IsArgument)
      /\ AllAre(n.premises, IsPremise) /\ IsProposition(n.proposition)
  BY DEF IsDefn
<1>2. visit(n) = around(n, ((n.globals \o n.arguments) \o n.premises) \o <<n.proposition>>)
  <2>1. visit(n) = visit_ASTInferenceDefn(n)
    BY ONLY <1>1 DEF visit
  <2> QED
    BY ONLY <2>1, Zenon DEF visit_ASTInferenceDefn
<1>3. NodeWalk(n) = DefnWalk(n)
  BY ONLY <1>1 DEF NodeWalk
<1>4. KnownNodes(n.globals) /\ Pending(visits(n.globals)) = WalkAll(n.globals, LeafWalk)
  <2>1. Listed(n.globals) /\ \A i \in 1 .. Len(n.globals) : n.globals[i].kind \in LeafKinds
    BY <1>1 DEF AllAre, IsGlobal, LeafKinds
  <2> QED
    BY ONLY <2>1, LeavesUnfold
<1>5. KnownNodes(n.arguments) /\ Pending(visits(n.arguments)) = WalkAll(n.arguments, LeafWalk)
  <2>1. Listed(n.arguments) /\ \A i \in 1 .. Len(n.arguments) : n.arguments[i].kind \in LeafKinds
    BY <1>1 DEF AllAre, IsArgument, LeafKinds
  <2> QED
    BY ONLY <2>1, LeavesUnfold
<1>6. KnownNodes(n.premises) /\ Pending(visits(n.premises)) = WalkAll(n.premises, PremiseWalk)
  <2>1. Listed(n.premises) /\ \A i \in 1 .. Len(n.premises) : IsPremise(n.premises[i])
    BY ONLY <1>1, Zenon DEF AllAre
  <2> QED
    BY ONLY <2>1, PremisesUnfold
<1>7. /\ KnownNodes(<<n.proposition>>)
      /\ Pending(visits(<<n.proposition>>)) = PropositionWalk(n.proposition)
  <2>1. Known(n.proposition) /\ NodeWalk(n.proposition) = PropositionWalk(n.proposition)
    BY <1>1, PropositionUnfolds DEF Unfolds
  <2> QED
    BY ONLY <2>1, VisitsOne
<1>8. /\ KnownNodes(n.globals \o n.arguments)
      /\ Pending(visits(n.globals \o n.arguments))
           = WalkAll(n.globals, LeafWalk) \o WalkAll(n.arguments, LeafWalk)
  BY ONLY <1>4, <1>5, VisitsConcat, ZenonT(40)
<1>9. /\ KnownNodes((n.globals \o n.arguments) \o n.premises)
      /\ Pending(visits((n.globals \o n.arguments) \o n.premises))
           = (WalkAll(n.globals, LeafWalk) \o WalkAll(n.arguments, LeafWalk))
               \o WalkAll(n.premises, PremiseWalk)
  BY ONLY <1>6, <1>8, VisitsConcat, ZenonT(40)
<1>10. /\ KnownNodes(((n.globals \o n.arguments) \o n.premises) \o <<n.proposition>>)
       /\ Pending(visits(((n.globals \o n.arguments) \o n.premises) \o <<n.proposition>>))
            = ((WalkAll(n.globals, LeafWalk) \o WalkAll(n.arguments, LeafWalk))
                 \o WalkAll(n.premises, PremiseWalk)) \o PropositionWalk(n.proposition)
  BY ONLY <1>7, <1>9, VisitsConcat, ZenonT(40)
<1>11. DefnWalk(n)
         = Around(n, Pending(visits(((n.globals \o n.arguments) \o n.premises)
                                      \o <<n.proposition>>)))
  BY ONLY <1>10, Zenon DEF DefnWalk
<1>12. IsNode(n)
  BY DEF IsNode
<1> QED
  BY ONLY <1>2, <1>3, <1>10, <1>11, <1>12, UnfoldsAround, Zenon

\* those of a group,
LEMMA DefnsUnfold ==
  ASSUME NEW nodes, Listed(nodes), \A i \in 1 .. Len(nodes) : IsDefn(nodes[i])
  PROVE  KnownNodes(nodes) /\ Pending(visits(nodes)) = WalkAll(nodes, DefnWalk)
<1>1. \A i \in 1 .. Len(nodes) : Known(nodes[i]) /\ NodeWalk(nodes[i]) = DefnWalk(nodes[i])
  BY DefnUnfolds DEF Unfolds
<1>2. KnownNodes(nodes)
  BY <1>1 DEF KnownNodes
<1>3. DOMAIN nodes = 1 .. Len(nodes)
  BY ListedDomain
<1>4. [i \in DOMAIN nodes |-> NodeWalk(nodes[i])] = [i \in DOMAIN nodes |-> DefnWalk(nodes[i])]
  BY ONLY <1>1, <1>3
<1>5. Pending(visits(nodes)) = FlattenSeq([i \in DOMAIN nodes |-> NodeWalk(nodes[i])])
  BY ONLY <1>2, VisitsPending
<1>6. Pending(visits(nodes)) = FlattenSeq([i \in DOMAIN nodes |-> DefnWalk(nodes[i])])
  BY ONLY <1>4, <1>5, Zenon
<1> QED
  BY ONLY <1>2, <1>6, Zenon DEF WalkAll

\* a group,
LEMMA GroupUnfolds ==
  ASSUME NEW n, IsGroup(n)
  PROVE  Unfolds(n) /\ NodeWalk(n) = GroupWalk(n)
<1>1. n.kind = "group" /\ AllAre(n.env, IsField) /\ AllAre(n.defns, IsDefn)
  BY DEF IsGroup
<1>2. visit(n) = around(n, n.env \o n.defns)
  <2>1. visit(n) = visit_ASTInferenceGroup(n)
    BY ONLY <1>1 DEF visit
  <2> QED
    BY ONLY <2>1, Zenon DEF visit_ASTInferenceGroup
<1>3. NodeWalk(n) = GroupWalk(n)
  BY ONLY <1>1 DEF NodeWalk
<1>4. KnownNodes(n.env) /\ Pending(visits(n.env)) = WalkAll(n.env, LeafWalk)
  <2>1. Listed(n.env) /\ \A i \in 1 .. Len(n.env) : n.env[i].kind \in LeafKinds
    BY <1>1 DEF AllAre, IsField, LeafKinds
  <2> QED
    BY ONLY <2>1, LeavesUnfold
<1>5. KnownNodes(n.defns) /\ Pending(visits(n.defns)) = WalkAll(n.defns, DefnWalk)
  <2>1. Listed(n.defns) /\ \A i \in 1 .. Len(n.defns) : IsDefn(n.defns[i])
    BY ONLY <1>1, Zenon DEF AllAre
  <2> QED
    BY ONLY <2>1, DefnsUnfold
<1>6. /\ KnownNodes(n.env \o n.defns)
      /\ Pending(visits(n.env \o n.defns)) = WalkAll(n.env, LeafWalk) \o WalkAll(n.defns, DefnWalk)
  BY ONLY <1>4, <1>5, VisitsConcat, ZenonT(40)
<1>7. GroupWalk(n) = Around(n, Pending(visits(n.env \o n.defns)))
  BY ONLY <1>6, Zenon DEF GroupWalk
<1>8. IsNode(n)
  BY DEF IsNode
<1> QED
  BY ONLY <1>2, <1>3, <1>6, <1>7, <1>8, UnfoldsAround, Zenon

\* groups,
LEMMA GroupsUnfold ==
  ASSUME NEW nodes, Listed(nodes), \A i \in 1 .. Len(nodes) : IsGroup(nodes[i])
  PROVE  KnownNodes(nodes) /\ Pending(visits(nodes)) = WalkAll(nodes, GroupWalk)
<1>1. \A i \in 1 .. Len(nodes) : Known(nodes[i]) /\ NodeWalk(nodes[i]) = GroupWalk(nodes[i])
  BY GroupUnfolds DEF Unfolds
<1>2. KnownNodes(nodes)
  BY <1>1 DEF KnownNodes
<1>3. DOMAIN nodes = 1 .. Len(nodes)
  BY ListedDomain
<1>4. [i \in DOMAIN nodes |-> NodeWalk(nodes[i])] = [i \in DOMAIN nodes |-> GroupWalk(nodes[i])]
  BY ONLY <1>1, <1>3
<1>5. Pending(visits(nodes)) = FlattenSeq([i \in DOMAIN nodes |-> NodeWalk(nodes[i])])
  BY ONLY <1>2, VisitsPending
<1>6. Pending(visits(nodes)) = FlattenSeq([i \in DOMAIN nodes |-> GroupWalk(nodes[i])])
  BY ONLY <1>4, <1>5, Zenon
<1> QED
  BY ONLY <1>2, <1>6, Zenon DEF WalkAll

\* and a module.
LEMMA ModuleUnfolds ==
  ASSUME NEW n, IsModule(n)
  PROVE  Unfolds(n) /\ NodeWalk(n) = ModuleWalk(n)
<1>1. n.kind = "module" /\ AllAre(n.groups, IsGroup)
  BY DEF IsModule
<1>2. visit(n) = around(n, n.groups)
  <2>1. visit(n) = visit_ASTModule(n)
    BY ONLY <1>1 DEF visit
  <2> QED
    BY ONLY <2>1, Zenon DEF visit_ASTModule
<1>3. NodeWalk(n) = ModuleWalk(n)
  BY ONLY <1>1 DEF NodeWalk
<1>4. KnownNodes(n.groups) /\ Pending(visits(n.groups)) = WalkAll(n.groups, GroupWalk)
  <2>1. Listed(n.groups) /\ \A i \in 1 .. Len(n.groups) : IsGroup(n.groups[i])
    BY ONLY <1>1, Zenon DEF AllAre
  <2> QED
    BY ONLY <2>1, GroupsUnfold
<1>5. ModuleWalk(n) = Around(n, Pending(visits(n.groups)))
  BY ONLY <1>4, Zenon DEF ModuleWalk
<1>6. IsNode(n)
  BY DEF IsNode
<1> QED
  BY ONLY <1>2, <1>3, <1>4, <1>5, <1>6, UnfoldsAround, Zenon

\* So does every node that a visitor knows.
LEMMA NodeUnfolds ==
  ASSUME NEW n, IsNode(n)
  PROVE  Unfolds(n)
BY LeafUnfolds, TargetUnfolds, PropositionUnfolds, EqualityUnfolds, PremiseUnfolds, DefnUnfolds,
   GroupUnfolds, ModuleUnfolds DEF IsNode

\* A callback that does not refuse.
Accepts(refused, call) == <<call[1], call[2].kind>> \notin refused

\* The calls made and those that are pending are together the text of the
\* module, and the module stays what it is until the last of them.
WalkInv ==
  /\ Listed(calls)
  /\ agenda # <<>> \/ calls # <<>> => result # Running /\ buffer = NoBuffer
  /\ agenda # <<>> =>
       /\ IsAgenda(agenda) /\ calls \o Pending(agenda) = ModuleWalk(module)
       /\ \A i \in 1 .. Len(calls) : Accepts(refuses, calls[i])
       /\ verdict = Walking
  /\ agenda = <<>> /\ calls # <<>> =>
       /\ IsPrefix(calls, ModuleWalk(module))
       /\ \A i \in 1 .. Len(calls) - 1 : Accepts(refuses, calls[i])
       /\ verdict = (calls = ModuleWalk(module) /\ Accepts(refuses, Last(calls)))

\* The next call, and those after it.
LEMMA AgendaHead ==
  ASSUME NEW a, IsAgenda(a), a # <<>>
  PROVE  /\ IsCall(Head(a)) /\ IsAgenda(Tail(a))
         /\ Pending(a) = WalkOf(Head(a)) \o Pending(Tail(a))
<1>1. PICK c : c = Head(a)
  OBVIOUS
<1>2. PICK t : t = Tail(a)
  OBVIOUS
<1>3. /\ a = <<c>> \o t /\ Listed(t) /\ Len(a) \in Nat /\ Len(a) >= 1 /\ Len(t) = Len(a) - 1
      /\ c = a[1] /\ \A i \in 1 .. Len(a) - 1 : t[i] = a[i + 1]
  BY <1>1, <1>2, ListedHead DEF IsAgenda
<1>4. 1 \in 1 .. Len(a) /\ \A i \in 1 .. Len(a) - 1 : i + 1 \in 1 .. Len(a)
  BY ONLY <1>3
<1>5. \A i \in 1 .. Len(a) : IsCall(a[i])
  BY DEF IsAgenda
<1>6. IsCall(c)
  BY ONLY <1>3, <1>4, <1>5
<1>7. IsAgenda(t)
  BY ONLY <1>3, <1>4, <1>5 DEF IsAgenda
<1>8. Pending(<<c>> \o t) = WalkOf(c) \o Pending(t)
  BY ONLY <1>6, <1>7, PendingOne, PendingConcat, ZenonT(40)
<1> QED
  BY ONLY <1>1, <1>2, <1>3, <1>6, <1>7, <1>8, Zenon

\* A list is the beginning of what is put behind it.
LEMMA PrefixOfConcat ==
  ASSUME NEW s, Listed(s), NEW t, Listed(t)
  PROVE  IsPrefix(s, s \o t)
<1>1. PICK u : u = s \o t
  OBVIOUS
<1>2. PICK m \in Nat, n \in Nat : m = Len(s) /\ n = Len(t)
  BY ListedDomain
<1>3. Listed(u) /\ Len(u) = m + n /\ \A i \in 1 .. m + n : u[i] = IF i <= m THEN s[i] ELSE t[i - m]
  BY <1>1, <1>2, ListedConcat
<1>4. m \in 0 .. Len(u) /\ m \in 0 .. Len(s) /\ m <= Len(u)
  BY <1>2, <1>3
<1>5. PICK f : f = SubSeq(u, 1, m)
  OBVIOUS
<1>6. PICK g : g = SubSeq(s, 1, m)
  OBVIOUS
<1>7. /\ Listed(f) /\ Len(f) = m /\ \A i \in 1 .. m : f[i] = u[i]
      /\ Listed(g) /\ Len(g) = m /\ \A i \in 1 .. m : g[i] = s[i]
  BY <1>3, <1>4, <1>5, <1>6, ListedSubSeq
<1>8. \A i \in 1 .. m : i \in 1 .. m + n /\ i <= m
  OBVIOUS
<1>9. \A i \in 1 .. m : f[i] = g[i]
  BY ONLY <1>3, <1>7, <1>8
<1>10. f = g
  BY ONLY <1>7, <1>9, SameListed
<1> QED
  BY ONLY <1>1, <1>2, <1>4, <1>5, <1>6, <1>10, Zenon DEF IsPrefix

\* Nothing is walked at first.
LEMMA WalkInvInit == Init => WalkInv
BY NothingListed DEF Init, VisitorInit, WalkInv

\* A walk begins with all of the module pending.
LEMMA WalkModuleStep ==
  ASSUME TreeInv, WalkInv, WalkModule
  PROVE  WalkInv'
<1>1. /\ agenda' = visits(<<module>>) /\ calls' = <<>> /\ verdict' = Walking
      /\ UNCHANGED <<result, buffer, module>> /\ result # Running /\ buffer = NoBuffer
  BY DEF WalkModule, StartVisit, Idle, scannerVars, parserVars
<1>2. Known(module) /\ NodeWalk(module) = ModuleWalk(module)
  BY ModuleUnfolds DEF TreeInv, Unfolds
<1>3. KnownNodes(<<module>>) /\ Pending(visits(<<module>>)) = ModuleWalk(module)
  BY ONLY <1>2, VisitsOne
<1>4. IsAgenda(visits(<<module>>))
  BY ONLY <1>3, VisitsPending
<1>5. visits(<<module>>) # <<>>
  <2>1. Listed(<<module>>) /\ Len(<<module>>) = 1
    BY ONLY ListedOne
  <2>2. Len(visits(<<module>>)) = 1
    BY ONLY <2>1, VisitsAre, Zenon
  <2> QED
    BY ONLY <2>2
<1>6. <<>> \o ModuleWalk(module) = ModuleWalk(module)
  BY ONLY <1>2, NothingListed, ListedConcat DEF Known
<1>7. \A i : ~(i \in 1 .. 0)
  OBVIOUS
<1>8. /\ Listed(calls') /\ Len(calls') = 0 /\ agenda' # <<>> /\ IsAgenda(agenda')
      /\ calls' \o Pending(agenda') = ModuleWalk(module')
      /\ result' # Running /\ buffer' = NoBuffer
  BY ONLY <1>1, <1>3, <1>4, <1>5, <1>6, NothingListed, Zenon
<1> QED
  BY ONLY <1>1, <1>7, <1>8, Zenon DEF WalkInv

\* A visit makes calls of the same text.
LEMMA VisitNodeStep ==
  ASSUME WalkInv, VisitNode, UNCHANGED <<result, buffer, module>>
  PROVE  WalkInv'
<1>1. PICK c : c = Head(agenda)
  OBVIOUS
<1>2. PICK t : t = Tail(agenda)
  OBVIOUS
<1>3. /\ agenda # <<>> /\ c[1] = "visit" /\ agenda' = visit(c[2]) \o t
      /\ UNCHANGED <<calls, refuses, verdict>>
  BY <1>1, <1>2 DEF VisitNode, NextIs
<1>4. /\ IsAgenda(agenda) /\ Listed(calls) /\ calls \o Pending(agenda) = ModuleWalk(module)
      /\ verdict = Walking /\ result # Running /\ buffer = NoBuffer
      /\ \A i \in 1 .. Len(calls) : Accepts(refuses, calls[i])
  BY <1>3 DEF WalkInv
<1>5. IsCall(c) /\ IsAgenda(t) /\ Pending(agenda) = WalkOf(c) \o Pending(t)
  BY ONLY <1>1, <1>2, <1>3, <1>4, AgendaHead
<1>6. IsNode(c[2]) /\ WalkOf(c) = NodeWalk(c[2])
  BY <1>3, <1>5 DEF IsCall, Known, WalkOf
<1>7. PICK v : v = visit(c[2])
  OBVIOUS
<1>8. IsAgenda(v) /\ v # <<>> /\ Pending(v) = NodeWalk(c[2])
  BY <1>6, <1>7, NodeUnfolds DEF Unfolds
<1>9. IsAgenda(v \o t) /\ Pending(v \o t) = Pending(v) \o Pending(t)
  BY ONLY <1>5, <1>8, PendingConcat
<1>10. v \o t # <<>>
  <2>1. Listed(v) /\ Listed(t)
    BY <1>5, <1>8 DEF IsAgenda
  <2> QED
    BY ONLY <1>8, <2>1, ListedConcat
<1>11. agenda' # <<>> /\ IsAgenda(agenda') /\ calls' \o Pending(agenda') = ModuleWalk(module')
  BY ONLY <1>3, <1>4, <1>5, <1>6, <1>7, <1>8, <1>9, <1>10, UNCHANGED <<result, buffer, module>>
<1>12. \A i \in 1 .. Len(calls') : Accepts(refuses', calls'[i])
  BY <1>3, <1>4 DEF Accepts
<1> QED
  BY <1>3, <1>4, <1>11, <1>12 DEF WalkInv

\* A callback is the next of it.
LEMMA CallbackStep ==
  ASSUME WalkInv, Callback, UNCHANGED <<result, buffer, module>>
  PROVE  WalkInv'
<1>1. PICK c : c = Head(agenda)
  OBVIOUS
<1>2. PICK t : t = Tail(agenda)
  OBVIOUS
<1>3. /\ agenda # <<>> /\ c[1] # "visit" /\ calls' = Append(calls, c) /\ refuses' = refuses
      /\ Accepts(refuses, c) => agenda' = t /\ verdict' = IF agenda' = <<>> THEN TRUE ELSE Walking
      /\ ~Accepts(refuses, c) => agenda' = <<>> /\ verdict' = FALSE
  BY <1>1, <1>2 DEF Callback, NextIs, Accepts
<1>4. /\ IsAgenda(agenda) /\ Listed(calls) /\ calls \o Pending(agenda) = ModuleWalk(module)
      /\ verdict = Walking /\ result # Running /\ buffer = NoBuffer
      /\ \A i \in 1 .. Len(calls) : Accepts(refuses, calls[i])
  BY <1>3 DEF WalkInv
<1>5. IsCall(c) /\ IsAgenda(t) /\ Pending(agenda) = WalkOf(c) \o Pending(t)
  BY ONLY <1>1, <1>2, <1>3, <1>4, AgendaHead
<1>6. WalkOf(c) = <<c>>
  BY ONLY <1>3 DEF WalkOf
<1>7. PICK k : k = Append(calls, c)
  OBVIOUS
<1>8. /\ Listed(k) /\ k # <<>> /\ Len(calls) \in Nat /\ Len(k) = Len(calls) + 1 /\ Last(k) = c
      /\ k[Len(calls) + 1] = c /\ \A i \in 1 .. Len(calls) : k[i] = calls[i]
  BY ONLY <1>4, <1>7, ListedAppend
<1>9. k \o Pending(t) = ModuleWalk(module)
  <2>1. k = calls \o <<c>>
    BY ONLY <1>4, <1>7, ListedAppended
  <2>2. PICK o : o = <<c>>
    OBVIOUS
  <2>3. Listed(o)
    BY ONLY <2>2, ListedOne
  <2>4. PICK p : p = Pending(t)
    OBVIOUS
  <2>5. Listed(p)
    BY ONLY <1>5, <2>4, PendingListed
  <2>6. (calls \o o) \o p = calls \o (o \o p)
    BY ONLY <1>4, <2>3, <2>5, ListedAssociative
  <2> QED
    BY ONLY <1>4, <1>5, <1>6, <2>1, <2>2, <2>4, <2>6, Zenon
<1>10. IsPrefix(k, ModuleWalk(module))
  <2>1. PICK p : p = Pending(t)
    OBVIOUS
  <2>2. Listed(p)
    BY ONLY <1>5, <2>1, PendingListed
  <2>3. IsPrefix(k, k \o p)
    BY ONLY <1>8, <2>2, PrefixOfConcat
  <2> QED
    BY ONLY <1>9, <2>1, <2>3, Zenon
<1>11. calls' = k /\ module' = module /\ result' # Running /\ buffer' = NoBuffer
  BY <1>3, <1>4, <1>7
<1>12. \A i \in 1 .. Len(k) - 1 : Accepts(refuses', k[i])
  <2>1. Len(k) - 1 = Len(calls)
    BY ONLY <1>8
  <2> QED
    BY <1>3, <1>4, <1>8, <2>1 DEF Accepts
<1>13. Accepts(refuses', c) <=> Accepts(refuses, c)
  BY <1>3 DEF Accepts
<1>14. CASE ~Accepts(refuses, c)
  <2>1. agenda' = <<>> /\ verdict' = FALSE /\ ~Accepts(refuses', Last(calls'))
    BY <1>3, <1>8, <1>11, <1>13, <1>14 DEF Accepts
  <2>2. verdict' = (calls' = ModuleWalk(module') /\ Accepts(refuses', Last(calls')))
    BY ONLY <2>1, Zenon
  <2> QED
    BY <1>8, <1>10, <1>11, <1>12, <2>1, <2>2 DEF WalkInv
<1>15. CASE Accepts(refuses, c) /\ t = <<>>
  <2>1. agenda' = <<>> /\ verdict' = TRUE /\ Accepts(refuses', Last(calls'))
    BY <1>3, <1>8, <1>11, <1>13, <1>15 DEF Accepts
  <2>2. k = ModuleWalk(module)
    <3>1. k \o <<>> = k
      BY ONLY <1>8, NothingListed, ListedConcat
    <3> QED
      BY ONLY <1>9, <1>15, <3>1, PendingNothing, Zenon
  <2>3. verdict' = (calls' = ModuleWalk(module') /\ Accepts(refuses', Last(calls')))
    <3>1. calls' = ModuleWalk(module')
      BY <1>11, <2>2
    <3> QED
      BY ONLY <2>1, <3>1, Zenon
  <2> QED
    BY <1>8, <1>10, <1>11, <1>12, <2>1, <2>3 DEF WalkInv
<1>16. CASE Accepts(refuses, c) /\ t # <<>>
  <2>1. agenda' = t /\ verdict' = Walking
    BY <1>3, <1>16
  <2>2. \A i \in 1 .. Len(k) : Accepts(refuses', k[i])
    <3>1. \A i \in 1 .. Len(k) : i = Len(calls) + 1 \/ i \in 1 .. Len(k) - 1
      BY ONLY <1>8
    <3> QED
      BY ONLY <1>8, <1>12, <1>13, <1>16, <3>1, Zenon
  <2>3. /\ IsAgenda(agenda') /\ calls' \o Pending(agenda') = ModuleWalk(module')
        /\ agenda' # <<>> /\ Listed(calls')
    BY ONLY <1>5, <1>8, <1>9, <1>11, <1>16, <2>1, Zenon
  <2> QED
    BY <1>11, <2>1, <2>2, <2>3 DEF WalkInv
<1> QED
  BY <1>14, <1>15, <1>16

\* Every step keeps the invariant of the walk.
LEMMA WalkInvStep ==
  ASSUME TreeInv, WalkInv, [Next]_vars
  PROVE  WalkInv'
<1>1. ASSUME UNCHANGED <<agenda, calls, refuses, verdict>>,
             agenda # <<>> \/ calls # <<>> => UNCHANGED <<result, buffer, module>>
      PROVE  WalkInv'
  <2>1. CASE agenda # <<>> \/ calls # <<>>
    BY <1>1, <2>1 DEF WalkInv, Accepts
  <2>2. CASE agenda = <<>> /\ calls = <<>>
    BY <1>1, <2>2, NothingListed DEF WalkInv
  <2> QED
    BY <2>1, <2>2
<1>2. CASE CallParser
  BY <1>1, <1>2 DEF CallParser, Idle, visitorVars
<1>3. CASE ParseStep
  BY <1>1, <1>3 DEF ParseStep, visitorVars, WalkInv
<1>4. CASE parseReturns
  BY <1>1, <1>4 DEF parseReturns, visitorVars, WalkInv
<1>5. CASE WalkModule
  BY <1>5, WalkModuleStep
<1>6. CASE VisitStep
  <2>1. UNCHANGED <<result, buffer, module>>
    BY <1>6 DEF VisitStep, scannerVars, parserVars
  <2> QED
    BY <1>6, <2>1, VisitNodeStep, CallbackStep DEF VisitStep, Visit
<1>7. CASE Done \/ UNCHANGED vars
  <2>1. UNCHANGED <<agenda, calls, refuses, verdict, result, buffer, module>>
    BY <1>7 DEF Done, vars, visitorVars, scannerVars, parserVars
  <2> QED
    BY <1>1, <2>1
<1> QED
  BY <1>2, <1>3, <1>4, <1>5, <1>6, <1>7 DEF Next

\* The three invariants hold of any texts parsed and any walk after them.
THEOREM WalkInvariant == Spec => [](ParseInv /\ TreeInv /\ WalkInv)
<1>1. Init => ParseInv /\ TreeInv /\ WalkInv
  BY ParseInvInit, TreeInvInit, WalkInvInit
<1>2. ParseInv /\ TreeInv /\ WalkInv /\ [Next]_vars => (ParseInv /\ TreeInv /\ WalkInv)'
  BY ParseInvStep, TreeInvStep, WalkInvStep
<1> QED
  BY <1>1, <1>2, PTL DEF Spec

\* Whatever the text and whatever the visitor refuses, it is called for the nodes
\* of the module in the order of the text, each once before and once after what
\* is below it, up to the first callback that refuses; and it is told of that.
THEOREM WalkIsTheText == Spec => []WalkFollowsTheText
<1>1. ParseInv /\ TreeInv /\ WalkInv => WalkFollowsTheText
  <2> SUFFICES ASSUME WalkInv, calls # <<>>
               PROVE  /\ IsPrefix(calls, ModuleWalk(module))
                      /\ \A i \in 1 .. Len(calls) - 1 : Accepts(refuses, calls[i])
                      /\ verdict # Walking =>
                           verdict = (calls = ModuleWalk(module) /\ Accepts(refuses, Last(calls)))
    BY Zenon DEF WalkFollowsTheText, Accepts
  <2>1. CASE agenda # <<>>
    <3>1. /\ IsAgenda(agenda) /\ Listed(calls) /\ verdict = Walking
          /\ calls \o Pending(agenda) = ModuleWalk(module)
          /\ \A i \in 1 .. Len(calls) : Accepts(refuses, calls[i])
      BY <2>1 DEF WalkInv
    <3>2. IsPrefix(calls, ModuleWalk(module))
      BY <3>1, PendingListed, PrefixOfConcat
    <3>3. \A i \in 1 .. Len(calls) - 1 : i \in 1 .. Len(calls)
      BY <3>1, ListedDomain
    <3> QED
      BY ONLY <3>1, <3>2, <3>3, Zenon
  <2>2. CASE agenda = <<>>
    BY <2>2, Zenon DEF WalkInv
  <2> QED
    BY <2>1, <2>2
<1> QED
  BY WalkInvariant, <1>1, PTL

=============================================================================
