----------------------------- MODULE MCAnalyzer -----------------------------
(***************************************************************************)
(* Modules of up to two groups with up to two inference definitions each:  *)
(* repeated names of every kind, missing and repeated environment fields,  *)
(* and the modules of MCAnalyzerRules, under every combination of          *)
(* bailOnFirstError and warningsAsErrors.                                  *)
(***************************************************************************)
EXTENDS MCAnalyzerRules

MCNames == {"a", "b", "u", "x", "y"}
MCSizes == {1, 2}

Field(f) == [field |-> f, value |-> "a"]
FullEnv == <<Field("ClassName"), Field("TypeClass"),
             Field("ProofMethod"), Field("TypeCmpMethod")>>
Envs == {FullEnv,
         FullEnv \o <<Field("ClassName")>>,
         Tail(FullEnv),
         Tail(FullEnv) \o <<Field("ProofMethod"), Field("TypeCmpMethod")>>}

\* a : b, then b as the proposition.
Target_b == [form |-> "singular", name |-> "b", size |-> NoSize, args |-> {}]
Premise_ab == [kind |-> "inference", source |-> "a", target |-> Target_b,
               while |-> FALSE, last |-> 1]

Rule(name, globals, arguments, premises) ==
  [name |-> name, globals |-> globals, arguments |-> arguments,
   premises |-> premises, proposition |-> Target_b]

Lists == {<<>>, <<"a">>, <<"b", "b">>}
Rules == {Rule(n, gs, as, <<Premise_ab>>) : n \in {"a", "b"}, gs, as \in Lists}

UpToTwo(S) == {<<>>} \cup {<<x>> : x \in S} \cup {<<x, y>> : x, y \in S}

\* Rule lists for modules of two groups: fine, with warnings, with errors.
Fine    == Rule("a", <<>>, <<"a">>, <<Premise_ab>>)
Warned  == Rule("b", <<"a", "a", "a">>, <<>>, <<Premise_ab>>)
Refused == Rule("b", <<>>, <<"a">>, <<>>)
SomeLists == {<<>>, <<Fine>>, <<Fine, Warned>>, <<Warned, Warned>>, <<Refused, Fine>>}

Groups(envs, lists) ==
  {[name |-> n, env |-> e, defns |-> ds] : n \in {"a", "b"}, e \in envs, ds \in lists}

NameModules ==
  UpToTwo(Groups(Envs, SomeLists))
    \cup {<<grp>> : grp \in Groups({FullEnv, Tail(FullEnv)}, UpToTwo(Rules))}

MCModules == RuleModules \cup NameModules

=============================================================================
