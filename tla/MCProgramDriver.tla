--------------------------- MODULE MCProgramDriver ---------------------------
(***************************************************************************)
(* Modules of up to two groups with one definition: accepted and refused, *)
(* with a warning, with the same or another class name, with and without   *)
(* while-clauses and the fields these need.                                *)
(***************************************************************************)
EXTENDS ProgramDriver

MCNames == {"a", "x", "A", "B"}
MCSizes == {1}

MCTarget == [form |-> "singular", name |-> "x", size |-> NoSize, args |-> {}]

MCPremise(source, while, last) ==
  [kind |-> "inference", source |-> source, target |-> MCTarget,
   while |-> while, last |-> last]

\* A deduction, one inside a while-clause, one from an unknown source, and a
\* while-clause with such a source around a good deduction.
PremiseLists ==
  { <<MCPremise("a", FALSE, 1)>>,
    <<MCPremise("a", TRUE, 2), MCPremise("a", FALSE, 2)>>,
    <<MCPremise("x", FALSE, 1)>>,
    <<MCPremise("x", TRUE, 2), MCPremise("a", FALSE, 2)>> }

Env(class, fields) ==
  <<[field |-> "ClassName", value |-> class], [field |-> "TypeClass", value |-> "x"],
    [field |-> "ProofMethod", value |-> "x"], [field |-> "TypeCmpMethod", value |-> "x"]>>
  \o [i \in DOMAIN fields |-> [field |-> fields[i], value |-> "x"]]

Fixtures == <<"TypeAnnotationSetupMethod", "TypeAnnotationTeardownMethod">>

MCGroup(name, class, fields, globals, ps) ==
  [name |-> name, env |-> Env(class, fields),
   defns |-> <<[name |-> "x", globals |-> globals, arguments |-> <<"a">>,
                premises |-> ps, proposition |-> MCTarget]>>]

MCGroups(name) ==
  {MCGroup(name, class, fields, globals, ps) :
     class \in {"A", "B"}, fields \in {<<>>, Fixtures},
     globals \in {<<>>, <<"x", "x">>}, ps \in PremiseLists}

Fine(name) == {grp \in MCGroups(name) : grp.defns[1].premises \in
                 {<<MCPremise("a", FALSE, 1)>>,
                  <<MCPremise("a", TRUE, 2), MCPremise("a", FALSE, 2)>>}
                 /\ grp.defns[1].globals = <<>>}

MCModules ==
  {<<>>} \cup {<<grp>> : grp \in MCGroups("x")}
    \cup {<<grp1, grp2>> : grp1 \in Fine("x"), grp2 \in Fine("x") \cup Fine("a")}

=============================================================================
