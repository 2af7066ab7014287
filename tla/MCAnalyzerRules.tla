--------------------------- MODULE MCAnalyzerRules ---------------------------
(***************************************************************************)
(* One group with one inference definition, every premise list of up to    *)
(* three premises over the targets and sources below, with every placement *)
(* of while-clauses.                                                       *)
(***************************************************************************)
EXTENDS SemanticAnalyzer

T(form, name, size, args) ==
  [form |-> form, name |-> name, size |-> size, args |-> args]

Single   == T("singular", "x", NoSize, {})
Other    == T("singular", "y", NoSize, {})
Array    == T("array", "x", NoSize, {})
Sized(n) == T("array", "x", n, {})
Computed == T("computed", "x", NoSize, {"y"})

\* Premises without their place in the list.
Inferences ==
  {[kind |-> "inference", source |-> "a", target |-> t, while |-> w] :
     t \in {Single, Array, Sized(1), Sized(2), Computed}, w \in BOOLEAN}
  \cup {[kind |-> "inference", source |-> "u", target |-> Single, while |-> w] :
          w \in BOOLEAN}

Equalities ==
  {[kind |-> "equality", lhs |-> l, rhs |-> r, range |-> NoRange] :
     l, r \in {Single, Other, Array, Sized(1)}}
  \cup {[kind |-> "equality", lhs |-> Computed, rhs |-> Array, range |-> NoRange]}
  \cup {[kind |-> "equality", lhs |-> Array, rhs |-> Array, range |-> t] :
          t \in {Single, Other, Array, Sized(1), Computed}}

\* A premise with the index its while-clause ends at.
At(pr, last) ==
  [k \in DOMAIN pr \cup {"last"} |-> IF k = "last" THEN last ELSE pr[k]]

PremiseLists ==
  {ps \in UNION {{[i \in 1 .. n |-> At(prs[i], ends[i])] :
                    prs \in [1 .. n -> Inferences \cup Equalities],
                    ends \in {e \in [1 .. n -> 1 .. n] :
                                \A i \in 1 .. n : e[i] >= i}} : n \in 0 .. 2} :
     WellNested(ps)}

\* Lists of three: what a while-clause does to the premises in and after it.
Core == {pr \in Inferences : pr.target \in {Single, Array, Sized(1)}}
  \cup {pr \in Equalities : pr.range \in {Array, Sized(1)}
                              \/ (pr.lhs = Single /\ pr.rhs = Array
                                   /\ pr.range = NoRange)}

LongLists ==
  {ps \in {[i \in 1 .. 3 |-> At(prs[i], ends[i])] :
             prs \in [1 .. 3 -> Core],
             ends \in {e \in [1 .. 3 -> 1 .. 3] :
                         \A i \in 1 .. 3 : e[i] >= i}} : WellNested(ps)}

Env == <<[field |-> "ClassName", value |-> "u"],
         [field |-> "TypeClass", value |-> "u"],
         [field |-> "ProofMethod", value |-> "u"],
         [field |-> "TypeCmpMethod", value |-> "u"]>>

RuleModules ==
  {<<[name |-> "u", env |-> Env,
      defns |-> <<[name |-> "u", globals |-> <<>>, arguments |-> args,
                   premises |-> ps, proposition |-> t]>>]>> :
     args \in {<<"a">>, <<"a", "a">>}, ps \in PremiseLists,
     t \in {Single, Sized(1)}}
  \cup
  {<<[name |-> "u", env |-> Env,
      defns |-> <<[name |-> "u", globals |-> <<>>, arguments |-> <<"a">>,
                   premises |-> ps, proposition |-> Single]>>]>> :
     ps \in LongLists}

=============================================================================
