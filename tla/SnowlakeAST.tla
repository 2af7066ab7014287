---------------------------- MODULE SnowlakeAST ----------------------------
(***************************************************************************)
(* The abstract syntax trees that the parser hands to the semantic         *)
(* analyzer and the synthesizer (src/ast.h, built by src/parser/parser.yy).*)
(*                                                                         *)
(* Identifiers and literals are members of small sets.  A premise list is  *)
(* kept in pre-order: a premise that opens a while-clause is followed by   *)
(* the premises of its body, and its field "last" is the index of the last *)
(* of them (its own index when the body is empty or there is none).        *)
(***************************************************************************)
EXTENDS Naturals, Sequences

CONSTANTS
  Names,     \* identifiers
  Sizes,     \* integer literals in array targets
  NoSize,    \* "no size literal": the empty optional of an array target
  NoRange    \* "no range-clause": the empty optional of an equality premise

\* Deduction targets: x, x[], x[2], f(x, y).  A computed target keeps the
\* names its arguments mention, a target of the other two forms has none.
Target ==
  [form: {"singular"}, name: Names, size: {NoSize}, args: {{}}]
    \cup [form: {"array"}, name: Names, size: Sizes \cup {NoSize}, args: {{}}]
    \cup [form: {"computed"}, name: Names, size: {NoSize}, args: SUBSET Names]

HasSizeLiteral(t) == t.size # NoSize

\* source : target [while { ... }]
InferencePremise ==
  [kind: {"inference"}, source: Names, target: Target,
   while: BOOLEAN, last: Nat]

\* lhs <op> rhs [inrange m..n..range]
EqualityPremise ==
  [kind: {"equality"}, lhs: Target, rhs: Target,
   range: Target \cup {NoRange}, last: Nat]

Premise == InferencePremise \cup EqualityPremise

OpensWhile(pr) == pr.kind = "inference" /\ pr.while

\* While-clause bodies are properly nested intervals of a premise list.
WellNested(ps) ==
  \A i \in DOMAIN ps :
    /\ ps[i].last \in i .. Len(ps)
    /\ OpensWhile(ps[i]) \/ ps[i].last = i
    /\ \A j \in i .. ps[i].last : ps[j].last <= ps[i].last

PremiseDefnList == {ps \in Seq(Premise) : WellNested(ps)}

InferenceDefn ==
  [name: Names, globals: Seq(Names), arguments: Seq(Names),
   premises: PremiseDefnList, proposition: Target]

\* The environment fields the compiler reads; a group may set any others.
MandatoryFields == {"ClassName", "TypeClass", "ProofMethod", "TypeCmpMethod"}
WhileFields     == {"TypeAnnotationSetupMethod", "TypeAnnotationTeardownMethod"}

EnvironmentDefn == [field: MandatoryFields \cup WhileFields, value: Names]

InferenceGroup ==
  [name: Names, env: Seq(EnvironmentDefn), defns: Seq(InferenceDefn)]

Module == Seq(InferenceGroup)

-----------------------------------------------------------------------------
(* Accessors shared by the passes over the tree.                           *)

\* The values of one field along a list of nodes.
NamesOf(nodes) == [i \in DOMAIN nodes |-> nodes[i].name]
FieldsOf(env)  == [i \in DOMAIN env |-> env[i].field]

\* Positions of a sequence whose element occurred before: what a loop that
\* collects the elements in a set reports, one report per position.
Repeats(s) == {j \in DOMAIN s : \E i \in DOMAIN s : i < j /\ s[i] = s[j]}

ElementsOf(s) == {s[i] : i \in DOMAIN s}

=============================================================================
