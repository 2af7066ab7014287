-------------------------- MODULE SemanticAnalysis --------------------------
(***************************************************************************)
(* What semantic analysis promises: one verdict per module, a function of  *)
(* the module and of "warnings as errors" alone.  It is stated over the    *)
(* whole tree at once, without tables, cursors or early returns;           *)
(* SemanticAnalyzer.tla is the pass that has to agree with it.             *)
(***************************************************************************)
EXTENDS SnowlakeAST

VARIABLES
  module,   \* the module under analysis
  opts,     \* [bail, werror]: bailOnFirstError and warningsAsErrors
  verdict   \* "pending", then "accepted" or "rejected"

Options == [bail: BOOLEAN, werror: BOOLEAN]

NoRepeats(s) == \A i, j \in DOMAIN s : s[i] = s[j] => i = j

-----------------------------------------------------------------------------
\* Two deductions under one name agree when they have the same form and size.
SameShape(t, u) == t.form = u.form /\ t.size = u.size

\* Premise i deduces a target that later premises can refer to by name n.
Deduces(defn, i, n) ==
  LET pr == defn.premises[i]
  IN  pr.kind = "inference" /\ pr.target.form # "computed" /\ pr.target.name = n

\* Some premise before position i deduces a target of t's name and shape.
DeducedBefore(defn, i, t) ==
  \/ t.form = "computed"
  \/ \E j \in DOMAIN defn.premises :
       j < i /\ Deduces(defn, j, t.name) /\ SameShape(defn.premises[j].target, t)

\* A single type (a name or an indexed element), as opposed to a collection.
IsElement(t) == t.form = "singular" \/ HasSizeLiteral(t)

Comparable(lhs, rhs) ==
  "computed" \in {lhs.form, rhs.form} \/ (IsElement(lhs) <=> IsElement(rhs))

InferencePremiseOK(defn, i) ==
  LET pr == defn.premises[i]
  IN  /\ pr.source \in ElementsOf(defn.globals) \cup ElementsOf(defn.arguments)
      /\ pr.target.form # "computed" =>
           \A j \in DOMAIN defn.premises :
             j < i /\ Deduces(defn, j, pr.target.name) =>
               SameShape(defn.premises[j].target, pr.target)

EqualityPremiseOK(defn, i) ==
  LET pr == defn.premises[i]
  IN  /\ Comparable(pr.lhs, pr.rhs)
      /\ pr.range # NoRange =>
           pr.range.form # "singular" /\ DeducedBefore(defn, i, pr.range)

PremiseOK(defn, i) ==
  IF defn.premises[i].kind = "inference"
  THEN InferencePremiseOK(defn, i)
  ELSE EqualityPremiseOK(defn, i)

SymbolsOK(defn, werror) ==
  /\ werror => NoRepeats(defn.globals)
  /\ NoRepeats(defn.arguments)
  /\ ElementsOf(defn.globals) \cap ElementsOf(defn.arguments) = {}

DefnOK(defn, werror) ==
  /\ SymbolsOK(defn, werror)
  /\ \A i \in DOMAIN defn.premises : PremiseOK(defn, i)
  /\ DeducedBefore(defn, Len(defn.premises) + 1, defn.proposition)

GroupHeaderOK(group, werror) ==
  /\ werror => NoRepeats(FieldsOf(group.env))
  /\ MandatoryFields \subseteq ElementsOf(FieldsOf(group.env))
  /\ NoRepeats(NamesOf(group.defns))

GroupOK(group, werror) ==
  /\ GroupHeaderOK(group, werror)
  /\ \A i \in DOMAIN group.defns : DefnOK(group.defns[i], werror)

ModuleOK(mod, werror) ==
  /\ NoRepeats(NamesOf(mod))
  /\ \A i \in DOMAIN mod : GroupOK(mod[i], werror)

-----------------------------------------------------------------------------
Init ==
  /\ module \in Module
  /\ opts \in Options
  /\ verdict = "pending"

Decide ==
  /\ verdict = "pending"
  /\ verdict' = IF ModuleOK(module, opts.werror) THEN "accepted" ELSE "rejected"
  /\ UNCHANGED <<module, opts>>

Spec == Init /\ [][Decide]_<<module, opts, verdict>>

=============================================================================
