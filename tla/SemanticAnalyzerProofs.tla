----------------------- MODULE SemanticAnalyzerProofs -----------------------
(***************************************************************************)
(* Proofs about SemanticAnalyzer, for every set of names, sizes and        *)
(* modules: its types, what it reports, and that its verdict is the one    *)
(* SemanticAnalysis defines.                                               *)
(***************************************************************************)
EXTENDS SemanticAnalyzer, FiniteSetTheorems, TLAPS

-----------------------------------------------------------------------------
(* Targets and the target table.                                           *)

\* The three forms of a target, and what each says of the other fields.
LEMMA TargetForms ==
  ASSUME NEW t \in Target
  PROVE  /\ t.form \in {"singular", "array", "computed"}
         /\ t.name \in Names
         /\ t.size \in Sizes \cup {NoSize}
         /\ t.form # "array" => t.size = NoSize
BY DEF Target

\* The case analysis of AreTargetsCompatible amounts to: a single type is
\* compared with a single type, a collection with a collection.
LEMMA CompatibleIsComparable ==
  ASSUME NEW t \in Target, NEW u \in Target
  PROVE  AreTargetsCompatible(t, u) <=> Analysis!Comparable(t, u)
BY TargetForms DEF AreTargetsCompatible, Analysis!Comparable,
     Analysis!IsElement, Analysis!HasSizeLiteral, HasSizeLiteral

\* A target matches the table exactly when the entry has its form and size.
LEMMA CompatibleInTable ==
  ASSUME NEW t \in Target, NEW tbl \in TargetTable
  PROVE  HasCompatibleTargetInTable(t, tbl) <=>
           \/ t.form = "computed"
           \/ /\ tbl[t.name] # NoTarget
              /\ Analysis!SameShape(tbl[t.name], t)
<1>1. t.name \in Names
  BY TargetForms
<1>2. CASE tbl[t.name] = NoTarget
  BY <1>2, TargetForms DEF HasCompatibleTargetInTable, InTable
<1>3. CASE tbl[t.name] # NoTarget
  <2>1. tbl[t.name] \in Target
    BY <1>1, <1>3 DEF TargetTable
  <2> QED
    BY <1>3, <2>1, TargetForms DEF HasCompatibleTargetInTable, InTable,
       SameArraySize, HasSizeLiteral, Analysis!SameShape
<1> QED
  BY <1>2, <1>3

\* HasIncompatibleTargetInTable is not the negation of its twin: a name that
\* is not in the table is neither compatible nor incompatible.
LEMMA IncompatibleInTable ==
  ASSUME NEW t \in Target, NEW tbl \in TargetTable
  PROVE  HasIncompatibleTargetInTable(t, tbl) <=>
           /\ t.form # "computed"
           /\ tbl[t.name] # NoTarget
           /\ ~Analysis!SameShape(tbl[t.name], t)
<1>1. t.name \in Names
  BY TargetForms
<1>2. CASE tbl[t.name] = NoTarget
  BY <1>2, TargetForms DEF HasIncompatibleTargetInTable, InTable
<1>3. CASE tbl[t.name] # NoTarget
  <2>1. tbl[t.name] \in Target
    BY <1>1, <1>3 DEF TargetTable
  <2> QED
    BY <1>3, <2>1, TargetForms DEF HasIncompatibleTargetInTable, InTable,
       SameArraySize, HasSizeLiteral, Analysis!SameShape
<1> QED
  BY <1>2, <1>3

\* Adding a target leaves a target table.
LEMMA AddKeepsTableType ==
  ASSUME NEW t \in Target, NEW tbl \in TargetTable
  PROVE  AddTargetToTable(t, tbl) \in TargetTable
BY TargetForms DEF AddTargetToTable, TargetTable

-----------------------------------------------------------------------------
(* Counting problems: a callback finds none exactly when the declarative   *)
(* condition holds.                                                        *)

\* A list without repeats is one of which no repeat is counted.
LEMMA RepeatsCount ==
  ASSUME NEW n \in Nat, NEW s, DOMAIN s = 1 .. n
  PROVE  /\ Cardinality(Repeats(s)) \in Nat
         /\ Cardinality(Repeats(s)) = 0 <=> Analysis!NoRepeats(s)
<1>1. Repeats(s) \subseteq 1 .. n
  BY DEF Repeats
<1>2. IsFiniteSet(Repeats(s))
  BY <1>1, FS_Interval, FS_Subset, 1 \in Int, n \in Int
<1>3. Repeats(s) = {} <=> Analysis!NoRepeats(s)
  <2>1. ASSUME Repeats(s) = {}, NEW i \in 1 .. n, NEW j \in 1 .. n, s[i] = s[j]
        PROVE  i = j
    <3>1. ~(i < j) /\ ~(j < i)
      BY <2>1 DEF Repeats
    <3> QED
      BY <3>1
  <2>2. ASSUME Analysis!NoRepeats(s), NEW j \in Repeats(s)
        PROVE  FALSE
    BY <2>2 DEF Repeats, Analysis!NoRepeats
  <2> QED
    BY <2>1, <2>2 DEF Analysis!NoRepeats
<1> QED
  BY <1>2, <1>3, FS_EmptySet, FS_CardinalityType

\* No missing field is counted exactly when every mandatory one is there.
LEMMA MissingFieldsCount ==
  ASSUME NEW grp
  PROVE  /\ Cardinality(MissingFields(grp)) \in Nat
         /\ Cardinality(MissingFields(grp)) = 0
              <=> MandatoryFields \subseteq ElementsOf(FieldsOf(grp.env))
         /\ Cardinality(MissingFields(grp)) = 0 <=> MissingFields(grp) = {}
<1>1. IsFiniteSet(MandatoryFields)
  <2>1. IsFiniteSet({})
    BY FS_EmptySet
  <2>2. IsFiniteSet({"ClassName"})
    BY FS_Singleton
  <2>3. IsFiniteSet({"ClassName"} \cup {"TypeClass"})
    BY <2>2, FS_AddElement
  <2>4. IsFiniteSet(({"ClassName"} \cup {"TypeClass"}) \cup {"ProofMethod"})
    BY <2>3, FS_AddElement
  <2>5. IsFiniteSet((({"ClassName"} \cup {"TypeClass"}) \cup {"ProofMethod"})
                      \cup {"TypeCmpMethod"})
    BY <2>4, FS_AddElement
  <2>6. MandatoryFields = (({"ClassName"} \cup {"TypeClass"}) \cup {"ProofMethod"})
                            \cup {"TypeCmpMethod"}
    BY DEF MandatoryFields
  <2> QED
    BY <2>5, <2>6
<1>2. IsFiniteSet(MissingFields(grp))
  BY <1>1, FS_Subset DEF MissingFields
<1> QED
  BY <1>2, FS_EmptySet, FS_CardinalityType DEF MissingFields

\* No argument is counted as repeated exactly when the arguments are distinct
\* and none is a global.
LEMMA ArgumentRepeatsCount ==
  ASSUME NEW defn \in InferenceDefn
  PROVE  /\ Cardinality(ArgumentRepeats(defn)) \in Nat
         /\ Cardinality(ArgumentRepeats(defn)) = 0 <=>
              /\ Analysis!NoRepeats(defn.arguments)
              /\ ElementsOf(defn.globals) \cap ElementsOf(defn.arguments) = {}
<1> DEFINE n == Len(defn.arguments)
<1>1. n \in Nat /\ DOMAIN defn.arguments = 1 .. n
  BY DEF InferenceDefn
<1>2. IsFiniteSet(ArgumentRepeats(defn))
  <2>1. ArgumentRepeats(defn) \subseteq 1 .. n
    BY <1>1 DEF ArgumentRepeats
  <2> QED
    BY <1>1, <2>1, FS_Interval, FS_Subset, 1 \in Int, n \in Int
<1>3. ArgumentRepeats(defn) = {} <=>
        /\ Repeats(defn.arguments) = {}
        /\ ElementsOf(defn.globals) \cap ElementsOf(defn.arguments) = {}
  BY DEF ArgumentRepeats, ElementsOf, Repeats
<1>4. Repeats(defn.arguments) = {} <=> Analysis!NoRepeats(defn.arguments)
  <2>1. IsFiniteSet(Repeats(defn.arguments))
    <3>1. Repeats(defn.arguments) \subseteq 1 .. n
      BY <1>1 DEF Repeats
    <3> QED
      BY <1>1, <3>1, FS_Interval, FS_Subset, 1 \in Int, n \in Int
  <2> QED
    BY <1>1, <2>1, RepeatsCount, FS_EmptySet
<1> QED
  BY <1>2, <1>3, <1>4, FS_EmptySet, FS_CardinalityType

\* Any number of problems is reported as none only when it is none.
LEMMA ReportedCount ==
  ASSUME TypeOK, NEW n \in Nat
  PROVE  /\ Reported(n) \in Nat
         /\ Reported(n) = 0 <=> n = 0
         /\ opts.bail => Reported(n) \in {0, 1}
BY DEF Reported, TypeOK, Options

\* Repeats count as errors exactly under warningsAsErrors.
LEMMA AsErrorsCount ==
  ASSUME TypeOK, NEW n \in Nat
  PROVE  /\ AsErrors(n) \in Nat /\ AsWarnings(n) \in Nat
         /\ AsErrors(n) = 0 <=> (opts.werror => n = 0)
BY DEF AsErrors, AsWarnings, TypeOK, Options

-----------------------------------------------------------------------------
(* Types.                                                                  *)

\* The nodes the cursor points at.
LEMMA TreeTypes ==
  ASSUME TypeOK
  PROVE  /\ module \in Module
         /\ Len(module) \in Nat /\ DOMAIN module = 1 .. Len(module)
         /\ pc \in {"group", "defn", "premise"} =>
              /\ Group \in InferenceGroup
              /\ Len(Group.defns) \in Nat
              /\ DOMAIN Group.defns = 1 .. Len(Group.defns)
         /\ pc \in {"defn", "premise"} => Defn \in InferenceDefn
         /\ pc = "premise" =>
              /\ Len(Premises) \in Nat
              /\ DOMAIN Premises = 1 .. Len(Premises)
              /\ \A i \in DOMAIN Premises : /\ Premises[i] \in Premise
                                            /\ Premises[i].last \in i .. Len(Premises)
<1>1. module \in Module
  BY DEF TypeOK
<1>2. Len(module) \in Nat /\ DOMAIN module = 1 .. Len(module)
  BY <1>1 DEF Module
<1>3. ASSUME pc \in {"group", "defn", "premise"}
      PROVE  /\ Group \in InferenceGroup
             /\ Len(Group.defns) \in Nat
             /\ DOMAIN Group.defns = 1 .. Len(Group.defns)
  <2>1. Group \in InferenceGroup
    BY <1>1, <1>2, <1>3 DEF TypeOK, CursorOK, Group, Module
  <2> QED
    BY <2>1 DEF InferenceGroup
<1>4. ASSUME pc \in {"defn", "premise"}
      PROVE  Defn \in InferenceDefn
  <2>1. Group.defns \in Seq(InferenceDefn)
    BY <1>3, <1>4 DEF InferenceGroup
  <2>2. d \in DOMAIN Group.defns
    BY <1>4 DEF TypeOK, CursorOK
  <2> QED
    BY <2>1, <2>2 DEF Defn
<1>5. ASSUME pc = "premise"
      PROVE  /\ Len(Premises) \in Nat
             /\ DOMAIN Premises = 1 .. Len(Premises)
             /\ \A i \in DOMAIN Premises : /\ Premises[i] \in Premise
                                           /\ Premises[i].last \in i .. Len(Premises)
  <2>1. Premises \in PremiseDefnList
    BY <1>4, <1>5 DEF Premises, InferenceDefn
  <2> QED
    BY <2>1 DEF PremiseDefnList, WellNested
<1> QED
  BY <1>1, <1>2, <1>3, <1>4, <1>5

\* The two kinds of premises and their targets.
LEMMA PremiseFields ==
  ASSUME NEW pr \in Premise
  PROVE  /\ pr.kind \in {"inference", "equality"}
         /\ pr.kind = "inference" => pr \in InferencePremise /\ pr.target \in Target
         /\ pr.kind = "equality" =>
              /\ pr \in EqualityPremise
              /\ pr.lhs \in Target /\ pr.rhs \in Target
              /\ pr.range \in Target \cup {NoRange}
BY DEF Premise, InferencePremise, EqualityPremise

\* The number of problems of each premise is zero exactly when every check
\* passes.
LEMMA ProblemCounts ==
  ASSUME NEW pr
  PROVE  /\ InferenceProblems(pr) \in Nat
         /\ InferenceProblems(pr) = 0 <=>
              /\ pr.source \in symbolSet
              /\ ~HasIncompatibleTargetInTable(pr.target, targetTbl)
         /\ EqualityProblems(pr) \in Nat
         /\ EqualityProblems(pr) = 0 <=>
              /\ AreTargetsCompatible(pr.lhs, pr.rhs)
              /\ pr.range # NoRange =>
                   /\ pr.range.form # "singular"
                   /\ HasCompatibleTargetInTable(pr.range, targetTbl)
BY DEF InferenceProblems, EqualityProblems, RangeProblems, Problems

\* The sums of problems of the two callbacks that look at a header.
LEMMA GroupProblemCounts ==
  ASSUME TypeOK, pc = "group"
  PROVE  LET repeated == Cardinality(Repeats(FieldsOf(Group.env)))
             problems == AsErrors(repeated) + Cardinality(MissingFields(Group))
                           + NameProblems(Group)
         IN  /\ repeated \in Nat /\ problems \in Nat
             /\ AsWarnings(repeated) \in Nat
             /\ problems = 0 <=> Analysis!GroupHeaderOK(Group, opts.werror)
<1> DEFINE repeated == Cardinality(Repeats(FieldsOf(Group.env)))
           names    == Cardinality(Repeats(NamesOf(Group.defns)))
<1>1. Group \in InferenceGroup
  BY TreeTypes
<1>2. /\ DOMAIN FieldsOf(Group.env) = 1 .. Len(Group.env) /\ Len(Group.env) \in Nat
      /\ DOMAIN NamesOf(Group.defns) = 1 .. Len(Group.defns)
      /\ Len(Group.defns) \in Nat
  BY <1>1 DEF InferenceGroup, FieldsOf, NamesOf
<1>3. /\ repeated \in Nat
      /\ repeated = 0 <=> Analysis!NoRepeats(FieldsOf(Group.env))
  BY <1>2, RepeatsCount
<1>4. /\ names \in Nat
      /\ names = 0 <=> Analysis!NoRepeats(NamesOf(Group.defns))
  BY <1>2, RepeatsCount
<1>5. /\ AsErrors(repeated) \in Nat /\ AsWarnings(repeated) \in Nat
      /\ AsErrors(repeated) = 0 <=> (opts.werror => repeated = 0)
  BY <1>3, AsErrorsCount
<1>6. /\ Analysis!FieldsOf(Group.env) = FieldsOf(Group.env)
      /\ Analysis!NamesOf(Group.defns) = NamesOf(Group.defns)
      /\ Analysis!MandatoryFields = MandatoryFields
      /\ Analysis!ElementsOf(FieldsOf(Group.env)) = ElementsOf(FieldsOf(Group.env))
  BY DEF Analysis!FieldsOf, FieldsOf, Analysis!NamesOf, NamesOf,
     Analysis!MandatoryFields, MandatoryFields, Analysis!ElementsOf, ElementsOf
<1>7. /\ NameProblems(Group) \in Nat
      /\ MissingFields(Group) = {} => NameProblems(Group) = names
  BY <1>4 DEF NameProblems
<1> QED
  BY <1>3, <1>4, <1>5, <1>6, <1>7, MissingFieldsCount DEF Analysis!GroupHeaderOK

\* Likewise for the symbols of a definition.
LEMMA DefnProblemCounts ==
  ASSUME TypeOK, pc = "defn"
  PROVE  LET repeated == Cardinality(Repeats(Defn.globals))
             problems == AsErrors(repeated) + Cardinality(ArgumentRepeats(Defn))
         IN  /\ repeated \in Nat /\ problems \in Nat
             /\ AsWarnings(repeated) \in Nat
             /\ problems = 0 <=> Analysis!SymbolsOK(Defn, opts.werror)
<1> DEFINE repeated == Cardinality(Repeats(Defn.globals))
<1>1. Defn \in InferenceDefn
  BY TreeTypes
<1>2. DOMAIN Defn.globals = 1 .. Len(Defn.globals) /\ Len(Defn.globals) \in Nat
  BY <1>1 DEF InferenceDefn
<1>3. repeated \in Nat /\ (repeated = 0 <=> Analysis!NoRepeats(Defn.globals))
  BY <1>2, RepeatsCount
<1>4. /\ AsErrors(repeated) \in Nat /\ AsWarnings(repeated) \in Nat
      /\ AsErrors(repeated) = 0 <=> (opts.werror => repeated = 0)
  BY <1>3, AsErrorsCount
<1>5. /\ Analysis!ElementsOf(Defn.globals) = ElementsOf(Defn.globals)
      /\ Analysis!ElementsOf(Defn.arguments) = ElementsOf(Defn.arguments)
  BY DEF Analysis!ElementsOf, ElementsOf
<1> QED
  BY <1>1, <1>3, <1>4, <1>5, ArgumentRepeatsCount DEF Analysis!SymbolsOK

-----------------------------------------------------------------------------
(* Moving on.  After a callback that returned true, everything before the  *)
(* new cursor is fine; running out of groups means the module is.          *)

\* Moving on from a group whose predecessors are all fine.
LEMMA VisitGroupsStep ==
  ASSUME TypeOK, UNCHANGED <<module, opts>>, p' \in Nat \ {0},
         NEW n \in Nat \ {0}, VisitGroups(n),
         n - 1 <= Len(module),
         Analysis!NoRepeats(NamesOf(module)),
         \A i \in 1 .. n - 1 : Analysis!GroupOK(module[i], opts.werror)
  PROVE  /\ pc' \in {"group", "accepted"}
         /\ CursorOK' /\ TraversedInv' /\ VerdictInv'
<1>1. /\ pc' = IF n \in 1 .. Len(module) THEN "group" ELSE "accepted"
      /\ g' = n /\ d' = 1
  BY TreeTypes DEF VisitGroups
<1>2. CursorOK'
  BY <1>1, TreeTypes DEF CursorOK
<1>3. TraversedInv'
  BY <1>1 DEF TraversedInv
<1>4. VerdictInv'
  <2>1. CASE pc' = "group"
    BY <2>1 DEF VerdictInv, Done
  <2>2. CASE pc' = "accepted"
    <3>1. n - 1 = Len(module)
      BY <1>1, <2>2, TreeTypes
    <3>2. Analysis!NamesOf(module) = NamesOf(module)
      BY DEF Analysis!NamesOf, NamesOf
    <3>3. Analysis!ModuleOK(module, opts.werror)
      BY <3>1, <3>2, TreeTypes DEF Analysis!ModuleOK
    <3> QED
      BY <2>2, <3>3 DEF VerdictInv, Done
  <2> QED
    BY <1>1, <2>1, <2>2
<1> QED
  BY <1>1, <1>2, <1>3, <1>4

\* Moving on from a definition whose predecessors in the group are all fine.
LEMMA VisitDefnsStep ==
  ASSUME TypeOK, TraversedInv, UNCHANGED <<module, opts>>, p' \in Nat \ {0},
         pc \in {"group", "premise"},
         NEW n \in Nat \ {0}, VisitDefns(n),
         n - 1 <= Len(Group.defns),
         Analysis!GroupHeaderOK(Group, opts.werror),
         \A i \in 1 .. n - 1 : Analysis!DefnOK(Group.defns[i], opts.werror)
  PROVE  /\ pc' \in {"defn", "group", "accepted"}
         /\ CursorOK' /\ TraversedInv' /\ VerdictInv'
<1>1. /\ g \in Nat \ {0} /\ g <= Len(module)
      /\ Len(Group.defns) \in Nat /\ DOMAIN Group.defns = 1 .. Len(Group.defns)
  BY TreeTypes DEF TypeOK, CursorOK
<1>2. CASE n \in DOMAIN Group.defns
  <2>1. pc' = "defn" /\ d' = n /\ g' = g
    BY <1>2 DEF VisitDefns
  <2>2. Group' = Group
    BY <2>1 DEF Group
  <2>3. CursorOK'
    BY <1>1, <1>2, <2>1, <2>2, TreeTypes DEF CursorOK, TypeOK
  <2>4. TraversedInv'
    BY <2>1, <2>2 DEF TraversedInv
  <2> QED
    BY <2>1, <2>3, <2>4 DEF VerdictInv, Done
<1>3. CASE n \notin DOMAIN Group.defns
  <2>1. VisitGroups(g + 1)
    BY <1>3 DEF VisitDefns
  <2>2. n - 1 = Len(Group.defns)
    BY <1>1, <1>3
  <2>3. Analysis!GroupOK(Group, opts.werror)
    BY <1>1, <2>2 DEF Analysis!GroupOK
  <2>4. \A i \in 1 .. (g + 1) - 1 : Analysis!GroupOK(module[i], opts.werror)
    BY <1>1, <2>3 DEF TraversedInv, Group
  <2>5. Analysis!NoRepeats(NamesOf(module))
    BY DEF TraversedInv
  <2>6. g + 1 \in Nat \ {0} /\ (g + 1) - 1 <= Len(module)
    BY <1>1, TreeTypes
  <2> QED
    BY <2>1, <2>4, <2>5, <2>6, VisitGroupsStep
<1> QED
  BY <1>2, <1>3

\* A refused node refuses everything above it.
LEMMA RefusedGroup ==
  ASSUME TypeOK, pc \in {"group", "defn", "premise"},
         ~Analysis!GroupOK(Group, opts.werror)
  PROVE  ~Analysis!ModuleOK(module, opts.werror)
BY DEF TypeOK, CursorOK, Group, Analysis!ModuleOK

\* So does a refused definition,
LEMMA RefusedDefn ==
  ASSUME TypeOK, pc \in {"defn", "premise"},
         ~Analysis!DefnOK(Defn, opts.werror)
  PROVE  ~Analysis!ModuleOK(module, opts.werror)
<1>1. ~Analysis!GroupOK(Group, opts.werror)
  BY DEF TypeOK, CursorOK, Defn, Analysis!GroupOK
<1> QED
  BY <1>1, RefusedGroup

\* and a refused premise.
LEMMA RefusedPremise ==
  ASSUME TypeOK, pc = "premise", NEW j \in DOMAIN Premises,
         ~Analysis!PremiseOK(Defn, j)
  PROVE  ~Analysis!ModuleOK(module, opts.werror)
<1>1. ~Analysis!DefnOK(Defn, opts.werror)
  BY DEF Premises, Analysis!DefnOK
<1> QED
  BY <1>1, RefusedDefn

-----------------------------------------------------------------------------
(* The checks against the table decide the declarative conditions.         *)

\* Both modules mean the same by a deduction.
LEMMA DeducesSame ==
  ASSUME NEW j, NEW n
  PROVE  Deduces(j, n) <=> Analysis!Deduces(Defn, j, n)
BY DEF Deduces, Analysis!Deduces, Premises

\* While no premise was refused, an entry agrees with everything deduced
\* under its name.
LEMMA TableAgrees ==
  ASSUME TypeOK, pc = "premise", TableInv, PremisesInv, failed = {},
         NEW j \in 1 .. p - 1, NEW n \in Names, Deduces(j, n)
  PROVE  /\ targetTbl[n] # NoTarget
         /\ Analysis!SameShape(targetTbl[n], Premises[j].target)
<1>1. p - 1 \in Nat /\ \A i \in 1 .. p - 1 : i \in DOMAIN Premises
  BY TreeTypes DEF TypeOK, CursorOK
<1>2. targetTbl[n] # NoTarget
  BY DEF TableInv
<1>3. PICK k \in 1 .. p - 1 : Deduces(k, n) /\ targetTbl[n] = Premises[k].target
  BY <1>2 DEF TableInv
<1>4. ASSUME NEW a \in 1 .. p - 1, NEW b \in 1 .. p - 1, a < b,
             Deduces(a, n), Deduces(b, n)
      PROVE  Analysis!SameShape(Premises[a].target, Premises[b].target)
  <2>1. Analysis!PremiseOK(Defn, b)
    BY DEF PremisesInv
  <2>2. Analysis!InferencePremiseOK(Defn, b)
    BY <1>4, <2>1 DEF Deduces, Premises, Analysis!PremiseOK
  <2> QED
    BY <1>1, <1>4, <2>2, DeducesSame
    DEF Deduces, Premises, Analysis!InferencePremiseOK
<1>5. CASE k < j
  BY <1>3, <1>4, <1>5, <1>2
<1>6. CASE j < k
  BY <1>3, <1>4, <1>6, <1>2 DEF Analysis!SameShape
<1>7. CASE j = k
  BY <1>3, <1>7, <1>2 DEF Analysis!SameShape
<1> QED
  BY <1>5, <1>6, <1>7

\* Looking a target up in the table answers "was it deduced before?".
LEMMA LookupDecides ==
  ASSUME TypeOK, pc = "premise", TableInv, PremisesInv, failed = {},
         NEW t \in Target
  PROVE  HasCompatibleTargetInTable(t, targetTbl) <=> Analysis!DeducedBefore(Defn, p, t)
<1>1. targetTbl \in TargetTable /\ t.name \in Names
  BY TargetForms DEF TypeOK
<1>2. p - 1 \in Nat /\ \A j : j \in 1 .. p - 1 <=> j \in DOMAIN Premises /\ j < p
  BY TreeTypes DEF TypeOK, CursorOK
<1>3. ASSUME targetTbl[t.name] # NoTarget,
             Analysis!SameShape(targetTbl[t.name], t)
      PROVE  Analysis!DeducedBefore(Defn, p, t)
  <2>1. PICK k \in 1 .. p - 1 : /\ Deduces(k, t.name)
                                /\ targetTbl[t.name] = Premises[k].target
    BY <1>1, <1>3 DEF TableInv
  <2> QED
    BY <1>2, <1>3, <2>1, DeducesSame DEF Premises, Analysis!DeducedBefore
<1>4. ASSUME Analysis!DeducedBefore(Defn, p, t), t.form # "computed"
      PROVE  /\ targetTbl[t.name] # NoTarget
             /\ Analysis!SameShape(targetTbl[t.name], t)
  <2>1. PICK k \in 1 .. p - 1 : /\ Deduces(k, t.name)
                                /\ Analysis!SameShape(Premises[k].target, t)
    BY <1>2, <1>4, DeducesSame DEF Premises, Analysis!DeducedBefore
  <2> QED
    BY <1>1, <2>1, TableAgrees DEF Analysis!SameShape
<1> QED
  BY <1>1, <1>3, <1>4, CompatibleInTable DEF Analysis!DeducedBefore

\* An inference premise without problems is one that is fine.
LEMMA InferenceDecides ==
  ASSUME TypeOK, pc = "premise", SymbolsInv, TableInv, PremisesInv, failed = {},
         p \in DOMAIN Premises, Premises[p].kind = "inference"
  PROVE  InferenceProblems(Premises[p]) = 0 <=> Analysis!PremiseOK(Defn, p)
<1> DEFINE t == Premises[p].target
<1>1. targetTbl \in TargetTable /\ t \in Target /\ t.name \in Names
  BY TreeTypes, PremiseFields, TargetForms DEF TypeOK
<1>2. p - 1 \in Nat /\ \A j : j \in 1 .. p - 1 <=> j \in DOMAIN Premises /\ j < p
  BY TreeTypes DEF TypeOK, CursorOK
<1>3. Premises[p].source \in symbolSet <=>
        Premises[p].source \in Analysis!ElementsOf(Defn.globals)
                                 \cup Analysis!ElementsOf(Defn.arguments)
  BY DEF SymbolsInv, ElementsOf, Analysis!ElementsOf
<1>4. ASSUME t.form # "computed"
      PROVE  ~HasIncompatibleTargetInTable(t, targetTbl) <=>
               \A j \in 1 .. p - 1 :
                 Deduces(j, t.name) => Analysis!SameShape(Premises[j].target, t)
  <2>1. CASE targetTbl[t.name] = NoTarget
    BY <1>1, <2>1, IncompatibleInTable DEF TableInv
  <2>2. CASE targetTbl[t.name] # NoTarget
    <3>1. PICK k \in 1 .. p - 1 : Deduces(k, t.name) /\ targetTbl[t.name] = Premises[k].target
      BY <1>1, <2>2 DEF TableInv
    <3>2. ASSUME NEW j \in 1 .. p - 1, Deduces(j, t.name)
          PROVE  Analysis!SameShape(targetTbl[t.name], Premises[j].target)
      BY <1>1, <3>2, TableAgrees
    <3> QED
      BY <1>1, <1>4, <2>2, <3>1, <3>2, IncompatibleInTable DEF Analysis!SameShape
  <2> QED
    BY <2>1, <2>2
<1>5. t.form = "computed" => ~HasIncompatibleTargetInTable(t, targetTbl)
  BY <1>1, IncompatibleInTable
<1>6. Analysis!PremiseOK(Defn, p) <=>
        /\ Premises[p].source \in symbolSet
        /\ t.form # "computed" =>
             \A j \in 1 .. p - 1 :
               Deduces(j, t.name) => Analysis!SameShape(Premises[j].target, t)
  BY <1>2, <1>3, DeducesSame
  DEF Premises, Analysis!PremiseOK, Analysis!InferencePremiseOK
<1> QED
  BY <1>4, <1>5, <1>6, ProblemCounts

\* An equality premise without problems is one that is fine.
LEMMA EqualityDecides ==
  ASSUME TypeOK, pc = "premise", TableInv, PremisesInv, failed = {},
         p \in DOMAIN Premises, Premises[p].kind = "equality"
  PROVE  EqualityProblems(Premises[p]) = 0 <=> Analysis!PremiseOK(Defn, p)
<1> DEFINE pr == Premises[p]
<1>1. /\ pr.lhs \in Target /\ pr.rhs \in Target
      /\ pr.range # NoRange => pr.range \in Target
  BY TreeTypes, PremiseFields
<1>2. AreTargetsCompatible(pr.lhs, pr.rhs) <=> Analysis!Comparable(pr.lhs, pr.rhs)
  BY <1>1, CompatibleIsComparable
<1>3. pr.range # NoRange =>
        (HasCompatibleTargetInTable(pr.range, targetTbl)
           <=> Analysis!DeducedBefore(Defn, p, pr.range))
  BY <1>1, LookupDecides
<1>4. Analysis!PremiseOK(Defn, p) <=> Analysis!EqualityPremiseOK(Defn, p)
  BY DEF Premises, Analysis!PremiseOK
<1> QED
  BY <1>2, <1>3, <1>4, ProblemCounts DEF Premises, Analysis!EqualityPremiseOK

-----------------------------------------------------------------------------
(* The invariant is inductive: one lemma per action.                       *)

\* What holds outside the premises of a definition.
LEMMA OutsidePremises ==
  ASSUME pc # "premise"
  PROVE  SymbolsInv /\ TableInv /\ PremisesInv
BY DEF SymbolsInv, TableInv, PremisesInv

\* A step that registers what it found and ends in a verdict or moves on.
LEMMA OutcomeStep ==
  ASSUME IInv, UNCHANGED opts, NEW n \in Nat, errors' = errors + Reported(n),
         errors = 0,
         pc' \in {"group", "defn", "accepted", "rejected"},
         pc' = "rejected" <=> n > 0
  PROVE  errors' \in Nat /\ ErrorsInv' /\ BailReportsOnce'
<1>1. TypeOK
  BY DEF IInv
<1>2. /\ Reported(n) \in Nat
      /\ Reported(n) = 0 <=> n = 0
      /\ opts.bail => Reported(n) \in {0, 1}
  BY <1>1, ReportedCount
<1>3. errors' = Reported(n)
  BY <1>2
<1> QED
  BY <1>2, <1>3 DEF ErrorsInv, BailReportsOnce

\* Rejecting is right as soon as something in the module is refused.
LEMMA RejectStep ==
  ASSUME TypeOK, Reject, UNCHANGED <<module, opts>>, p' \in Nat \ {0},
         ~Analysis!ModuleOK(module, opts.werror)
  PROVE  /\ pc' = "rejected"
         /\ CursorOK' /\ TraversedInv' /\ VerdictInv'
BY DEF Reject, TypeOK, CursorOK, TraversedInv, VerdictInv, Done

\* The two modules mean the same trees.
LEMMA SameTree == Analysis!Module = Module
BY DEF Analysis!Module, Module, Analysis!InferenceGroup, InferenceGroup,
   Analysis!EnvironmentDefn, EnvironmentDefn,
   Analysis!MandatoryFields, MandatoryFields, Analysis!WhileFields, WhileFields,
   Analysis!InferenceDefn, InferenceDefn,
   Analysis!PremiseDefnList, PremiseDefnList, Analysis!WellNested, WellNested,
   Analysis!OpensWhile, OpensWhile, Analysis!Premise, Premise,
   Analysis!InferencePremise, InferencePremise,
   Analysis!EqualityPremise, EqualityPremise, Analysis!Target, Target

\* The invariant holds before the traversal.
LEMMA InitStep ==
  ASSUME Init
  PROVE  IInv
<1>1. TypeOK
  BY ModulesAssumption
  DEF Init, TypeOK, CursorOK, Options, TargetTable, EmptyTable
<1>2. SymbolsInv /\ TableInv /\ PremisesInv
  BY OutsidePremises DEF Init
<1>3. TraversedInv /\ VerdictInv /\ ErrorsInv /\ BailReportsOnce
  BY DEF Init, TraversedInv, VerdictInv, ErrorsInv, BailReportsOnce, Done
<1> QED
  BY <1>1, <1>2, <1>3 DEF IInv

\* Two groups of one name refuse the module, and nothing else does at this point.
LEMMA PrevisitModuleStep ==
  ASSUME IInv, PrevisitModule
  PROVE  IInv'
<1> DEFINE n == Cardinality(Repeats(NamesOf(module)))
<1>1. /\ TypeOK /\ pc = "module" /\ errors = 0
      /\ UNCHANGED <<module, opts, p, ok, symbolSet, targetTbl, failed, warnings>>
      /\ errors' = errors + Reported(n)
  BY DEF IInv, ErrorsInv, PrevisitModule, context
<1>2. n \in Nat /\ (n = 0 <=> Analysis!NoRepeats(NamesOf(module)))
  BY <1>1, TreeTypes, RepeatsCount DEF NamesOf
<1>3. /\ pc' \in {"group", "accepted", "rejected"}
      /\ pc' = "rejected" <=> n > 0
      /\ CursorOK' /\ TraversedInv' /\ VerdictInv'
  <2>0. p' \in Nat \ {0}
    BY <1>1 DEF TypeOK, CursorOK
  <2>1. CASE n = 0
    <3>1. VisitGroups(1)
      BY <2>1 DEF PrevisitModule
    <3>2. 1 - 1 <= Len(module) /\ 1 .. 1 - 1 = {}
      BY <1>1, TreeTypes
    <3> QED
      BY <1>1, <1>2, <2>0, <2>1, <3>1, <3>2, VisitGroupsStep
  <2>2. CASE n # 0
    <3>1. Analysis!NamesOf(module) = NamesOf(module)
      BY DEF Analysis!NamesOf, NamesOf
    <3>2. ~Analysis!ModuleOK(module, opts.werror)
      BY <1>2, <2>2, <3>1 DEF Analysis!ModuleOK
    <3>3. Reject
      BY <2>2 DEF PrevisitModule
    <3> QED
      BY <1>1, <1>2, <2>0, <2>2, <3>2, <3>3, RejectStep
  <2> QED
    BY <2>1, <2>2
<1>4. errors' \in Nat /\ ErrorsInv' /\ BailReportsOnce'
  BY <1>1, <1>2, <1>3, OutcomeStep
<1>5. TypeOK'
  BY <1>1, <1>3, <1>4 DEF TypeOK
<1>6. SymbolsInv' /\ TableInv' /\ PremisesInv'
  BY <1>3 DEF SymbolsInv, TableInv, PremisesInv
<1> QED
  BY <1>3, <1>4, <1>5, <1>6 DEF IInv

\* A group is refused for its fields, or for the names of its definitions.
LEMMA PrevisitGroupStep ==
  ASSUME IInv, PrevisitGroup
  PROVE  IInv'
<1> DEFINE repeated == Cardinality(Repeats(FieldsOf(Group.env)))
           n == AsErrors(repeated) + Cardinality(MissingFields(Group))
                  + NameProblems(Group)
<1>1. /\ TypeOK /\ pc = "group" /\ errors = 0 /\ TraversedInv
      /\ UNCHANGED <<module, opts, p, ok, symbolSet, targetTbl, failed>>
      /\ errors' = errors + Reported(n)
      /\ warnings' = warnings + AsWarnings(repeated)
  BY DEF IInv, ErrorsInv, PrevisitGroup, context
<1>2. /\ n \in Nat /\ AsWarnings(repeated) \in Nat
      /\ n = 0 <=> Analysis!GroupHeaderOK(Group, opts.werror)
  BY <1>1, GroupProblemCounts
<1>3. /\ pc' \in {"group", "defn", "accepted", "rejected"}
      /\ pc' = "rejected" <=> n > 0
      /\ CursorOK' /\ TraversedInv' /\ VerdictInv'
  <2>0. p' \in Nat \ {0}
    BY <1>1 DEF TypeOK, CursorOK
  <2>1. CASE n = 0
    <3>1. VisitDefns(1)
      BY <2>1 DEF PrevisitGroup
    <3>2. 1 - 1 <= Len(Group.defns) /\ 1 .. 1 - 1 = {}
      BY <1>1, TreeTypes
    <3> QED
      BY <1>1, <1>2, <2>0, <2>1, <3>1, <3>2, VisitDefnsStep
  <2>2. CASE n # 0
    <3>1. ~Analysis!ModuleOK(module, opts.werror)
      BY <1>1, <1>2, <2>2, RefusedGroup DEF Analysis!GroupOK
    <3>2. Reject
      BY <2>2 DEF PrevisitGroup
    <3> QED
      BY <1>1, <1>2, <2>0, <2>2, <3>1, <3>2, RejectStep
  <2> QED
    BY <2>1, <2>2
<1>4. errors' \in Nat /\ ErrorsInv' /\ BailReportsOnce'
  BY <1>1, <1>2, <1>3, OutcomeStep
<1>5. TypeOK'
  BY <1>1, <1>2, <1>3, <1>4 DEF TypeOK
<1>6. SymbolsInv' /\ TableInv' /\ PremisesInv'
  BY <1>3 DEF SymbolsInv, TableInv, PremisesInv
<1> QED
  BY <1>3, <1>4, <1>5, <1>6 DEF IInv

\* The symbol set and the table start afresh with each definition.
LEMMA PrevisitDefnStep ==
  ASSUME IInv, PrevisitDefn
  PROVE  IInv'
<1> DEFINE repeated == Cardinality(Repeats(Defn.globals))
           n == AsErrors(repeated) + Cardinality(ArgumentRepeats(Defn))
<1>1. /\ TypeOK /\ pc = "defn" /\ errors = 0 /\ TraversedInv
      /\ UNCHANGED <<module, opts, g, d>>
      /\ errors' = errors + Reported(n)
      /\ warnings' = warnings + AsWarnings(repeated)
      /\ pc' = IF opts.bail /\ n > 0 THEN "rejected" ELSE "premise"
      /\ ok' = (n = 0)
      /\ symbolSet' = ElementsOf(Defn.globals) \cup ElementsOf(Defn.arguments)
      /\ targetTbl' = EmptyTable /\ failed' = {} /\ p' = 1
  BY DEF IInv, ErrorsInv, PrevisitDefn
<1>2. /\ n \in Nat /\ AsWarnings(repeated) \in Nat
      /\ n = 0 <=> Analysis!SymbolsOK(Defn, opts.werror)
  BY <1>1, DefnProblemCounts
<1>3. /\ Reported(n) \in Nat
      /\ Reported(n) = 0 <=> n = 0
      /\ opts.bail => Reported(n) \in {0, 1}
      /\ errors' = Reported(n)
  BY <1>1, <1>2, ReportedCount
<1>4. Group' = Group /\ Defn' = Defn /\ Premises' = Premises
  BY <1>1 DEF Group, Defn, Premises
<1>5. TypeOK'
  <2>1. Defn \in InferenceDefn
    BY <1>1, TreeTypes
  <2>2. symbolSet' \subseteq Names
    BY <1>1, <2>1 DEF InferenceDefn, ElementsOf
  <2>3. targetTbl' \in TargetTable
    BY <1>1 DEF TargetTable, EmptyTable
  <2>4. Len(Premises) \in Nat
    BY <2>1 DEF Premises, InferenceDefn, PremiseDefnList
  <2>5. CursorOK'
    BY <1>1, <1>4, <2>4 DEF TypeOK, CursorOK
  <2> QED
    BY <1>1, <1>2, <1>3, <2>2, <2>3, <2>5 DEF TypeOK
<1>6. SymbolsInv'
  BY <1>1, <1>2, <1>4 DEF SymbolsInv
<1>7. TableInv' /\ PremisesInv'
  <2>1. 1 .. p' - 1 = {}
    BY <1>1
  <2> QED
    BY <1>1, <2>1 DEF TableInv, PremisesInv, EmptyTable
<1>8. TraversedInv'
  BY <1>1, <1>4 DEF TraversedInv
<1>9. VerdictInv'
  <2>1. ASSUME pc' = "rejected" PROVE ~Analysis!ModuleOK(module, opts.werror)
    BY <1>1, <1>2, <2>1, RefusedDefn DEF Analysis!DefnOK
  <2> QED
    BY <1>1, <2>1 DEF VerdictInv, Done
<1>10. ErrorsInv' /\ BailReportsOnce'
  <2>1. CASE n = 0
    <3>1. errors' = 0 /\ pc' = "premise" /\ failed' = {}
      BY <1>1, <1>3, <2>1
    <3>2. ok'
      <4> HIDE DEF n
      <4> QED
        BY <1>1, <2>1, Zenon
    <3> QED
      BY <3>1, <3>2 DEF ErrorsInv, BailReportsOnce
  <2>2. CASE n # 0
    <3> n > 0
      BY <1>2, <2>2
    <3> HIDE DEF n
    <3>0. ~ok'
      BY <1>1, <2>2, Zenon
    <3>1. errors' \in Nat /\ errors' # 0
      BY <1>3, <2>2
    <3>2. opts.bail => errors' = 1 /\ pc' = "rejected"
      BY <1>1, <1>3, <2>2
    <3>3. ~opts.bail => pc' = "premise"
      BY <1>1
    <3>4. opts' = opts /\ opts.bail \in BOOLEAN
      BY <1>1 DEF TypeOK, Options
    <3> QED
      BY <3>0, <3>1, <3>2, <3>3, <3>4 DEF ErrorsInv, BailReportsOnce
  <2> QED
    BY <2>1, <2>2
<1> QED
  BY <1>5, <1>6, <1>7, <1>8, <1>9, <1>10 DEF IInv

\* What a premise check registers.
LEMMA PremiseOutcome ==
  ASSUME IInv, pc = "premise", UNCHANGED <<opts, ok>>,
         NEW n \in Nat, errors' = errors + Reported(n),
         pc' \in {"premise", "rejected"},
         n = 0 => pc' = "premise" /\ failed' = failed,
         n > 0 /\ pc' = "premise" => failed' # {} /\ ~opts.bail
  PROVE  errors' \in Nat /\ ErrorsInv' /\ BailReportsOnce'
<1>1. TypeOK /\ errors \in Nat
  BY DEF IInv, TypeOK
<1>2. /\ Reported(n) \in Nat
      /\ Reported(n) = 0 <=> n = 0
      /\ opts.bail => Reported(n) \in {0, 1}
  BY <1>1, ReportedCount
<1>3. errors = 0 <=> ok /\ failed = {}
  BY DEF IInv, ErrorsInv
<1>4. opts.bail => errors = 0
  BY <1>1 DEF IInv, BailReportsOnce
<1>5. CASE n = 0
  <2>1. errors' = errors /\ pc' = "premise" /\ failed' = failed
    BY <1>1, <1>2, <1>5
  <2> QED
    BY <1>1, <1>3, <1>4, <2>1 DEF ErrorsInv, BailReportsOnce
<1>6. CASE n > 0
  <2>1. errors' \in Nat /\ errors' > 0
    BY <1>1, <1>2, <1>6
  <2>2. opts.bail => errors' = 1 /\ pc' = "rejected"
    BY <1>1, <1>2, <1>4, <1>6
  <2>3. pc' = "premise" => failed' # {} /\ ~opts.bail
    BY <1>6
  <2> QED
    BY <2>1, <2>2, <2>3 DEF ErrorsInv, BailReportsOnce
<1> QED
  BY <1>5, <1>6

\* What a premise check that found n problems says of the premises so far.
LEMMA PremiseProgress ==
  ASSUME IInv, pc = "premise", p \in DOMAIN Premises, p' = p + 1,
         UNCHANGED <<module, opts, g, d, ok, symbolSet>>,
         NEW n \in Nat,
         failed = {} => (n = 0 <=> Analysis!PremiseOK(Defn, p)),
         pc' \in {"premise", "rejected"},
         failed \subseteq failed', failed' \subseteq failed \cup {p},
         n = 0 => pc' = "premise" /\ failed' = failed,
         n > 0 /\ pc' = "premise" => failed' # {}
  PROVE  /\ CursorOK' /\ failed' \subseteq 1 .. p' - 1
         /\ SymbolsInv' /\ PremisesInv' /\ TraversedInv' /\ VerdictInv'
<1>1. /\ TypeOK /\ p \in Nat \ {0} /\ failed \subseteq 1 .. p - 1
      /\ Group' = Group /\ Defn' = Defn /\ Premises' = Premises
  BY DEF IInv, TypeOK, CursorOK, Group, Defn, Premises
<1>2. Len(Premises) \in Nat /\ DOMAIN Premises = 1 .. Len(Premises)
  BY <1>1, TreeTypes
<1>3. CursorOK' /\ failed' \subseteq 1 .. p' - 1
  BY <1>1, <1>2 DEF TypeOK, CursorOK
<1>4. SymbolsInv'
  BY <1>1 DEF IInv, SymbolsInv
<1>5. PremisesInv /\ (\A j \in 1 .. p' - 1 : j \in 1 .. p - 1 \/ j = p)
      /\ (\A j \in 1 .. p - 1 : j \in 1 .. p' - 1) /\ p \in 1 .. p' - 1
  BY <1>1 DEF IInv
<1>6. PremisesInv'
  <2>1. CASE failed = {} /\ n = 0
    BY <1>1, <1>5, <2>1 DEF PremisesInv
  <2>2. CASE failed = {} /\ n > 0
    BY <1>1, <1>5, <2>2 DEF PremisesInv
  <2>3. CASE failed # {}
    <3>1. failed' # {}
      BY <2>3
    <3> QED
      BY <1>1, <1>5, <2>3, <3>1 DEF PremisesInv
  <2> QED
    BY <2>1, <2>2, <2>3
<1>7. TraversedInv'
  BY <1>1 DEF IInv, TraversedInv
<1>8. VerdictInv'
  <2>1. ASSUME pc' = "rejected"
        PROVE  \E j \in 1 .. p : ~Analysis!PremiseOK(Defn, j)
    <3>1. CASE failed = {}
      BY <1>1, <2>1, <3>1
    <3>2. CASE failed # {}
      <4>1. PICK j \in 1 .. p - 1 : ~Analysis!PremiseOK(Defn, j)
        BY <3>2 DEF IInv, PremisesInv
      <4> QED
        BY <1>1, <4>1
    <3> QED
      BY <3>1, <3>2
  <2>2. \A j \in 1 .. p : j \in DOMAIN Premises
    BY <1>1, <1>2
  <2>3. pc' = "rejected" => ~Analysis!ModuleOK(module, opts.werror)
    BY <1>1, <2>1, <2>2, RefusedPremise
  <2> QED
    BY <2>3 DEF VerdictInv, Done
<1> QED
  BY <1>3, <1>4, <1>6, <1>7, <1>8

\* A premise enters the table only when it is fine or when its clause goes on.
LEMMA CheckInferencePremiseStep ==
  ASSUME IInv, CheckInferencePremise
  PROVE  IInv'
<1> DEFINE pr == Premises[p]
           n  == InferenceProblems(pr)
           bails == opts.bail /\ n > 0
<1>1. /\ TypeOK /\ pc = "premise" /\ p \in DOMAIN Premises
      /\ pr.kind = "inference" /\ p' = p + 1
      /\ UNCHANGED <<module, opts, g, d, ok, symbolSet, warnings>>
      /\ errors' = errors + Reported(n)
      /\ targetTbl' = IF bails THEN targetTbl ELSE AddTargetToTable(pr.target, targetTbl)
      /\ pc' = IF bails \/ (n > 0 /\ ~pr.while) THEN "rejected" ELSE pc
      /\ failed' = IF n > 0 /\ pr.while THEN failed \cup {p} ELSE failed
  BY DEF IInv, CheckInferencePremise, NextPremise
<1>2. n \in Nat
  BY ProblemCounts
<1>3. failed = {} => (n = 0 <=> Analysis!PremiseOK(Defn, p))
  BY <1>1, InferenceDecides DEF IInv
<1>4. /\ pc' \in {"premise", "rejected"}
      /\ n = 0 => pc' = "premise" /\ failed' = failed
      /\ n > 0 /\ pc' = "premise" => failed' # {} /\ ~opts.bail
      /\ failed \subseteq failed' /\ failed' \subseteq failed \cup {p}
  <2> HIDE DEF n
  <2> QED
    BY <1>1, <1>2
<1>5. pr.target \in Target /\ pr.target.name \in Names
  BY <1>1, TreeTypes, PremiseFields, TargetForms
<1>6. errors' \in Nat /\ ErrorsInv' /\ BailReportsOnce'
  BY <1>1, <1>2, <1>4, PremiseOutcome
<1>7. /\ CursorOK' /\ failed' \subseteq 1 .. p' - 1
      /\ SymbolsInv' /\ PremisesInv' /\ TraversedInv' /\ VerdictInv'
  BY <1>1, <1>2, <1>3, <1>4, PremiseProgress
<1>8. TypeOK'
  <2>1. targetTbl' \in TargetTable
    BY <1>1, <1>5, AddKeepsTableType DEF TypeOK
  <2> QED
    BY <1>1, <1>4, <1>6, <1>7, <2>1 DEF TypeOK
<1>9. TableInv'
  <2> SUFFICES ASSUME pc' = "premise", NEW x \in Names
      PROVE IF targetTbl'[x] = NoTarget
            THEN \A j \in 1 .. p : ~Deduces(j, x)
            ELSE \E j \in 1 .. p : Deduces(j, x) /\ targetTbl'[x] = Premises[j].target
    <3>1. p \in Nat /\ p' - 1 = p
      BY <1>1 DEF TypeOK, CursorOK
    <3>2. Premises' = Premises
      BY <1>1 DEF Premises, Defn, Group
    <3> QED
      BY <3>1, <3>2 DEF TableInv, Deduces
  <2>1. /\ p \in Nat /\ p \in 1 .. p
        /\ \A j \in 1 .. p : j \in 1 .. p - 1 \/ j = p
        /\ \A j \in 1 .. p - 1 : j \in 1 .. p
    BY <1>1 DEF TypeOK, CursorOK
  <2>2. targetTbl' = AddTargetToTable(pr.target, targetTbl) /\ targetTbl \in TargetTable
    BY <1>1 DEF TypeOK
  <2>3. IF targetTbl[x] = NoTarget
        THEN \A j \in 1 .. p - 1 : ~Deduces(j, x)
        ELSE \E j \in 1 .. p - 1 : Deduces(j, x) /\ targetTbl[x] = Premises[j].target
    BY <1>1 DEF IInv, TableInv
  <2>4. CASE Deduces(p, x)
    <3>1. targetTbl'[x] = pr.target
      BY <1>5, <2>2, <2>4 DEF Deduces, AddTargetToTable, TargetTable
    <3>2. targetTbl'[x] # NoTarget
      BY <1>5, <3>1, NoTargetAssumption
    <3> QED
      BY <2>1, <2>4, <3>1, <3>2
  <2>5. CASE ~Deduces(p, x)
    <3>1. targetTbl'[x] = targetTbl[x]
      BY <1>1, <1>5, <2>2, <2>5 DEF Deduces, AddTargetToTable, TargetTable
    <3> QED
      BY <2>1, <2>3, <2>5, <3>1
  <2> QED
    BY <2>4, <2>5
<1> QED
  BY <1>6, <1>7, <1>8, <1>9 DEF IInv

\* An equality premise is judged and leaves the table alone.
LEMMA CheckEqualityPremiseStep ==
  ASSUME IInv, CheckEqualityPremise
  PROVE  IInv'
<1> DEFINE n == EqualityProblems(Premises[p])
<1>1. /\ TypeOK /\ pc = "premise" /\ p \in DOMAIN Premises
      /\ Premises[p].kind = "equality" /\ p' = p + 1
      /\ UNCHANGED <<module, opts, g, d, ok, symbolSet, targetTbl, failed, warnings>>
      /\ errors' = errors + Reported(n)
      /\ pc' = IF n > 0 THEN "rejected" ELSE pc
  BY DEF IInv, CheckEqualityPremise, NextPremise, context
<1>2. n \in Nat
  BY ProblemCounts
<1>3. failed = {} => (n = 0 <=> Analysis!PremiseOK(Defn, p))
  BY <1>1, EqualityDecides DEF IInv
<1>4. /\ pc' \in {"premise", "rejected"}
      /\ n = 0 => pc' = "premise"
      /\ ~(n > 0 /\ pc' = "premise")
  BY <1>1, <1>2
<1>5. errors' \in Nat /\ ErrorsInv' /\ BailReportsOnce'
  BY <1>1, <1>2, <1>4, PremiseOutcome
<1>6. /\ CursorOK' /\ failed' \subseteq 1 .. p' - 1
      /\ SymbolsInv' /\ PremisesInv' /\ TraversedInv' /\ VerdictInv'
  BY <1>1, <1>2, <1>3, <1>4, PremiseProgress
<1>7. TypeOK'
  BY <1>1, <1>4, <1>5, <1>6 DEF TypeOK
<1>8. TableInv'
  <2>1. /\ p \in Nat /\ p' - 1 = p
        /\ \A j \in 1 .. p : j \in 1 .. p - 1 \/ j = p
        /\ \A j \in 1 .. p - 1 : j \in 1 .. p
    BY <1>1 DEF TypeOK, CursorOK
  <2>2. Premises' = Premises
    BY <1>1 DEF Premises, Defn, Group
  <2>3. \A x : ~Deduces(p, x)
    BY <1>1 DEF Deduces
  <2>4. ASSUME NEW x \in Names
        PROVE  IF targetTbl[x] = NoTarget
               THEN \A j \in 1 .. p : ~Deduces(j, x)
               ELSE \E j \in 1 .. p : Deduces(j, x) /\ targetTbl[x] = Premises[j].target
    BY <1>1, <2>1, <2>3 DEF IInv, TableInv
  <2> QED
    BY <1>1, <2>1, <2>2, <2>4 DEF TableInv, Deduces
<1> QED
  BY <1>5, <1>6, <1>7, <1>8 DEF IInv

\* The end of a clause whose premise was refused refuses the definition.
LEMMA ReturnFromWhileStep ==
  ASSUME IInv, ReturnFromWhile
  PROVE  IInv'
<1>1. /\ TypeOK /\ pc = "premise" /\ Returning # {} /\ Reject
      /\ UNCHANGED <<module, opts, p, ok, symbolSet, targetTbl, failed, errors, warnings>>
  BY DEF IInv, ReturnFromWhile, context
<1>2. failed # {} /\ p' \in Nat \ {0}
  BY <1>1 DEF Returning, TypeOK, CursorOK
<1>3. PICK j \in 1 .. p - 1 : ~Analysis!PremiseOK(Defn, j)
  BY <1>1, <1>2 DEF IInv, PremisesInv
<1>4. j \in DOMAIN Premises
  BY <1>1, TreeTypes DEF TypeOK, CursorOK
<1>5. pc' = "rejected" /\ CursorOK' /\ TraversedInv' /\ VerdictInv'
  BY <1>1, <1>2, <1>3, <1>4, RefusedPremise, RejectStep
<1>6. TypeOK'
  BY <1>1, <1>5 DEF TypeOK
<1>7. ErrorsInv' /\ BailReportsOnce'
  <2>1. errors \in Nat /\ errors # 0
    BY <1>1, <1>2 DEF IInv, TypeOK, ErrorsInv
  <2> QED
    BY <1>1, <1>5, <2>1 DEF IInv, ErrorsInv, BailReportsOnce
<1>8. SymbolsInv' /\ TableInv' /\ PremisesInv'
  BY <1>5 DEF SymbolsInv, TableInv, PremisesInv
<1> QED
  BY <1>5, <1>6, <1>7, <1>8 DEF IInv

\* At the end of a definition without refusals only the proposition is left.
LEMMA CheckPropositionStep ==
  ASSUME IInv, CheckProposition
  PROVE  IInv'
<1> DEFINE n == Problems(~HasCompatibleTargetInTable(Defn.proposition, targetTbl), FALSE)
<1>1. /\ TypeOK /\ pc = "premise" /\ Returning = {} /\ p \notin DOMAIN Premises
      /\ UNCHANGED <<module, opts, p, ok, symbolSet, targetTbl, failed, warnings>>
      /\ errors' = errors + Reported(n)
  BY DEF IInv, CheckProposition, context
<1>0. IF ok /\ n = 0 THEN VisitDefns(d + 1) ELSE Reject
  BY DEF CheckProposition
<1>2. /\ n \in {0, 1}
      /\ n = 0 <=> HasCompatibleTargetInTable(Defn.proposition, targetTbl)
  BY DEF Problems
<1> HIDE DEF n
<1>3. p = Len(Premises) + 1 /\ Len(Premises) \in Nat
      /\ DOMAIN Premises = 1 .. p - 1
  BY <1>1, TreeTypes DEF TypeOK, CursorOK
<1>4. failed = {}
  <2>1. ASSUME NEW k \in failed PROVE FALSE
    <3>1. k \in DOMAIN Premises
      BY <1>1, <1>3, <2>1 DEF TypeOK
    <3>2. Premises[k].last \in k .. Len(Premises)
      BY <1>1, <3>1, TreeTypes
    <3>3. k \in Returning
      BY <1>3, <2>1, <3>1, <3>2 DEF Returning
    <3> QED
      BY <1>1, <3>3
  <2> QED
    BY <2>1
<1>5. n = 0 <=> Analysis!DeducedBefore(Defn, Len(Defn.premises) + 1, Defn.proposition)
  <2>1. Defn.proposition \in Target
    BY <1>1, TreeTypes DEF InferenceDefn
  <2>2. n = 0 <=> Analysis!DeducedBefore(Defn, p, Defn.proposition)
    BY <1>1, <1>2, <1>4, <2>1, LookupDecides DEF IInv
  <2> QED
    BY <1>3, <2>2 DEF Premises
<1>6. ok <=> Analysis!SymbolsOK(Defn, opts.werror)
  BY <1>1 DEF IInv, SymbolsInv
<1>7. \A i \in DOMAIN Defn.premises : Analysis!PremiseOK(Defn, i)
  BY <1>1, <1>3, <1>4 DEF IInv, PremisesInv, Premises
<1>8. ok /\ n = 0 <=> Analysis!DefnOK(Defn, opts.werror)
  BY <1>5, <1>6, <1>7 DEF Analysis!DefnOK
<1>9. errors = 0 <=> ok
  BY <1>1, <1>4 DEF IInv, ErrorsInv
<1>10. p' \in Nat \ {0}
  BY <1>1 DEF TypeOK, CursorOK
<1>11. CASE ok /\ n = 0
  <2>1. /\ d + 1 \in Nat \ {0} /\ (d + 1) - 1 <= Len(Group.defns)
        /\ \A i \in 1 .. (d + 1) - 1 : Analysis!DefnOK(Group.defns[i], opts.werror)
    <3>1. d \in Nat \ {0} /\ d <= Len(Group.defns) /\ Len(Group.defns) \in Nat
      BY <1>1, TreeTypes DEF TypeOK, CursorOK
    <3>2. Analysis!DefnOK(Group.defns[d], opts.werror)
      BY <1>8, <1>11 DEF Defn
    <3> QED
      BY <1>1, <3>1, <3>2 DEF IInv, TraversedInv
  <2>2. VisitDefns(d + 1)
    BY <1>0, <1>11
  <2>3. TraversedInv /\ Analysis!GroupHeaderOK(Group, opts.werror)
    BY <1>1 DEF IInv, TraversedInv
  <2>4. /\ pc' \in {"defn", "group", "accepted"}
        /\ CursorOK' /\ TraversedInv' /\ VerdictInv'
    BY <1>1, <1>10, <2>1, <2>2, <2>3, VisitDefnsStep
  <2>5. errors' = 0
    <3>1. errors = 0
      BY <1>9, <1>11
    <3>2. Reported(n) = 0
      BY <1>11 DEF Reported
    <3> QED
      BY <1>1, <3>1, <3>2
  <2>6. TypeOK'
    BY <1>1, <2>4, <2>5 DEF TypeOK
  <2>7. ErrorsInv' /\ BailReportsOnce'
    BY <2>4, <2>5 DEF ErrorsInv, BailReportsOnce
  <2>8. SymbolsInv' /\ TableInv' /\ PremisesInv'
    BY <2>4 DEF SymbolsInv, TableInv, PremisesInv
  <2> QED
    BY <2>4, <2>6, <2>7, <2>8 DEF IInv
<1>12. CASE ~(ok /\ n = 0)
  <2>1. Reject
    BY <1>0, <1>12
  <2>2. pc' = "rejected" /\ CursorOK' /\ TraversedInv' /\ VerdictInv'
    BY <1>1, <1>8, <1>10, <1>12, <2>1, RefusedDefn, RejectStep
  <2>3. /\ errors' \in Nat /\ errors' > 0
        /\ opts.bail => errors' = 1
    <3>0. errors \in Nat /\ n \in Nat
      BY <1>1, <1>2 DEF TypeOK
    <3>1. /\ Reported(n) \in Nat
          /\ Reported(n) = 0 <=> n = 0
          /\ opts.bail => Reported(n) \in {0, 1}
      BY <1>1, <3>0, ReportedCount
    <3>2. opts.bail => errors = 0
      BY <1>1, <3>0 DEF IInv, BailReportsOnce
    <3>3. errors # 0 \/ n # 0
      BY <1>9, <1>12
    <3>4. opts.bail => n # 0
      BY <3>2, <3>3
    <3> QED
      BY <1>1, <3>0, <3>1, <3>2, <3>3, <3>4
  <2>4. TypeOK'
    BY <1>1, <2>2, <2>3 DEF TypeOK
  <2>5. ErrorsInv' /\ BailReportsOnce'
    BY <1>1, <2>2, <2>3 DEF ErrorsInv, BailReportsOnce
  <2>6. SymbolsInv' /\ TableInv' /\ PremisesInv'
    BY <2>2 DEF SymbolsInv, TableInv, PremisesInv
  <2> QED
    BY <2>2, <2>4, <2>5, <2>6 DEF IInv
<1> QED
  BY <1>11, <1>12

\* Stuttering changes nothing.
LEMMA StutterStep ==
  ASSUME IInv, UNCHANGED vars
  PROVE  IInv'
BY DEF IInv, vars, cursor, context, TypeOK, CursorOK, SymbolsInv, TableInv,
   PremisesInv, TraversedInv, VerdictInv, ErrorsInv, BailReportsOnce,
   Done, Group, Defn, Premises, Deduces

\* Every step of the analyzer keeps the invariant.
LEMMA StepKeepsIInv == IInv /\ [Next]_vars => IInv'
<1> SUFFICES ASSUME IInv, [Next]_vars
             PROVE  IInv'
  OBVIOUS
<1>1. CASE PrevisitModule
  BY <1>1, PrevisitModuleStep
<1>2. CASE PrevisitGroup
  BY <1>2, PrevisitGroupStep
<1>3. CASE PrevisitDefn
  BY <1>3, PrevisitDefnStep
<1>4. CASE CheckInferencePremise
  BY <1>4, CheckInferencePremiseStep
<1>5. CASE CheckEqualityPremise
  BY <1>5, CheckEqualityPremiseStep
<1>6. CASE ReturnFromWhile
  BY <1>6, ReturnFromWhileStep
<1>7. CASE CheckProposition
  BY <1>7, CheckPropositionStep
<1>8. CASE Terminating
  BY <1>8, StutterStep DEF Terminating
<1>9. CASE UNCHANGED vars
  BY <1>9, StutterStep
<1> QED
  BY <1>1, <1>2, <1>3, <1>4, <1>5, <1>6, <1>7, <1>8, <1>9 DEF Next

\* The inductive invariant: the tables describe the premises passed, what was
\* passed is fine, and the counters say so.
THEOREM InductiveInvariant == Spec => []IInv
<1>1. Init => IInv
  BY InitStep
<1> QED
  BY <1>1, StepKeepsIInv, PTL DEF Spec

-----------------------------------------------------------------------------
(* What follows from it.                                                   *)

\* Every variable keeps its type; in particular the cursor stays in the tree.
THEOREM TypeCorrectness == Spec => []TypeOK
<1>1. IInv => TypeOK
  BY DEF IInv
<1> QED
  BY <1>1, InductiveInvariant, PTL

\* run() returns false if and only if it registered an error.
THEOREM VerdictReported == Spec => []VerdictMatchesErrors
<1>1. IInv => VerdictMatchesErrors
  BY DEF IInv, ErrorsInv, VerdictMatchesErrors
<1> QED
  BY <1>1, InductiveInvariant, PTL

\* With bailOnFirstError nothing follows the first error.
THEOREM BailIsImmediate == Spec => []BailReportsOnce
<1>1. IInv => BailReportsOnce
  BY DEF IInv
<1> QED
  BY <1>1, InductiveInvariant, PTL

\* The entry the table keeps for a name has the shape of all its deductions.
THEOREM TableIsEnough == Spec => []TableSpeaksForAll
<1>1. ASSUME IInv PROVE TableSpeaksForAll
  <2> SUFFICES ASSUME pc = "premise", failed = {},
                      NEW j \in 1 .. p - 1, NEW n \in Names, Deduces(j, n)
               PROVE  /\ targetTbl[n] # NoTarget
                      /\ targetTbl[n].form = Premises[j].target.form
                      /\ targetTbl[n].size = Premises[j].target.size
    BY DEF TableSpeaksForAll
  <2> QED
    BY <1>1, TableAgrees DEF IInv, Analysis!SameShape
<1> QED
  BY <1>1, InductiveInvariant, PTL

\* The pass implements SemanticAnalysis: for every module and both options,
\* the verdict it returns is ModuleOK's, which no early return, overwritten
\* table entry or bailOnFirstError can change.
THEOREM VerdictCorrectness == Spec => VerdictIsCorrect
<1>1. Init => Analysis!Init
  BY ModulesAssumption, SameTree
  DEF Init, Analysis!Init, Verdict, Done, Options, Analysis!Options
<1>2. IInv /\ IInv' /\ [Next]_vars => [Analysis!Decide]_<<module, opts, Verdict>>
  <2> SUFFICES ASSUME IInv, IInv', [Next]_vars
               PROVE  \/ Analysis!Decide
                      \/ UNCHANGED <<module, opts, Verdict>>
    BY DEF Analysis!Decide
  <2>1. UNCHANGED <<module, opts>>
    BY DEF Next, vars, PrevisitModule, PrevisitGroup, PrevisitDefn,
       CheckInferencePremise, CheckEqualityPremise, ReturnFromWhile,
       CheckProposition, Terminating
  <2>2. Done => UNCHANGED pc
    BY DEF Done, Next, vars, PrevisitModule, PrevisitGroup, PrevisitDefn,
       CheckInferencePremise, CheckEqualityPremise, ReturnFromWhile,
       CheckProposition, Terminating, NextPremise
  <2>3. CASE ~Done /\ Done'
    <3>1. /\ Verdict = "pending" /\ Verdict' = pc'
          /\ pc' \in {"accepted", "rejected"}
      BY <2>3 DEF Verdict, Done
    <3>2. pc' = "accepted" <=> Analysis!ModuleOK(module, opts.werror)
      BY <2>1, <2>3 DEF IInv, VerdictInv
    <3> QED
      BY <2>1, <3>1, <3>2 DEF Analysis!Decide
  <2>4. CASE Done \/ ~Done'
    <3>1. Verdict' = Verdict
      BY <2>2, <2>4 DEF Verdict, Done
    <3> QED
      BY <2>1, <3>1
  <2> QED
    BY <2>3, <2>4
<1> QED
  BY <1>1, <1>2, InductiveInvariant, PTL
  DEF Spec, VerdictIsCorrect, Analysis!Spec

-----------------------------------------------------------------------------
(* Warnings.                                                               *)

\* The repeated fields of the groups before group i, and the repeated globals of
\* the definitions before definition j of group i.
FieldsSeen(mod, i) == {s \in FieldSites(mod) : s[1][1] < i}

GlobalsSeen(mod, i, j) ==
  {s \in GlobalSites(mod) : s[1][1] < i \/ (s[1][1] = i /\ s[1][2] < j)}

\* They are what was reported so far.
Warned(mod, i, j, k) ==
  /\ IsFiniteSet(FieldsSeen(mod, i)) /\ IsFiniteSet(GlobalsSeen(mod, j, k))
  /\ warnings = Cardinality(FieldsSeen(mod, i)) + Cardinality(GlobalsSeen(mod, j, k))

\* Wherever a callback is about to run and nothing was refused, the count is that
\* of the places passed; under warningsAsErrors nothing is counted.
WarningsInv ==
  /\ opts.werror => warnings = 0
  /\ pc = "module"  => warnings = 0
  /\ pc = "group"   => Warned(module, g, g, 1)
  /\ pc = "defn"    => Warned(module, g + 1, g, d)
  /\ pc = "premise" /\ ok => Warned(module, g + 1, g, d + 1)
  /\ pc = "accepted" =>
       warnings = Cardinality(FieldSites(module)) + Cardinality(GlobalSites(module))

\* The repeats of a list are finitely many.
LEMMA ListRepeats ==
  ASSUME NEW s, NEW n \in Nat, DOMAIN s = 1 .. n
  PROVE  IsFiniteSet(Repeats(s)) /\ Cardinality(Repeats(s)) \in Nat
<1>1. Repeats(s) \subseteq 1 .. n
  BY DEF Repeats
<1> QED
  BY <1>1, FS_Interval, FS_Subset, FS_CardinalityType, 1 \in Int, n \in Int

\* The repeats of one more list add their number.
LEMMA OneMorePlace ==
  ASSUME NEW S, IsFiniteSet(S), NEW place, NEW R, IsFiniteSet(R),
         S \cap ({place} \X R) = {}
  PROVE  /\ IsFiniteSet(S \cup ({place} \X R))
         /\ Cardinality(S \cup ({place} \X R)) = Cardinality(S) + Cardinality(R)
<1>1. IsFiniteSet({place}) /\ Cardinality({place}) = 1
  BY FS_Singleton
<1>2. IsFiniteSet({place} \X R) /\ Cardinality({place} \X R) = 1 * Cardinality(R)
  BY <1>1, FS_Product
<1>3. Cardinality(S) \in Nat /\ Cardinality(R) \in Nat
  BY FS_CardinalityType
<1> DEFINE T == {place} \X R
<1>4. IsFiniteSet(S \cup T)
      /\ Cardinality(S \cup T) = Cardinality(S) + Cardinality(T) - Cardinality(S \cap T)
  <2> HIDE DEF T
  <2> QED
    BY <1>2, FS_Union DEF T
<1>5. Cardinality(S \cap T) = 0
  BY FS_EmptySet
<1> QED
  BY <1>2, <1>3, <1>4, <1>5

\* A repeated field has its group and its position in the environment, ...
LEMMA FieldSiteIs ==
  ASSUME NEW mod, NEW s
  PROVE  s \in FieldSites(mod) <=>
           \E i \in DOMAIN mod : \E k \in Repeats(FieldsOf(mod[i].env)) : s = <<<<i>>, k>>
BY DEF FieldSites

\* ... a repeated global its group, its definition and its position.
LEMMA GlobalSiteIs ==
  ASSUME NEW mod, NEW s
  PROVE  s \in GlobalSites(mod) <=>
           \E i \in DOMAIN mod : \E j \in DOMAIN mod[i].defns :
             \E k \in Repeats(mod[i].defns[j].globals) : s = <<<<i, j>>, k>>
BY DEF GlobalSites

\* The lists of a module.
LEMMA ModuleLists ==
  ASSUME NEW mod \in Module
  PROVE  /\ DOMAIN mod = 1 .. Len(mod) /\ Len(mod) \in Nat
         /\ \A i \in DOMAIN mod :
              /\ DOMAIN FieldsOf(mod[i].env) = 1 .. Len(mod[i].env) /\ Len(mod[i].env) \in Nat
              /\ DOMAIN mod[i].defns = 1 .. Len(mod[i].defns) /\ Len(mod[i].defns) \in Nat
              /\ \A j \in DOMAIN mod[i].defns :
                   /\ DOMAIN mod[i].defns[j].globals = 1 .. Len(mod[i].defns[j].globals)
                   /\ Len(mod[i].defns[j].globals) \in Nat
<1>1. DOMAIN mod = 1 .. Len(mod) /\ Len(mod) \in Nat
  BY DEF Module
<1>2. ASSUME NEW i \in DOMAIN mod
      PROVE  /\ DOMAIN FieldsOf(mod[i].env) = 1 .. Len(mod[i].env) /\ Len(mod[i].env) \in Nat
             /\ DOMAIN mod[i].defns = 1 .. Len(mod[i].defns) /\ Len(mod[i].defns) \in Nat
             /\ \A j \in DOMAIN mod[i].defns :
                  /\ DOMAIN mod[i].defns[j].globals = 1 .. Len(mod[i].defns[j].globals)
                  /\ Len(mod[i].defns[j].globals) \in Nat
  <2>1. mod[i] \in InferenceGroup
    BY DEF Module
  <2>2. mod[i].env \in Seq(EnvironmentDefn) /\ mod[i].defns \in Seq(InferenceDefn)
    BY <2>1 DEF InferenceGroup
  <2>3. ASSUME NEW j \in DOMAIN mod[i].defns
        PROVE  mod[i].defns[j].globals \in Seq(Names)
    <3>1. mod[i].defns[j] \in InferenceDefn
      BY <2>2
    <3> QED
      BY <3>1 DEF InferenceDefn
  <2> QED
    BY <2>2, <2>3 DEF FieldsOf
<1> QED
  BY <1>1, <1>2

\* Nothing is before the first group.
LEMMA FirstSites ==
  ASSUME NEW mod \in Module
  PROVE  FieldsSeen(mod, 1) = {} /\ GlobalsSeen(mod, 1, 1) = {}
<1>1. ASSUME NEW s \in FieldsSeen(mod, 1) PROVE FALSE
  <2>1. PICK i \in DOMAIN mod : s[1][1] = i /\ i < 1
    BY FieldSiteIs DEF FieldsSeen
  <2> QED
    BY <2>1, ModuleLists
<1>2. ASSUME NEW s \in GlobalsSeen(mod, 1, 1) PROVE FALSE
  <2>1. PICK i, j :
            /\ i \in DOMAIN mod /\ j \in DOMAIN mod[i].defns
            /\ s[1][1] = i /\ s[1][2] = j
    BY GlobalSiteIs DEF GlobalsSeen
  <2>2. i >= 1 /\ j >= 1 /\ i \in Int /\ j \in Int
    BY <2>1, ModuleLists
  <2>3. i < 1 \/ (i = 1 /\ j < 1)
    BY <2>1 DEF GlobalsSeen
  <2> QED
    BY <2>2, <2>3
<1> QED
  BY <1>1, <1>2

\* Passing a group adds the repeats of its fields, ...
LEMMA NextFields ==
  ASSUME NEW mod \in Module, NEW i \in DOMAIN mod, IsFiniteSet(FieldsSeen(mod, i))
  PROVE  /\ IsFiniteSet(FieldsSeen(mod, i + 1))
         /\ Cardinality(FieldsSeen(mod, i + 1))
              = Cardinality(FieldsSeen(mod, i)) + Cardinality(Repeats(FieldsOf(mod[i].env)))
<1> DEFINE R == Repeats(FieldsOf(mod[i].env))
           S == FieldsSeen(mod, i)
<1>0. i \in Nat /\ \A n \in DOMAIN mod : n \in Nat
  BY ModuleLists
<1>1. FieldsSeen(mod, i + 1) = S \cup ({<<i>>} \X R)
  <2>1. ASSUME NEW s \in FieldsSeen(mod, i + 1)
        PROVE  s \in S \cup ({<<i>>} \X R)
    <3>1. PICK n \in DOMAIN mod : \E k \in Repeats(FieldsOf(mod[n].env)) : s = <<<<n>>, k>>
      BY FieldSiteIs DEF FieldsSeen
    <3>2. s[1][1] = n /\ n < i + 1
      BY <3>1 DEF FieldsSeen
    <3>3. n < i \/ n = i
      BY <1>0, <3>2
    <3>4. CASE n < i
      BY <3>2, <3>4 DEF FieldsSeen
    <3>5. CASE n = i
      BY <3>1, <3>5
    <3> QED
      BY <3>3, <3>4, <3>5
  <2>2. ASSUME NEW s \in S
        PROVE  s \in FieldsSeen(mod, i + 1)
    <3>1. PICK n \in DOMAIN mod : s[1][1] = n
      BY FieldSiteIs DEF FieldsSeen
    <3>2. n < i
      BY <3>1 DEF FieldsSeen
    <3>3. n < i + 1
      BY <1>0, <3>2
    <3> QED
      BY <3>1, <3>3 DEF FieldsSeen
  <2>3. ASSUME NEW s \in {<<i>>} \X R
        PROVE  s \in FieldsSeen(mod, i + 1)
    <3>1. \E k \in R : s = <<<<i>>, k>>
      OBVIOUS
    <3>2. s \in FieldSites(mod) /\ s[1][1] = i
      BY <3>1, FieldSiteIs
    <3> QED
      BY <1>0, <3>2 DEF FieldsSeen
  <2> QED
    BY <2>1, <2>2, <2>3
<1>2. S \cap ({<<i>>} \X R) = {}
  <2> SUFFICES ASSUME NEW s \in S, s \in {<<i>>} \X R PROVE FALSE
    OBVIOUS
  <2>1. s[1][1] = i /\ s[1][1] < i
    BY DEF FieldsSeen
  <2> QED
    BY <1>0, <2>1
<1>3. IsFiniteSet(R)
  BY ModuleLists, ListRepeats
<1> HIDE DEF R, S
<1>4. /\ IsFiniteSet(S \cup ({<<i>>} \X R))
      /\ Cardinality(S \cup ({<<i>>} \X R)) = Cardinality(S) + Cardinality(R)
  <2> DEFINE place == <<i>>
  <2>1. S \cap ({place} \X R) = {} /\ IsFiniteSet(S)
    BY <1>2 DEF S
  <2>2. /\ IsFiniteSet(S \cup ({place} \X R))
        /\ Cardinality(S \cup ({place} \X R)) = Cardinality(S) + Cardinality(R)
    <3> HIDE DEF place
    <3> QED
      BY <1>3, <2>1, OneMorePlace
  <2> QED
    BY <2>2
<1> QED
  BY <1>1, <1>4 DEF R, S

\* ... passing a definition those of its globals.
LEMMA NextGlobals ==
  ASSUME NEW mod \in Module, NEW i \in DOMAIN mod, NEW j \in DOMAIN mod[i].defns,
         IsFiniteSet(GlobalsSeen(mod, i, j))
  PROVE  /\ IsFiniteSet(GlobalsSeen(mod, i, j + 1))
         /\ Cardinality(GlobalsSeen(mod, i, j + 1))
              = Cardinality(GlobalsSeen(mod, i, j))
                  + Cardinality(Repeats(mod[i].defns[j].globals))
<1> DEFINE R == Repeats(mod[i].defns[j].globals)
           S == GlobalsSeen(mod, i, j)
<1>0. /\ i \in Nat /\ j \in Nat
      /\ \A n \in DOMAIN mod : n \in Nat /\ \A m \in DOMAIN mod[n].defns : m \in Nat
  BY ModuleLists
<1>1. GlobalsSeen(mod, i, j + 1) = S \cup ({<<i, j>>} \X R)
  <2>1. ASSUME NEW s \in GlobalsSeen(mod, i, j + 1)
        PROVE  s \in S \cup ({<<i, j>>} \X R)
    <3>1. PICK n, m :
            /\ n \in DOMAIN mod /\ m \in DOMAIN mod[n].defns
            /\ \E k \in Repeats(mod[n].defns[m].globals) : s = <<<<n, m>>, k>>
      BY GlobalSiteIs DEF GlobalsSeen
    <3>2. s[1][1] = n /\ s[1][2] = m /\ (n < i \/ (n = i /\ m < j + 1))
      BY <3>1 DEF GlobalsSeen
    <3>0. n \in Nat /\ m \in Nat
      BY <1>0, <3>1
    <3>3. n < i \/ (n = i /\ m < j) \/ (n = i /\ m = j)
      BY <1>0, <3>0, <3>2
    <3>4. CASE n < i \/ (n = i /\ m < j)
      BY <3>2, <3>4 DEF GlobalsSeen
    <3>5. CASE n = i /\ m = j
      BY <3>1, <3>5
    <3> QED
      BY <3>3, <3>4, <3>5
  <2>2. ASSUME NEW s \in S
        PROVE  s \in GlobalsSeen(mod, i, j + 1)
    <3>1. PICK n, m :
            /\ n \in DOMAIN mod /\ m \in DOMAIN mod[n].defns
            /\ s[1][1] = n /\ s[1][2] = m
      BY GlobalSiteIs DEF GlobalsSeen
    <3>2. n < i \/ (n = i /\ m < j)
      BY <3>1 DEF GlobalsSeen
    <3>0. n \in Nat /\ m \in Nat
      BY <1>0, <3>1
    <3>3. n < i \/ (n = i /\ m < j + 1)
      BY <1>0, <3>0, <3>2
    <3> QED
      BY <3>1, <3>3 DEF GlobalsSeen
  <2>3. ASSUME NEW s \in {<<i, j>>} \X R
        PROVE  s \in GlobalsSeen(mod, i, j + 1)
    <3>1. \E k \in R : s = <<<<i, j>>, k>>
      OBVIOUS
    <3>2. s \in GlobalSites(mod) /\ s[1][1] = i /\ s[1][2] = j
      BY <3>1, GlobalSiteIs
    <3> QED
      BY <1>0, <3>2 DEF GlobalsSeen
  <2> QED
    BY <2>1, <2>2, <2>3
<1>2. S \cap ({<<i, j>>} \X R) = {}
  <2> SUFFICES ASSUME NEW s \in S, s \in {<<i, j>>} \X R PROVE FALSE
    OBVIOUS
  <2>1. s[1][1] = i /\ s[1][2] = j /\ (s[1][1] < i \/ (s[1][1] = i /\ s[1][2] < j))
    BY DEF GlobalsSeen
  <2> QED
    BY <1>0, <2>1
<1>3. IsFiniteSet(R)
  BY ModuleLists, ListRepeats
<1> DEFINE place == <<i, j>>
<1>4. S \cap ({place} \X R) = {} /\ IsFiniteSet(S)
  BY <1>2
<1>5. GlobalsSeen(mod, i, j + 1) = S \cup ({place} \X R)
  BY <1>1
<1> HIDE DEF R, S, place
<1>6. /\ IsFiniteSet(S \cup ({place} \X R))
      /\ Cardinality(S \cup ({place} \X R)) = Cardinality(S) + Cardinality(R)
  BY <1>3, <1>4, OneMorePlace
<1> QED
  BY <1>5, <1>6 DEF R, S

\* The end of a group is the start of the next, and the end of the last is the end.
LEMMA GroupEnd ==
  ASSUME NEW mod \in Module, NEW i \in DOMAIN mod
  PROVE  GlobalsSeen(mod, i, Len(mod[i].defns) + 1) = GlobalsSeen(mod, i + 1, 1)
<1> DEFINE last == Len(mod[i].defns)
<1>0. /\ i \in Nat /\ last \in Nat
      /\ \A n \in DOMAIN mod : n \in Nat /\ \A m \in DOMAIN mod[n].defns : m \in Nat /\ m >= 1
      /\ \A m \in DOMAIN mod[i].defns : m <= last
  BY ModuleLists
<1>1. ASSUME NEW s \in GlobalSites(mod)
      PROVE  (s[1][1] < i \/ (s[1][1] = i /\ s[1][2] < last + 1)) <=>
             (s[1][1] < i + 1 \/ (s[1][1] = i + 1 /\ s[1][2] < 1))
  <2>1. PICK n, m :
            /\ n \in DOMAIN mod /\ m \in DOMAIN mod[n].defns
            /\ s[1][1] = n /\ s[1][2] = m
    BY GlobalSiteIs
  <2> QED
    BY <1>0, <2>1
<1> QED
  BY <1>1 DEF GlobalsSeen

\* Past the last group, every site has been seen.
LEMMA ModuleEnd ==
  ASSUME NEW mod \in Module
  PROVE  /\ FieldsSeen(mod, Len(mod) + 1) = FieldSites(mod)
         /\ GlobalsSeen(mod, Len(mod) + 1, 1) = GlobalSites(mod)
<1>1. ASSUME NEW s \in FieldSites(mod)
      PROVE  s[1][1] < Len(mod) + 1
  <2>1. PICK n \in DOMAIN mod : s[1][1] = n
    BY FieldSiteIs
  <2> QED
    BY <2>1, ModuleLists
<1>2. ASSUME NEW s \in GlobalSites(mod)
      PROVE  s[1][1] < Len(mod) + 1
  <2>1. PICK n \in DOMAIN mod : s[1][1] = n
    BY GlobalSiteIs
  <2> QED
    BY <2>1, ModuleLists
<1> QED
  BY <1>1, <1>2 DEF FieldsSeen, GlobalsSeen

\* Moving on to a group keeps the count.
LEMMA CountGroups ==
  ASSUME TypeOK, UNCHANGED <<module, opts, warnings>>, NEW n \in Nat \ {0},
         VisitGroups(n), n - 1 <= Len(module), Warned(module, n, n, 1),
         opts.werror => warnings = 0
  PROVE  WarningsInv'
<1>1. /\ pc' = IF n \in 1 .. Len(module) THEN "group" ELSE "accepted"
      /\ g' = n /\ d' = 1
  BY TreeTypes DEF VisitGroups
<1>2. CASE pc' = "group"
  <2>1. Warned(module, g, g, 1)'
    BY <1>1 DEF Warned, FieldsSeen, GlobalsSeen, FieldSites, GlobalSites
  <2> QED
    BY <1>2, <2>1 DEF WarningsInv
<1>3. CASE pc' = "accepted"
  <2>1. n = Len(module) + 1
    BY <1>1, <1>3, TreeTypes
  <2>2. FieldsSeen(module, n) = FieldSites(module) /\ GlobalsSeen(module, n, 1) = GlobalSites(module)
    BY <2>1, TreeTypes, ModuleEnd
  <2>3. warnings = Cardinality(FieldSites(module)) + Cardinality(GlobalSites(module))
    BY <2>2 DEF Warned
  <2> QED
    BY <1>3, <2>3 DEF WarningsInv
<1> QED
  BY <1>1, <1>2, <1>3

\* Moving on from a definition keeps the count, at the end of the group too.
LEMMA CountDefns ==
  ASSUME TypeOK, UNCHANGED <<module, opts>>, pc \in {"group", "premise"},
         NEW n \in Nat \ {0}, VisitDefns(n), n - 1 <= Len(Group.defns),
         warnings' \in Nat, opts.werror => warnings' = 0,
         IsFiniteSet(FieldsSeen(module, g + 1)), IsFiniteSet(GlobalsSeen(module, g, n)),
         warnings' = Cardinality(FieldsSeen(module, g + 1)) + Cardinality(GlobalsSeen(module, g, n))
  PROVE  WarningsInv'
<1>1. /\ g \in Nat \ {0} /\ g <= Len(module) /\ g \in DOMAIN module
      /\ Len(Group.defns) \in Nat /\ DOMAIN Group.defns = 1 .. Len(Group.defns)
      /\ module \in Module
  BY TreeTypes DEF TypeOK, CursorOK
<1>2. CASE n \in DOMAIN Group.defns
  <2>1. pc' = "defn" /\ d' = n /\ g' = g
    BY <1>2 DEF VisitDefns
  <2>2. Warned(module, g + 1, g, d)'
    BY <2>1 DEF Warned, FieldsSeen, GlobalsSeen, FieldSites, GlobalSites
  <2> QED
    BY <2>1, <2>2 DEF WarningsInv
<1>3. CASE n \notin DOMAIN Group.defns
  <2>1. VisitGroups(g + 1)
    BY <1>3 DEF VisitDefns
  <2>2. n = Len(Group.defns) + 1
    BY <1>1, <1>3
  <2>3. GlobalsSeen(module, g, n) = GlobalsSeen(module, g + 1, 1)
    BY <1>1, <2>2, GroupEnd DEF Group
  <2>4. /\ pc' = IF g + 1 \in 1 .. Len(module) THEN "group" ELSE "accepted"
        /\ g' = g + 1
    BY <2>1, TreeTypes DEF VisitGroups
  <2>5. CASE pc' = "group"
    <3>1. Warned(module, g, g, 1)'
      <4>1. /\ IsFiniteSet(FieldsSeen(module', g')) /\ IsFiniteSet(GlobalsSeen(module', g', 1))
            /\ warnings' = Cardinality(FieldsSeen(module', g'))
                              + Cardinality(GlobalsSeen(module', g', 1))
        BY <2>3, <2>4
      <4> QED
        BY <4>1 DEF Warned
    <3> QED
      BY <2>5, <3>1 DEF WarningsInv
  <2>6. CASE pc' = "accepted"
    <3>0. g + 1 \notin 1 .. Len(module) /\ Len(module) \in Nat
      BY <2>4, <2>6, TreeTypes
    <3>1. g = Len(module)
      BY <1>1, <3>0
    <3>2. /\ FieldsSeen(module, g + 1) = FieldSites(module)
          /\ GlobalsSeen(module, g + 1, 1) = GlobalSites(module)
      BY <1>1, <3>1, ModuleEnd
    <3>3. warnings' = Cardinality(FieldSites(module)) + Cardinality(GlobalSites(module))
      BY <2>3, <3>2
    <3> QED
      BY <2>6, <3>3 DEF WarningsInv
  <2> QED
    BY <2>4, <2>5, <2>6
<1> QED
  BY <1>2, <1>3

\* A refused module makes no promise about its warnings.
LEMMA CountRejected ==
  ASSUME pc' = "rejected", opts' = opts, opts.werror => warnings' = 0
  PROVE  WarningsInv'
BY DEF WarningsInv

\* The module callback reports no warnings.
LEMMA CountModule ==
  ASSUME TypeOK, WarningsInv, PrevisitModule
  PROVE  WarningsInv'
<1> DEFINE duplicates == Cardinality(Repeats(NamesOf(module)))
<1>1. /\ pc = "module" /\ UNCHANGED <<module, opts, warnings>>
      /\ IF duplicates = 0 THEN VisitGroups(1) ELSE Reject
      /\ warnings = 0
  BY DEF PrevisitModule, WarningsInv
<1>2. CASE VisitGroups(1)
  <2>1. Warned(module, 1, 1, 1)
    <3>1. FieldsSeen(module, 1) = {} /\ GlobalsSeen(module, 1, 1) = {}
      BY TreeTypes, FirstSites
    <3>2. IsFiniteSet({}) /\ Cardinality({}) = 0
      BY FS_EmptySet
    <3> QED
      BY <1>1, <3>1, <3>2 DEF Warned
  <2>2. 1 \in Nat \ {0} /\ 1 - 1 <= Len(module)
    BY TreeTypes
  <2> QED
    BY <1>1, <1>2, <2>1, <2>2, CountGroups
<1>3. CASE Reject
  BY <1>1, <1>3, CountRejected DEF Reject
<1> QED
  BY <1>1, <1>2, <1>3

\* Warnings of a list with n repeats, when no error was found in it.
LEMMA WarningsCounted ==
  ASSUME TypeOK, NEW n \in Nat
  PROVE  /\ AsWarnings(n) \in Nat
         /\ opts.werror => AsWarnings(n) = 0
         /\ AsErrors(n) = 0 => AsWarnings(n) = n
BY DEF AsWarnings, AsErrors, TypeOK, Options

\* The group callback reports the repeated fields, if they are no errors.
LEMMA CountGroup ==
  ASSUME TypeOK, WarningsInv, PrevisitGroup
  PROVE  WarningsInv'
<1> DEFINE repeated == Cardinality(Repeats(FieldsOf(Group.env)))
           problems == AsErrors(repeated) + Cardinality(MissingFields(Group))
                         + NameProblems(Group)
<1>1. /\ pc = "group" /\ UNCHANGED <<module, opts>>
      /\ warnings' = warnings + AsWarnings(repeated)
      /\ IF problems = 0 THEN VisitDefns(1) ELSE Reject
  BY DEF PrevisitGroup
<1>2. /\ g \in DOMAIN module /\ module \in Module /\ Len(Group.defns) \in Nat /\ g \in Nat
  BY <1>1, TreeTypes DEF TypeOK, CursorOK
<1>3. /\ repeated \in Nat
  BY <1>2, ModuleLists, ListRepeats DEF Group
<1>4. /\ AsWarnings(repeated) \in Nat
      /\ opts.werror => AsWarnings(repeated) = 0
      /\ AsErrors(repeated) = 0 => AsWarnings(repeated) = repeated
  <2> HIDE DEF repeated
  <2> QED
    BY <1>3, WarningsCounted
<1>5. Warned(module, g, g, 1) /\ (opts.werror => warnings = 0) /\ warnings \in Nat
  BY <1>1 DEF WarningsInv, TypeOK
<1>6. opts.werror => warnings' = 0
  BY <1>1, <1>4, <1>5
<1>7. CASE Reject
  BY <1>1, <1>6, <1>7, CountRejected DEF Reject
<1>8. CASE problems = 0 /\ VisitDefns(1)
  <2>1. AsErrors(repeated) = 0
    <3>1. AsErrors(repeated) \in Nat
      BY <1>3 DEF AsErrors
    <3>2. Cardinality(MissingFields(Group)) \in Nat /\ NameProblems(Group) \in Nat
      <4>1. Cardinality(MissingFields(Group)) \in Nat
        BY MissingFieldsCount
      <4>2. Cardinality(Repeats(NamesOf(Group.defns))) \in Nat
        <5>1. DOMAIN NamesOf(Group.defns) = 1 .. Len(Group.defns)
          BY <1>1, TreeTypes DEF NamesOf
        <5> QED
          BY <1>2, <5>1, ListRepeats
      <4> QED
        BY <4>1, <4>2 DEF NameProblems
    <3> DEFINE a == AsErrors(repeated)
               b == Cardinality(MissingFields(Group))
               c == NameProblems(Group)
    <3>3. a \in Nat /\ b \in Nat /\ c \in Nat /\ a + b + c = 0
      BY <1>8, <3>1, <3>2
    <3>4. a = 0
      <4> HIDE DEF a, b, c
      <4> QED
        BY <3>3
    <3> QED
      BY <3>4
  <2>2. /\ IsFiniteSet(FieldsSeen(module, g + 1))
        /\ Cardinality(FieldsSeen(module, g + 1))
             = Cardinality(FieldsSeen(module, g)) + repeated
    BY <1>2, <1>5, NextFields DEF Warned, Group
  <2>3. /\ Cardinality(FieldsSeen(module, g)) \in Nat
        /\ Cardinality(GlobalsSeen(module, g, 1)) \in Nat
    BY <1>5, FS_CardinalityType DEF Warned
  <2>4. warnings' = Cardinality(FieldsSeen(module, g + 1)) + Cardinality(GlobalsSeen(module, g, 1))
    <3> DEFINE a == Cardinality(FieldsSeen(module, g))
               b == Cardinality(GlobalsSeen(module, g, 1))
    <3>1. warnings' = (a + b) + repeated
      BY <1>1, <1>4, <1>5, <2>1 DEF Warned
    <3>2. (a + b) + repeated = (a + repeated) + b
      <4> HIDE DEF a, b, repeated
      <4> QED
        BY <1>3, <2>3 DEF a, b
    <3> QED
      BY <2>2, <3>1, <3>2
  <2>5. IsFiniteSet(GlobalsSeen(module, g, 1)) /\ warnings' \in Nat
    BY <1>1, <1>4, <1>5 DEF Warned
  <2>6. 1 \in Nat \ {0} /\ 1 - 1 <= Len(Group.defns)
    BY <1>2
  <2> QED
    BY <1>1, <1>6, <1>8, <2>2, <2>4, <2>5, <2>6, CountDefns
<1> QED
  BY <1>1, <1>7, <1>8

\* The definition callback reports the repeated globals, if they are no errors.
LEMMA CountDefn ==
  ASSUME TypeOK, WarningsInv, PrevisitDefn
  PROVE  WarningsInv'
<1> DEFINE repeated == Cardinality(Repeats(Defn.globals))
           problems == AsErrors(repeated) + Cardinality(ArgumentRepeats(Defn))
<1>1. /\ pc = "defn" /\ UNCHANGED <<module, opts, g, d>>
      /\ warnings' = warnings + AsWarnings(repeated)
      /\ pc' \in {"rejected", "premise"} /\ ok' = (problems = 0)
  BY DEF PrevisitDefn
<1>2. /\ g \in DOMAIN module /\ module \in Module /\ g \in Nat /\ d \in Nat
      /\ d \in DOMAIN module[g].defns /\ Defn \in InferenceDefn
  BY <1>1, TreeTypes DEF TypeOK, CursorOK, Group
<1>3. repeated \in Nat /\ Cardinality(ArgumentRepeats(Defn)) \in Nat
  <2> DEFINE list == Defn.globals
  <2>1. DOMAIN list = 1 .. Len(list) /\ Len(list) \in Nat
    BY <1>2, ModuleLists DEF Group, Defn
  <2>2. Cardinality(Repeats(list)) \in Nat
    <3> HIDE DEF list
    <3> QED
      BY <2>1, ListRepeats
  <2>3. Cardinality(ArgumentRepeats(Defn)) \in Nat
    BY <1>2, ArgumentRepeatsCount
  <2> QED
    BY <2>2, <2>3
<1>4. /\ AsWarnings(repeated) \in Nat
      /\ opts.werror => AsWarnings(repeated) = 0
      /\ AsErrors(repeated) = 0 => AsWarnings(repeated) = repeated
  <2> HIDE DEF repeated
  <2> QED
    BY <1>3, WarningsCounted
<1>5. Warned(module, g + 1, g, d) /\ (opts.werror => warnings = 0) /\ warnings \in Nat
  BY <1>1 DEF WarningsInv, TypeOK
<1>6. opts.werror => warnings' = 0
  BY <1>1, <1>4, <1>5
<1>7. CASE pc' = "rejected"
  BY <1>1, <1>6, <1>7, CountRejected
<1>8. CASE pc' = "premise"
  <2>1. ASSUME problems = 0
        PROVE  Warned(module, g + 1, g, d + 1)'
    <3>1. AsErrors(repeated) = 0
      <4> DEFINE a == AsErrors(repeated)
                 b == Cardinality(ArgumentRepeats(Defn))
      <4>1. a \in Nat /\ b \in Nat /\ a + b = 0
        BY <1>3, <2>1 DEF AsErrors
      <4>2. a = 0
        <5> HIDE DEF a, b
        <5> QED
          BY <4>1
      <4> QED
        BY <4>2
    <3>2. /\ IsFiniteSet(GlobalsSeen(module, g, d + 1))
          /\ Cardinality(GlobalsSeen(module, g, d + 1))
               = Cardinality(GlobalsSeen(module, g, d)) + repeated
      BY <1>2, <1>5, NextGlobals DEF Warned, Group, Defn
    <3>3. /\ Cardinality(FieldsSeen(module, g + 1)) \in Nat
          /\ Cardinality(GlobalsSeen(module, g, d)) \in Nat
      BY <1>5, FS_CardinalityType DEF Warned
    <3>4. warnings' = Cardinality(FieldsSeen(module, g + 1)) + Cardinality(GlobalsSeen(module, g, d + 1))
      <4> DEFINE a == Cardinality(FieldsSeen(module, g + 1))
                 b == Cardinality(GlobalsSeen(module, g, d))
      <4>1. warnings' = (a + b) + repeated
        BY <1>1, <1>4, <1>5, <3>1 DEF Warned
      <4>2. (a + b) + repeated = a + (b + repeated)
        <5> HIDE DEF a, b, repeated
        <5> QED
          BY <1>3, <3>3 DEF a, b
      <4> QED
        BY <3>2, <4>1, <4>2
    <3> QED
      BY <1>1, <1>5, <3>2, <3>4 DEF Warned, FieldsSeen, GlobalsSeen, FieldSites, GlobalSites
  <2>2. ok' => problems = 0
    BY <1>1
  <2> QED
    BY <1>1, <1>6, <1>8, <2>1, <2>2 DEF WarningsInv
<1> QED
  BY <1>1, <1>7, <1>8

\* Premises have no warnings.
LEMMA CountPremise ==
  ASSUME WarningsInv, pc = "premise", pc' \in {"premise", "rejected"},
         UNCHANGED <<module, opts, g, d, ok, warnings>>
  PROVE  WarningsInv'
<1>1. CASE pc' = "rejected"
  BY <1>1, CountRejected DEF WarningsInv
<1>2. CASE pc' = "premise"
  BY <1>2 DEF WarningsInv, Warned, FieldsSeen, GlobalsSeen, FieldSites, GlobalSites
<1> QED
  BY <1>1, <1>2

\* Nor has a proposition.
LEMMA CountProposition ==
  ASSUME TypeOK, WarningsInv, CheckProposition
  PROVE  WarningsInv'
<1>1. /\ pc = "premise" /\ UNCHANGED <<module, opts, warnings>>
      /\ (ok /\ VisitDefns(d + 1)) \/ Reject
  BY DEF CheckProposition
<1>2. opts.werror => warnings' = 0
  BY <1>1 DEF WarningsInv
<1>3. CASE Reject
  BY <1>1, <1>2, <1>3, CountRejected DEF Reject
<1>4. CASE ok /\ VisitDefns(d + 1)
  <2>1. Warned(module, g + 1, g, d + 1) /\ warnings \in Nat
    BY <1>1, <1>4 DEF WarningsInv, TypeOK
  <2>2. d + 1 \in Nat \ {0} /\ (d + 1) - 1 <= Len(Group.defns)
    BY <1>1, TreeTypes DEF TypeOK, CursorOK
  <2> QED
    BY <1>1, <1>2, <1>4, <2>1, <2>2, CountDefns DEF Warned
<1> QED
  BY <1>1, <1>3, <1>4

\* An accepted module had every repeated field and every repeated global reported
\* once as a warning, and has none of them under warningsAsErrors.
THEOREM WarningsAreCounted == Spec => []AcceptedWithAllWarnings
<1>1. Init => WarningsInv
  BY DEF Init, WarningsInv
<1>2. IInv /\ WarningsInv /\ [Next]_vars => WarningsInv'
  <2> SUFFICES ASSUME TypeOK, WarningsInv, [Next]_vars
               PROVE  WarningsInv'
    BY DEF IInv
  <2>1. CASE PrevisitModule
    BY <2>1, CountModule
  <2>2. CASE PrevisitGroup
    BY <2>2, CountGroup
  <2>3. CASE PrevisitDefn
    BY <2>3, CountDefn
  <2>4. CASE CheckInferencePremise
    BY <2>4, CountPremise DEF CheckInferencePremise, NextPremise
  <2>5. CASE CheckEqualityPremise
    BY <2>5, CountPremise DEF CheckEqualityPremise, NextPremise, context
  <2>6. CASE ReturnFromWhile
    BY <2>6, CountPremise DEF ReturnFromWhile, Reject, context
  <2>7. CASE CheckProposition
    BY <2>7, CountProposition
  <2>8. CASE UNCHANGED vars
    BY <2>8 DEF vars, cursor, context, WarningsInv, Warned, FieldsSeen, GlobalsSeen,
       FieldSites, GlobalSites
  <2> QED
    BY <2>1, <2>2, <2>3, <2>4, <2>5, <2>6, <2>7, <2>8 DEF Next, Terminating
<1>3. WarningsInv => AcceptedWithAllWarnings
  BY DEF WarningsInv, AcceptedWithAllWarnings
<1> QED
  BY <1>1, <1>2, <1>3, InductiveInvariant, PTL DEF Spec

=============================================================================
