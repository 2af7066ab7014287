-------------------------- MODULE SemanticAnalyzer --------------------------
(***************************************************************************)
(* The semantic pass of src/SemanticAnalyzer.cpp, driven by the traversal  *)
(* of src/ASTVisitor.cpp.  One action per visitor callback; the callback   *)
(* for an inference definition, which loops over its premises, is split at *)
(* every premise.                                                          *)
(*                                                                         *)
(* The call stack of recursivePremiseDefnCheck is implicit: at premise p   *)
(* the calls in progress are the while-clauses whose interval contains p.  *)
(* "failed" remembers which of those calls hold res = false: without       *)
(* bailOnFirstError a bad premise that opens a while-clause still has its  *)
(* body checked before it returns.                                         *)
(***************************************************************************)
EXTENDS ASTUtils, FiniteSets

CONSTANT Modules     \* the modules the parser may hand over

ASSUME ModulesAssumption == Modules \subseteq Module

VARIABLES
  module,      \* the tree under analysis
  opts,        \* [bail, werror]: bailOnFirstError and warningsAsErrors
  pc,          \* the callback about to run, or the result of run()
  g, d, p,     \* the group, definition and premise the traversal is at
  ok,          \* res of the definition callback
  symbolSet,   \* InferenceDefnContext::symbolSet
  targetTbl,   \* InferenceDefnContext::targetTbl
  failed,      \* open while-premises whose call holds res = false
  errors,      \* errors registered so far
  warnings     \* warnings registered so far

cursor  == <<g, d, p>>
context == <<ok, symbolSet, targetTbl, failed>>
vars == <<module, opts, pc, cursor, context, errors, warnings>>

Options == [bail: BOOLEAN, werror: BOOLEAN]

Group    == module[g]
Defn     == Group.defns[d]
Premises == Defn.premises

Init ==
  /\ module \in Modules
  /\ opts \in Options
  /\ pc = "module"
  /\ g = 1 /\ d = 1 /\ p = 1
  /\ ok = TRUE
  /\ symbolSet = {} /\ targetTbl = EmptyTable
  /\ failed = {}
  /\ errors = 0 /\ warnings = 0

-----------------------------------------------------------------------------
(* Reporting.  A callback meets n problems in a row; with bailOnFirstError *)
(* it returns at the first one, otherwise it reports them all.             *)

\* Fault: bailOnFirstError is tested after the loop.
Reported_All(n) == n

Reported(n) == IF opts.bail /\ n > 0 THEN 1 ELSE n

\* A warning counts as an error under warningsAsErrors.
AsErrors(n) == IF opts.werror THEN n ELSE 0

\* Fault: one warning per list, however many repeats it has.
AsWarnings_Once(n) == IF opts.werror \/ n = 0 THEN 0 ELSE 1

AsWarnings(n) == IF opts.werror THEN 0 ELSE n

-----------------------------------------------------------------------------
(* The traversal: where the visitor goes when a callback returned true.    *)

VisitGroups(n) ==
  /\ pc' = IF n \in DOMAIN module THEN "group" ELSE "accepted"
  /\ g' = n
  /\ d' = 1

\* Fault: the end of the list is not tested.
VisitDefns_NoEnd(n) == pc' = "defn" /\ d' = n /\ g' = g

VisitDefns(n) ==
  IF n \in DOMAIN Group.defns
  THEN pc' = "defn" /\ d' = n /\ g' = g
  ELSE VisitGroups(g + 1)

\* Any callback that returns false ends the whole traversal.
Reject == pc' = "rejected" /\ UNCHANGED <<g, d>>

-----------------------------------------------------------------------------
PrevisitModule ==
  LET duplicates == Cardinality(Repeats(NamesOf(module)))
  IN  /\ pc = "module"
      /\ errors' = errors + Reported(duplicates)
      /\ IF duplicates = 0 THEN VisitGroups(1) ELSE Reject
      /\ UNCHANGED <<module, opts, p, context, warnings>>

\* Problems found in the environment of a group, and in its rule names: the
\* names are not looked at once a mandatory field is missing.
MissingFields(group) == MandatoryFields \ ElementsOf(FieldsOf(group.env))

NameProblems(group) ==
  IF MissingFields(group) = {} THEN Cardinality(Repeats(NamesOf(group.defns))) ELSE 0

PrevisitGroup ==
  LET repeated == Cardinality(Repeats(FieldsOf(Group.env)))
      problems == AsErrors(repeated) + Cardinality(MissingFields(Group))
                    + NameProblems(Group)
  IN  /\ pc = "group"
      /\ errors' = errors + Reported(problems)
      /\ warnings' = warnings + AsWarnings(repeated)
      /\ IF problems = 0 THEN VisitDefns(1) ELSE Reject
      /\ UNCHANGED <<module, opts, p, context>>

\* Fault: arguments are compared with arguments only.
ArgumentRepeats_NotGlobals(defn) == Repeats(defn.arguments)

\* Arguments that repeat a global or an earlier argument.
ArgumentRepeats(defn) ==
  {j \in DOMAIN defn.arguments :
     \/ defn.arguments[j] \in ElementsOf(defn.globals)
     \/ j \in Repeats(defn.arguments)}

\* The head of the definition callback: globals and arguments.  A problem
\* here does not keep the premises from being checked.
PrevisitDefn ==
  LET repeated == Cardinality(Repeats(Defn.globals))
      problems == AsErrors(repeated) + Cardinality(ArgumentRepeats(Defn))
  IN  /\ pc = "defn"
      /\ errors' = errors + Reported(problems)
      /\ warnings' = warnings + AsWarnings(repeated)
      /\ pc' = IF opts.bail /\ problems > 0 THEN "rejected" ELSE "premise"
      /\ ok' = (problems = 0)
      /\ symbolSet' = ElementsOf(Defn.globals) \cup ElementsOf(Defn.arguments)
      /\ targetTbl' = EmptyTable
      /\ failed' = {}
      /\ p' = 1
      /\ UNCHANGED <<module, opts, g, d>>

-----------------------------------------------------------------------------
(* Premises, in the order of the recursion.                                *)

\* Fault: a premise returns what its while-clause returned.
Returning_BodyOnly == {}

\* The while-clauses a call has come to the end of, with res = false.
Returning == {k \in failed : p > Premises[k].last}

\* Fault: off by one at the last premise.
NextPremise_ButLast(kind) ==
  /\ pc = "premise" /\ Returning = {}
  /\ p + 1 \in DOMAIN Premises /\ Premises[p].kind = kind

NextPremise(kind) ==
  /\ pc = "premise"
  /\ Returning = {}
  /\ p \in DOMAIN Premises
  /\ Premises[p].kind = kind

\* One problem for each of the conditions that holds.
Problems(c1, c2) == (IF c1 THEN 1 ELSE 0) + (IF c2 THEN 1 ELSE 0)

InferenceProblems(pr) ==
  Problems(pr.source \notin symbolSet,
           HasIncompatibleTargetInTable(pr.target, targetTbl))

\* A premise without a while-clause returns at once; one with a while-clause
\* has its body checked first, unless the first error made it return.
CheckInferencePremise ==
  LET pr       == Premises[p]
      problems == InferenceProblems(pr)
      bails    == opts.bail /\ problems > 0
  IN  /\ NextPremise("inference")
      /\ errors' = errors + Reported(problems)
      /\ targetTbl' = IF bails THEN targetTbl
                      ELSE AddTargetToTable(pr.target, targetTbl)
      /\ pc' = IF bails \/ (problems > 0 /\ ~pr.while) THEN "rejected" ELSE pc
      /\ failed' = IF problems > 0 /\ pr.while THEN failed \cup {p} ELSE failed
      /\ p' = p + 1
      /\ UNCHANGED <<module, opts, g, d, ok, symbolSet, warnings>>

RangeProblems(t) ==
  Problems(t.form = "singular", ~HasCompatibleTargetInTable(t, targetTbl))

EqualityProblems(pr) ==
  Problems(~AreTargetsCompatible(pr.lhs, pr.rhs), FALSE)
    + (IF pr.range = NoRange THEN 0 ELSE RangeProblems(pr.range))

CheckEqualityPremise ==
  LET problems == EqualityProblems(Premises[p])
  IN  /\ NextPremise("equality")
      /\ errors' = errors + Reported(problems)
      /\ pc' = IF problems > 0 THEN "rejected" ELSE pc
      /\ p' = p + 1
      /\ UNCHANGED <<module, opts, g, d, context, warnings>>

\* The body of a bad while-premise was fine; the premise itself returns false.
ReturnFromWhile ==
  /\ pc = "premise"
  /\ Returning # {}
  /\ Reject
  /\ UNCHANGED <<module, opts, p, context, errors, warnings>>

CheckProposition ==
  LET problems == Problems(
        ~HasCompatibleTargetInTable(Defn.proposition, targetTbl), FALSE)
  IN  /\ pc = "premise"
      /\ Returning = {}
      /\ p \notin DOMAIN Premises
      /\ errors' = errors + Reported(problems)
      /\ IF ok /\ problems = 0 THEN VisitDefns(d + 1) ELSE Reject
      /\ UNCHANGED <<module, opts, p, context, warnings>>

-----------------------------------------------------------------------------
Done == pc \in {"accepted", "rejected"}

\* run() has returned; nothing more happens to this module.
Terminating == Done /\ UNCHANGED vars

Next ==
  \/ PrevisitModule
  \/ PrevisitGroup
  \/ PrevisitDefn
  \/ CheckInferencePremise
  \/ CheckEqualityPremise
  \/ ReturnFromWhile
  \/ CheckProposition
  \/ Terminating

Spec == Init /\ [][Next]_vars

\* run() is one call on one thread: it goes on until it returns.
FairSpec == Spec /\ WF_vars(Next)

-----------------------------------------------------------------------------
(* Properties.                                                             *)

\* The cursor stays inside the module wherever a callback is about to use it.
CursorOK ==
  /\ g \in Nat \ {0} /\ d \in Nat \ {0} /\ p \in Nat \ {0}
  /\ pc \in {"group", "defn", "premise"} => g \in DOMAIN module
  /\ pc \in {"defn", "premise"} => d \in DOMAIN Group.defns
  /\ pc = "premise" => p <= Len(Premises) + 1

\* Every variable has its type: the counters never go negative, the cursor
\* never leaves the tree and the table only holds targets.
TypeOK ==
  /\ module \in Module
  /\ opts \in Options
  /\ pc \in {"module", "group", "defn", "premise", "accepted", "rejected"}
  /\ CursorOK
  /\ ok \in BOOLEAN
  /\ symbolSet \subseteq Names
  /\ targetTbl \in TargetTable
  /\ failed \subseteq 1 .. p - 1
  /\ errors \in Nat
  /\ warnings \in Nat

\* run() returns false exactly when an error was registered: the driver exits
\* with a failure if and only if the user was shown a reason.
VerdictMatchesErrors ==
  /\ pc = "accepted" => errors = 0
  /\ pc = "rejected" => errors > 0

\* With bailOnFirstError, the first error is also the last: no callback runs
\* after it and nothing else is registered.
BailReportsOnce ==
  opts.bail => errors <= 1 /\ (errors = 1 <=> pc = "rejected")

\* Premise j of the current definition leaves an entry under name n.
Deduces(j, n) ==
  LET pr == Premises[j]
  IN  pr.kind = "inference" /\ pr.target.form # "computed" /\ pr.target.name = n

\* As long as no premise was refused, the one entry the table keeps for a name
\* has the form and size of every target deduced under that name, inside
\* while-clauses or out: comparing with the latest is comparing with them all.
TableSpeaksForAll ==
  pc = "premise" /\ failed = {} =>
    \A j \in 1 .. p - 1, n \in Names :
      Deduces(j, n) => /\ targetTbl[n] # NoTarget
                       /\ targetTbl[n].form = Premises[j].target.form
                       /\ targetTbl[n].size = Premises[j].target.size

\* The repeated fields and repeated globals of a module, each at its place.
FieldSites(mod) ==
  UNION {{<<i>>} \X Repeats(FieldsOf(mod[i].env)) : i \in DOMAIN mod}

GlobalSites(mod) ==
  UNION {UNION {{<<i, j>>} \X Repeats(mod[i].defns[j].globals) :
                  j \in DOMAIN mod[i].defns} : i \in DOMAIN mod}

\* An accepted module had each of its repeats reported once as a warning, and
\* has none at all when warnings count as errors.
AcceptedWithAllWarnings ==
  pc = "accepted" =>
    /\ warnings = Cardinality(FieldSites(module)) + Cardinality(GlobalSites(module))
    /\ opts.werror => warnings = 0

\* The verdict, reached callback by callback with early returns and a table
\* that is overwritten, is the one the whole tree deserves: the pass
\* implements SemanticAnalysis, and so does not depend on bailOnFirstError.
Verdict == IF Done THEN pc ELSE "pending"

Analysis == INSTANCE SemanticAnalysis WITH verdict <- Verdict
VerdictIsCorrect == Analysis!Spec

\* What the tutorial says of ClassName: it is given if the class is to be named
\* differently from its group.  Leaving it out is no reason to be refused.
WithClassName(group) ==
  IF "ClassName" \in ElementsOf(FieldsOf(group.env)) THEN group
  ELSE [group EXCEPT !.env = Append(@, [field |-> "ClassName", value |-> group.name])]

ClassNameIsOptional ==
  pc = "rejected" =>
    ~Analysis!ModuleOK([i \in DOMAIN module |-> WithClassName(module[i])], opts.werror)

-----------------------------------------------------------------------------
(* Why the verdict is correct: what holds of the part already traversed.   *)

SymbolsInv ==
  pc = "premise" =>
    /\ symbolSet = ElementsOf(Defn.globals) \cup ElementsOf(Defn.arguments)
    /\ ok <=> Analysis!SymbolsOK(Defn, opts.werror)

\* An entry of the table is a target deduced before p under its name, and a
\* name without an entry was not deduced.
TableInv ==
  pc = "premise" =>
    \A n \in Names :
      IF targetTbl[n] = NoTarget
      THEN \A j \in 1 .. p - 1 : ~Deduces(j, n)
      ELSE \E j \in 1 .. p - 1 : Deduces(j, n) /\ targetTbl[n] = Premises[j].target

\* Until a premise is refused all premises are fine; afterwards one is not.
PremisesInv ==
  pc = "premise" =>
    IF failed = {}
    THEN \A j \in 1 .. p - 1 : Analysis!PremiseOK(Defn, j)
    ELSE \E j \in 1 .. p - 1 : ~Analysis!PremiseOK(Defn, j)

TraversedInv ==
  /\ pc \in {"group", "defn", "premise"} =>
       /\ Analysis!NoRepeats(NamesOf(module))
       /\ \A i \in 1 .. g - 1 : Analysis!GroupOK(module[i], opts.werror)
  /\ pc \in {"defn", "premise"} =>
       /\ Analysis!GroupHeaderOK(Group, opts.werror)
       /\ \A i \in 1 .. d - 1 : Analysis!DefnOK(Group.defns[i], opts.werror)

VerdictInv == Done => (pc = "accepted" <=> Analysis!ModuleOK(module, opts.werror))

\* Errors are registered exactly when something was refused.
ErrorsInv ==
  /\ pc \in {"module", "group", "defn", "accepted"} => errors = 0
  /\ pc = "premise" => (errors = 0 <=> ok /\ failed = {})
  /\ pc = "rejected" => errors > 0

IInv ==
  /\ TypeOK
  /\ SymbolsInv
  /\ TableInv
  /\ PremisesInv
  /\ TraversedInv
  /\ VerdictInv
  /\ ErrorsInv
  /\ BailReportsOnce

\* The traversal always ends: run() returns for every module and option.
Terminates == <>Done

=============================================================================
