------------------------- MODULE ProgramDriverProofs -------------------------
(***************************************************************************)
(* Proofs about ProgramDriver.  The analyzer's steps are those that its own*)
(* invariant is proved for.  The synthesizer is an instance, and the lemmas*)
(* about it are taken from the same instance of its module of proofs.      *)
(***************************************************************************)
EXTENDS ProgramDriver, SemanticAnalyzerProofs

-----------------------------------------------------------------------------
(* The synthesizer of run() is the one that SynthesizerProofs is about: its*)
(* facts are those of this instance.                                       *)

Synthesis == INSTANCE SynthesizerProofs
               WITH pc <- synthPc, g <- synthG, d <- synthD, p <- synthP

\* The trees that the analyzer knows are those that the synthesizer knows.
LEMMA SameTrees == Synthesis!Module = Module
BY DEF Module, InferenceGroup, EnvironmentDefn, MandatoryFields, WhileFields,
  InferenceDefn, PremiseDefnList, WellNested, OpensWhile,
  Premise, InferencePremise, EqualityPremise, Target,
  Synthesis!Module, Synthesis!InferenceGroup, Synthesis!EnvironmentDefn,
  Synthesis!MandatoryFields, Synthesis!WhileFields,
  Synthesis!InferenceDefn, Synthesis!PremiseDefnList, Synthesis!WellNested,
  Synthesis!OpensWhile, Synthesis!Premise, Synthesis!InferencePremise,
  Synthesis!EqualityPremise, Synthesis!Target

\* A module that is accepted under some options is one that the synthesizer can
\* translate, since warnings do not stop it.
LEMMA AcceptedIsTranslatable ==
  ASSUME NEW mod, NEW werror, Analysis!ModuleOK(mod, werror)
  PROVE  Synthesis!Analysis!ModuleOK(mod, FALSE)
<1>1. ASSUME NEW defn, NEW i
      PROVE  Analysis!PremiseOK(defn, i) = Synthesis!Analysis!PremiseOK(defn, i)
  BY DEF Analysis!PremiseOK, Analysis!InferencePremiseOK, Analysis!EqualityPremiseOK,
    Analysis!Comparable, Analysis!IsElement, Analysis!HasSizeLiteral,
    Analysis!DeducedBefore, Analysis!Deduces, Analysis!SameShape, Analysis!ElementsOf,
    Synthesis!Analysis!PremiseOK, Synthesis!Analysis!InferencePremiseOK,
    Synthesis!Analysis!EqualityPremiseOK, Synthesis!Analysis!Comparable,
    Synthesis!Analysis!IsElement, Synthesis!Analysis!HasSizeLiteral,
    Synthesis!Analysis!DeducedBefore, Synthesis!Analysis!Deduces,
    Synthesis!Analysis!SameShape, Synthesis!Analysis!ElementsOf
<1>2. ASSUME NEW defn, Analysis!DefnOK(defn, werror)
      PROVE  Synthesis!Analysis!DefnOK(defn, FALSE)
  BY <1>1, <1>2
  DEF Analysis!DefnOK, Analysis!SymbolsOK, Analysis!DeducedBefore, Analysis!Deduces,
    Analysis!SameShape, Analysis!ElementsOf, Analysis!NoRepeats,
    Synthesis!Analysis!DefnOK, Synthesis!Analysis!SymbolsOK,
    Synthesis!Analysis!DeducedBefore, Synthesis!Analysis!Deduces,
    Synthesis!Analysis!SameShape, Synthesis!Analysis!ElementsOf,
    Synthesis!Analysis!NoRepeats
<1>3. ASSUME NEW group, Analysis!GroupOK(group, werror)
      PROVE  Synthesis!Analysis!GroupOK(group, FALSE)
  BY <1>2, <1>3
  DEF Analysis!GroupOK, Analysis!GroupHeaderOK, Analysis!NoRepeats, Analysis!NamesOf,
    Analysis!FieldsOf, Analysis!ElementsOf, Analysis!MandatoryFields,
    Synthesis!Analysis!GroupOK, Synthesis!Analysis!GroupHeaderOK,
    Synthesis!Analysis!NoRepeats, Synthesis!Analysis!NamesOf,
    Synthesis!Analysis!FieldsOf, Synthesis!Analysis!ElementsOf,
    Synthesis!Analysis!MandatoryFields
<1> QED
  BY <1>3, Zenon
  DEF Analysis!ModuleOK, Analysis!NoRepeats, Analysis!NamesOf,
    Synthesis!Analysis!ModuleOK, Synthesis!Analysis!NoRepeats, Synthesis!Analysis!NamesOf

\* The cursor of the one is that of the other, and so are the files and what is
\* written to them.
LEMMA SameCursor ==
  /\ Synthesis!Group = Synth!Group
  /\ Synthesis!Premises = Synth!Premises
  /\ \A field : Synthesis!HasField(field) = Synth!HasField(field)
  /\ Synthesis!BodyDone = Synth!BodyDone
  /\ \A kind : Synthesis!NextPremise(kind) = Synth!NextPremise(kind)
  /\ \A pr : Synthesis!DeducesComputed(pr) = Synth!DeducesComputed(pr)
  /\ \A s : Synthesis!Last(s) = Synth!Last(s)
  /\ \A n : Synthesis!VisitGroups(n) = Synth!VisitGroups(n)
  /\ \A n : Synthesis!VisitDefns(n) = Synth!VisitDefns(n)
<1>1. Synthesis!Group = Synth!Group /\ Synthesis!Premises = Synth!Premises
  BY DEF Synth!Group, Synth!Premises, Synth!Defn,
         Synthesis!Group, Synthesis!Premises, Synthesis!Defn
<1>2. \A s : Synthesis!Last(s) = Synth!Last(s)
  BY DEF Synth!Last, Synthesis!Last
<1> QED
  BY <1>1, <1>2
  DEF Synth!HasField, Synth!ElementsOf, Synth!FieldsOf, Synth!BodyDone, Synth!NextPremise,
    Synth!DeducesComputed, Synth!VisitGroups, Synth!VisitDefns,
    Synthesis!HasField, Synthesis!ElementsOf, Synthesis!FieldsOf, Synthesis!BodyDone,
    Synthesis!NextPremise, Synthesis!DeducesComputed, Synthesis!VisitGroups,
    Synthesis!VisitDefns

\* What they write.
LEMMA SameWrites ==
  /\ \A op, at, n : Synthesis!Line(op, at, n) = Synth!Line(op, at, n)
  /\ \A gr : Synthesis!HeaderPath(gr) = Synth!HeaderPath(gr)
  /\ \A gr : Synthesis!CppPath(gr) = Synth!CppPath(gr)
  /\ \A s : Synthesis!Written(s) = Synth!Written(s)
  /\ \A fs, s, path, ls : Synthesis!Appended(fs, s, path, ls) = Synth!Appended(fs, s, path, ls)
  /\ \A s, path : Synthesis!DamagedIf(s, path) = Synth!DamagedIf(s, path)
  /\ \A ls : Synthesis!WriteCpp(ls) = Synth!WriteCpp(ls)
  /\ \A hs, cs : Synthesis!WriteBoth(hs, cs) = Synth!WriteBoth(hs, cs)
  /\ Synthesis!PremiseAnnotationComment = Synth!PremiseAnnotationComment
<1>1. /\ \A op, at, n : Synthesis!Line(op, at, n) = Synth!Line(op, at, n)
      /\ \A s : Synthesis!Written(s) = Synth!Written(s)
      /\ \A fs, s, path, ls :
           Synthesis!Appended(fs, s, path, ls) = Synth!Appended(fs, s, path, ls)
      /\ \A s, path : Synthesis!DamagedIf(s, path) = Synth!DamagedIf(s, path)
  BY DEF Synth!Line, Synth!Written, Synth!Appended, Synth!DamagedIf,
         Synthesis!Line, Synthesis!Written, Synthesis!Appended, Synthesis!DamagedIf
<1>2. /\ \A gr : Synthesis!HeaderPath(gr) = Synth!HeaderPath(gr)
      /\ \A gr : Synthesis!CppPath(gr) = Synth!CppPath(gr)
  BY DEF Synth!HeaderPath, Synth!CppPath, Synth!EnvDefn, Synth!Max,
         Synthesis!HeaderPath, Synthesis!CppPath, Synthesis!EnvDefn, Synthesis!Max
<1>3. \A ls : Synthesis!WriteCpp(ls) = Synth!WriteCpp(ls)
  BY <1>1, <1>2, SameCursor DEF Synth!WriteCpp, Synthesis!WriteCpp
<1>4. \A hs, cs : Synthesis!WriteBoth(hs, cs) = Synth!WriteBoth(hs, cs)
  BY <1>1, <1>2, SameCursor DEF Synth!WriteBoth, Synthesis!WriteBoth
<1>5. Synthesis!PremiseAnnotationComment = Synth!PremiseAnnotationComment
  BY <1>1 DEF Synth!PremiseAnnotationComment, Synthesis!PremiseAnnotationComment
<1> QED
  BY <1>1, <1>2, <1>3, <1>4, <1>5

\* Every step of the one is a step of the other.
LEMMA SameSteps ==
  ASSUME Synth!Next
  PROVE  Synthesis!Next
<1>1. Synthesis!PostvisitPremise = Synth!PostvisitPremise
  BY DEF Synth!PostvisitPremise, Synthesis!PostvisitPremise
<1>2. Synthesis!Throw = Synth!Throw
  BY DEF Synth!Throw, Synth!cursor, Synth!context,
         Synthesis!Throw, Synthesis!cursor, Synthesis!context
<1>3. ASSUME Synth!SynthesizeErrorCodeFiles PROVE Synthesis!SynthesizeErrorCodeFiles
  BY <1>3, SameCursor, SameWrites
  DEF Synth!SynthesizeErrorCodeFiles, Synth!context,
      Synthesis!SynthesizeErrorCodeFiles, Synthesis!context
<1>4. ASSUME Synth!PrevisitGroup PROVE Synthesis!PrevisitGroup
  BY <1>4, SameCursor, SameWrites
  DEF Synth!PrevisitGroup, Synth!Opened, Synth!Truncated, Synth!context,
      Synthesis!PrevisitGroup, Synthesis!Opened, Synthesis!Truncated, Synthesis!context
<1>5. ASSUME Synth!PrevisitDefn PROVE Synthesis!PrevisitDefn
  BY <1>5, SameCursor, SameWrites
  DEF Synth!PrevisitDefn, Synth!context, Synthesis!PrevisitDefn, Synthesis!context
<1>6. ASSUME Synth!BeginWhile PROVE Synthesis!BeginWhile
  BY <1>2, <1>6, SameCursor, SameWrites
  DEF Synth!BeginWhile, Synth!context, Synthesis!BeginWhile, Synthesis!context
<1>7. ASSUME Synth!EndWhile PROVE Synthesis!EndWhile
  BY <1>1, <1>2, <1>7, SameCursor, SameWrites
  DEF Synth!EndWhile, Synth!Front, Synth!output,
      Synthesis!EndWhile, Synthesis!Front, Synthesis!output
<1>8. ASSUME Synth!DeduceComputed PROVE Synthesis!DeduceComputed
  BY <1>1, <1>8, SameCursor, SameWrites
  DEF Synth!DeduceComputed, Synth!TakeNames, Synthesis!DeduceComputed, Synthesis!TakeNames
<1>9. ASSUME Synth!Declare PROVE Synthesis!Declare
  BY <1>1, <1>9, SameCursor, SameWrites DEF Synth!Declare, Synthesis!Declare
<1>10. ASSUME Synth!PrevisitEquality PROVE Synthesis!PrevisitEquality
  BY <1>10, SameCursor, SameWrites
  DEF Synth!PrevisitEquality, Synth!context, Synthesis!PrevisitEquality, Synthesis!context
<1>11. ASSUME Synth!PostvisitDefn PROVE Synthesis!PostvisitDefn
  BY <1>11, SameCursor, SameWrites DEF Synth!PostvisitDefn, Synthesis!PostvisitDefn
<1>12. ASSUME Synth!PostvisitGroup PROVE Synthesis!PostvisitGroup
  BY <1>12, SameCursor, SameWrites
  DEF Synth!PostvisitGroup, Synth!Closed, Synth!context,
      Synthesis!PostvisitGroup, Synthesis!Closed, Synthesis!context
<1>13. ASSUME Synth!Terminating PROVE Synthesis!Terminating
  BY <1>13
  DEF Synth!Terminating, Synth!Done, Synth!vars, Synth!cursor, Synth!context, Synth!output,
      Synthesis!Terminating, Synthesis!Done, Synthesis!vars, Synthesis!cursor,
      Synthesis!context, Synthesis!output
<1> QED
  BY <1>3, <1>4, <1>5, <1>6, <1>7, <1>8, <1>9, <1>10, <1>11, <1>12, <1>13
  DEF Synth!Next, Synthesis!Next

\* The code that a module stands for is the same for both.
LEMMA SameCode ==
  /\ \A mod, i, cs : Synthesis!ClassCode(mod, i, cs) = Synth!ClassCode(mod, i, cs)
  /\ \A mod, i : Synthesis!ClassHeader(mod, i) = Synth!ClassHeader(mod, i)
<1>1. \A s : Synthesis!FlattenSeq(s) = Synth!FlattenSeq(s)
  BY DEF Synth!FlattenSeq, Synthesis!FlattenSeq
<1>2. \A s : Synthesis!Cardinality(s) = Synth!Cardinality(s)
  BY DEF Synth!Cardinality, Synthesis!Cardinality
<1>3. \A pr : /\ Synthesis!DeducesComputed(pr) = Synth!DeducesComputed(pr)
              /\ Synthesis!OpensWhile(pr) = Synth!OpensWhile(pr)
  BY DEF Synth!DeducesComputed, Synth!OpensWhile,
         Synthesis!DeducesComputed, Synthesis!OpensWhile
<1>4. \A ps, i : Synthesis!NumberOf(ps, i) = Synth!NumberOf(ps, i)
  BY <1>2 DEF Synth!NumberOf, Synthesis!NumberOf
<1>5. \A ps, i, first, cs : Synthesis!Entry(ps, i, first, cs) = Synth!Entry(ps, i, first, cs)
  BY <1>3, <1>4, SameWrites DEF Synth!Entry, Synthesis!Entry
<1>6. \A ps, i : Synthesis!Exits(ps, i) = Synth!Exits(ps, i)
  BY <1>1, <1>3, SameWrites, Zenon
  DEF Synth!Exits, Synth!Teardown, Synthesis!Exits, Synthesis!Teardown
<1>7. \A mod, i, j, k : Synthesis!TempsBefore(mod, i, j, k) = Synth!TempsBefore(mod, i, j, k)
  BY <1>2 DEF Synth!TempsBefore, Synth!DeducesComputed,
              Synthesis!TempsBefore, Synthesis!DeducesComputed
<1>8. ASSUME NEW mod, NEW i, NEW j, NEW cs
      PROVE  Synthesis!MethodCode(mod, i, j, cs) = Synth!MethodCode(mod, i, j, cs)
  <2> DEFINE ps == mod[i].defns[j].premises
             code(k) == Synth!Entry(ps, k, Synth!TempsBefore(mod, i, j, k), cs)
                          \o Synth!Exits(ps, k)
             same(k) == Synthesis!Entry(ps, k, Synthesis!TempsBefore(mod, i, j, k), cs)
                          \o Synthesis!Exits(ps, k)
  <2>1. \A k : same(k) = code(k)
    BY <1>5, <1>6, <1>7
  <2>2. Synth!MethodCode(mod, i, j, cs) =
          <<Synth!Line("beginMethod", j, 0)>>
          \o Synth!FlattenSeq([k \in DOMAIN ps |-> code(k)])
          \o <<Synth!Line("return", j, 0), Synth!Line("endMethod", j, 0)>>
    BY DEF Synth!MethodCode
  <2>3. Synthesis!MethodCode(mod, i, j, cs) =
          <<Synth!Line("beginMethod", j, 0)>>
          \o Synth!FlattenSeq([k \in DOMAIN ps |-> same(k)])
          \o <<Synth!Line("return", j, 0), Synth!Line("endMethod", j, 0)>>
    BY <1>1, SameWrites DEF Synthesis!MethodCode
  <2> HIDE DEF code, same
  <2> QED
    BY <2>1, <2>2, <2>3
<1> QED
  BY <1>1, <1>8, SameWrites
  DEF Synth!ClassCode, Synth!ClassHeader, Synthesis!ClassCode, Synthesis!ClassHeader

\* What the one promises of the output the other does.
LEMMA SameOutput ==
  ASSUME Synthesis!OutputIsTheCode
  PROVE  Synth!OutputIsTheCode
<1>1. \A i, name : Synth!Owns(i, name) = Synthesis!Owns(i, name)
  BY DEF Synth!Owns, Synth!EnvDefn, Synth!Max,
         Synthesis!Owns, Synthesis!EnvDefn, Synthesis!Max
<1> QED
  BY <1>1, SameCode DEF Synth!OutputIsTheCode, Synthesis!OutputIsTheCode

-----------------------------------------------------------------------------
(* The invariant.                                                          *)

\* The stages in which an error may be registered.
Reporting == {"parser", "analyzer", "synthesizer"}

\* The analyzer has not started and nothing was reported.
Unstarted ==
  /\ module \in Module /\ opts \in Options
  /\ pc = "module" /\ g = 1 /\ d = 1 /\ p = 1
  /\ ok = TRUE /\ symbolSet = {} /\ targetTbl = EmptyTable /\ failed = {}
  /\ errors = 0 /\ warnings = 0

\* The handler is there in the stages that need it and in no other.
HandlerInv ==
  /\ stage \in {"commandLine", "returned"} \cup Reporting
  /\ stage \in Reporting => handler
  /\ stage = "returned" /\ exit # "abort" => ~handler

\* The synthesizer has not started.
SynthesisUnstarted ==
  /\ comments \in BOOLEAN
  /\ synthPc = "errorCodes" /\ synthG = 1 /\ synthD = 1 /\ synthP = 1 /\ open = <<>>
  /\ numPremisesProcessed = 0 /\ nameId = 0
  /\ headerFileOfs = "closed" /\ cppFileOfs = "closed"
  /\ files = [path \in Synth!Paths |-> <<Synth!Line("stale", 0, 0)>>]
  /\ damaged = {}

\* Once it has, its own invariants hold until run() returns, and after that if
\* it was successful.
SynthesisInv ==
  /\ stage \in {"commandLine", "parser", "analyzer"} => SynthesisUnstarted
  /\ stage = "synthesizer" \/ exit = "success" => Synthesis!IInv /\ Synthesis!OutputInv

\* Nothing is written before the synthesizer's turn, which comes after the
\* analyzer has accepted.
TouchedInv ==
  /\ stage \in {"commandLine", "parser", "analyzer"} => Touched = {}
  /\ Touched # {} => pc = "accepted"

\* The analyzer's own invariant holds while it is at work; what stays of it, when
\* the synthesizer goes on to register errors, is that the verdict was right.
AnalysisInv ==
  /\ stage \in {"commandLine", "parser"} => Unstarted
  /\ stage = "analyzer" => IInv /\ module \in Modules
  /\ pc = "accepted" => Analysis!ModuleOK(module, opts.werror)

\* How run() came to where it is: a stage is entered without an error, and left
\* for a failure only with a reason.
ExitInv ==
  /\ stage # "returned" => exit = "none"
  /\ stage = "synthesizer" => /\ pc = "accepted"
                              /\ errors = 0 \/ synthPc = "failed"
  /\ exit = "success" => pc = "accepted" /\ errors = 0 /\ synthPc = "succeeded"
  /\ exit = "failure" /\ ~silent => help \/ stderrLine \/ errors > 0

\* The inductive invariant of run().
RunInv == HandlerInv /\ TouchedInv /\ AnalysisInv /\ SynthesisInv /\ ExitInv

\* Before its first step the invariant of the analyzer holds, whatever module it
\* is given.
LEMMA UnstartedIInv ==
  ASSUME Unstarted
  PROVE  IInv
<1>1. TypeOK
  BY DEF Unstarted, TypeOK, CursorOK, Options, TargetTable, EmptyTable
<1>2. SymbolsInv /\ TableInv /\ PremisesInv
  BY OutsidePremises DEF Unstarted
<1>3. TraversedInv /\ VerdictInv /\ ErrorsInv /\ BailReportsOnce
  BY DEF Unstarted, TraversedInv, VerdictInv, ErrorsInv, BailReportsOnce, Done
<1> QED
  BY <1>1, <1>2, <1>3 DEF IInv

\* Before run() there is no module, and the files are those of the last run.
LEMMA RunInitInv == RunInit => RunInv
<1> SUFFICES ASSUME RunInit PROVE RunInv
  OBVIOUS
<1>1. Touched = {}
  BY DEF RunInit, Touched
<1>2. HandlerInv /\ TouchedInv /\ ExitInv
  BY <1>1 DEF RunInit, HandlerInv, TouchedInv, ExitInv, Reporting
<1>3. <<>> \in Module
  BY DEF Module
<1>4. AnalysisInv
  BY <1>3 DEF RunInit, AnalysisInv, Unstarted
<1>5. SynthesisInv
  BY DEF RunInit, SynthesisInv, SynthesisUnstarted
<1> QED
  BY <1>2, <1>4, <1>5 DEF RunInv

\* A step that leaves the files alone leaves what was touched alone.
LEMMA UntouchedFiles ==
  UNCHANGED <<files, damaged>> => Touched' = Touched
BY DEF Touched

\* A synthesizer leaves the tree alone and registers an error only when it fails.
LEMMA SynthStep ==
  ASSUME Synth!Next, ~Synth!Done
  PROVE  module' = module /\ (errors' = errors \/ synthPc' = "failed")
BY DEF Synth!Next, Synth!Done, Synth!SynthesizeErrorCodeFiles, Synth!PrevisitGroup, Synth!PrevisitDefn,
  Synth!BeginWhile, Synth!EndWhile, Synth!DeduceComputed, Synth!Declare, Synth!PrevisitEquality,
  Synth!PostvisitDefn, Synth!PostvisitGroup, Synth!Terminating, Synth!vars

\* The analyzer does not replace the tree it is handed.
LEMMA AnalysisKeepsTree ==
  ASSUME Next
  PROVE  UNCHANGED <<module, opts>>
BY DEF Next, PrevisitModule, PrevisitGroup, PrevisitDefn, CheckInferencePremise,
  CheckEqualityPremise, ReturnFromWhile, CheckProposition, Terminating, vars

\* An accepted module with which nothing was done yet is one the synthesizer may
\* be started on.
LEMMA SynthesisBegins ==
  ASSUME SynthesisUnstarted, module \in Modules, errors = 0,
         NEW werror, Analysis!ModuleOK(module, werror)
  PROVE  Synthesis!IInv /\ Synthesis!OutputInv
<1>1. Modules \subseteq Synthesis!Module /\ ErrorDefn \in Names
  BY ModulesAssumption, ErrorDefnAssumption, SameTrees
<1>2. Synthesis!Paths = Synth!Paths /\ Synthesis!Line("stale", 0, 0) = Synth!Line("stale", 0, 0)
  BY SameWrites DEF Synth!Paths, Synthesis!Paths
<1>3. Synthesis!Analysis!ModuleOK(module, FALSE)
  BY AcceptedIsTranslatable
<1>4. Synthesis!Init
  BY <1>2, <1>3 DEF SynthesisUnstarted, Synthesis!Init
<1> QED
  BY <1>1, <1>4, Synthesis!InitStep, Synthesis!InitOutput

\* What was proved of the synthesizer holds of its steps here.
LEMMA SynthesisGoesOn ==
  ASSUME Synthesis!IInv, Synthesis!OutputInv, Synth!Next \/ UNCHANGED Synthesis!vars
  PROVE  Synthesis!IInv' /\ Synthesis!OutputInv'
<1>1. Modules \subseteq Synthesis!Module /\ ErrorDefn \in Names
  BY ModulesAssumption, ErrorDefnAssumption, SameTrees
<1>2. [Synthesis!Next]_(Synthesis!vars)
  BY SameSteps
<1> QED
  BY <1>1, <1>2, Synthesis!IInvStep, Synthesis!OutputStep

\* The synthesizer is started on an accepted module, and from then on no step of
\* run() but its own touches what it works on.
LEMMA SynthesisStep == RunInv /\ [RunNext]_runVars => SynthesisInv'
<1> SUFFICES ASSUME RunInv, [RunNext]_runVars PROVE SynthesisInv'
  OBVIOUS
<1>0. AnalysisInv /\ SynthesisInv /\ ExitInv
  BY DEF RunInv
<1>1. CASE RunCmdlDriver \/ ParseFromFile \/ Analyze
  <2>1. /\ stage \in {"commandLine", "parser", "analyzer"}
        /\ UNCHANGED <<synthVars, comments>>
        /\ stage' # "synthesizer" /\ exit' # "success"
    BY <1>0, <1>1 DEF RunCmdlDriver, ParseFromFile, Analyze, Return, options, ExitInv
  <2>2. SynthesisUnstarted'
    BY <1>0, <2>1 DEF SynthesisInv, SynthesisUnstarted, synthVars
  <2> QED
    BY <2>1, <2>2 DEF SynthesisInv
<1>2. CASE FinishAnalysis
  <2>1. /\ stage = "analyzer" /\ Done
        /\ UNCHANGED <<module, errors, synthVars, comments>>
        /\ stage' \in {"synthesizer", "returned"} /\ exit' # "success"
        /\ stage' = "synthesizer" => pc = "accepted"
    BY <1>0, <1>2 DEF FinishAnalysis, Return, options, shown, ExitInv
  <2>2. SynthesisUnstarted /\ IInv /\ module \in Modules
    BY <1>0, <2>1 DEF SynthesisInv, AnalysisInv
  <2>3. ASSUME pc = "accepted" PROVE Synthesis!IInv /\ Synthesis!OutputInv
    BY <1>0, <2>2, <2>3, SynthesisBegins DEF AnalysisInv, IInv, ErrorsInv
  <2>4. UNCHANGED Synthesis!vars
    BY <2>1 DEF synthVars, Synthesis!vars, Synthesis!cursor, Synthesis!context,
                Synthesis!output
  <2> QED
    BY <2>1, <2>3, <2>4, SynthesisGoesOn DEF SynthesisInv
<1>3. CASE Synthesize
  <2>1. stage = "synthesizer" /\ stage' = stage /\ Synth!Next
    BY <1>3 DEF Synthesize
  <2> QED
    BY <1>0, <2>1, SynthesisGoesOn DEF SynthesisInv
<1>4. CASE FinishSynthesis \/ Returned \/ UNCHANGED runVars
  <2>1. /\ UNCHANGED <<module, errors, synthVars, comments>>
        /\ \/ stage = "synthesizer" /\ stage' = "returned"
           \/ UNCHANGED <<stage, exit>>
    BY <1>4, Zenon
    DEF FinishSynthesis, Return, Returned, runVars, options, shown, Synth!Done
  <2>2. UNCHANGED Synthesis!vars
    BY <2>1 DEF synthVars, Synthesis!vars, Synthesis!cursor, Synthesis!context,
                Synthesis!output
  <2>3. SynthesisUnstarted => SynthesisUnstarted'
    BY <2>1 DEF SynthesisUnstarted, synthVars
  <2> QED
    BY <1>0, <2>1, <2>2, <2>3, SynthesisGoesOn DEF SynthesisInv
<1> QED
  BY <1>1, <1>2, <1>3, <1>4 DEF RunNext

\* Every step of run() keeps the invariant; those of the analyzer keep its own.
LEMMA RunStep == RunInv /\ [RunNext]_runVars => RunInv'
<1> SUFFICES ASSUME RunInv, [RunNext]_runVars PROVE RunInv'
  OBVIOUS
<1>0. HandlerInv /\ TouchedInv /\ AnalysisInv /\ ExitInv /\ SynthesisInv'
  BY SynthesisStep DEF RunInv
<1>1. CASE RunCmdlDriver
  <2>1. /\ Touched' = Touched /\ stage = "commandLine"
        /\ UNCHANGED <<stderrLine, errors, warnings, module, silent, opts>>
        /\ UNCHANGED <<pc, g, d, p, ok, symbolSet, targetTbl, failed>>
    BY <1>1, UntouchedFiles
    DEF RunCmdlDriver, synthVars, semaVars, cursor, context, options
  <2>2. Unstarted'
    BY <1>0, <2>1 DEF AnalysisInv, Unstarted
  <2>3. \/ stage' = "parser" /\ handler' /\ exit' = "none"
        \/ stage' = "returned" /\ ~handler' /\ exit' = "failure" /\ help'
    BY <1>0, <1>1, <2>1 DEF RunCmdlDriver, Return, ExitInv
  <2>4. HandlerInv' /\ ExitInv'
    BY <2>3 DEF HandlerInv, ExitInv, Reporting
  <2>5. TouchedInv'
    BY <1>0, <2>1 DEF TouchedInv
  <2>6. AnalysisInv'
    BY <2>2, <2>3 DEF AnalysisInv, Unstarted
  <2> QED
    BY <1>0, <2>4, <2>5, <2>6 DEF RunInv
<1>2. CASE ParseFromFile
  <2>1. /\ Touched' = Touched /\ stage = "parser"
        /\ UNCHANGED <<stderrLine, help, warnings, silent, opts>>
        /\ UNCHANGED <<pc, g, d, p, ok, symbolSet, targetTbl, failed>>
    BY <1>2, UntouchedFiles
    DEF ParseFromFile, synthVars, semaVars, cursor, context, options
  <2>2. Unstarted /\ Touched = {} /\ handler /\ exit = "none"
    BY <1>0, <2>1 DEF AnalysisInv, TouchedInv, HandlerInv, ExitInv, Reporting
  <2>3. CASE stage' = "analyzer"
    <3>1. PICK res \in {-1, 0, 1} :
            /\ module' \in CASE res = 0  -> Modules
                              [] res = 1  -> Modules \cup {module}
                              [] res = -1 -> {module}
            /\ errors' = IF res = 0 THEN errors ELSE errors + 1
            /\ IF Accepts(res) THEN stage' = "analyzer" /\ UNCHANGED <<exit, handler>>
                               ELSE Return("failure")
      BY <1>2 DEF ParseFromFile
    <3>2. res = 0 /\ UNCHANGED <<exit, handler>>
      BY <2>3, <3>1 DEF Return, Accepts
    <3>3. module' \in Module /\ module' \in Modules /\ errors' = 0
      BY <2>2, <3>1, <3>2, ModulesAssumption DEF Unstarted
    <3>4. Unstarted'
      BY <2>1, <2>2, <3>3 DEF Unstarted
    <3>5. (Unstarted => IInv)'
      BY UnstartedIInv, PTL
    <3>6. AnalysisInv'
      BY <2>3, <3>3, <3>4, <3>5 DEF AnalysisInv, Unstarted
    <3> QED
      BY <1>0, <2>1, <2>2, <2>3, <3>2, <3>6 DEF RunInv, HandlerInv, TouchedInv, ExitInv, Reporting
  <2>4. CASE stage' # "analyzer"
    <3>1. /\ stage' = "returned" /\ exit' = "failure" /\ ~handler'
          /\ errors' = errors + 1
      BY <1>2, <2>4 DEF ParseFromFile, Return, Accepts
    <3>2. errors' > 0
      BY <2>2, <3>1 DEF Unstarted
    <3> QED
      BY <1>0, <2>1, <2>2, <3>1, <3>2
      DEF RunInv, HandlerInv, TouchedInv, AnalysisInv, ExitInv, Unstarted, Reporting
  <2> QED
    BY <2>3, <2>4
<1>3. CASE Analyze
  <2>1. /\ Touched' = Touched /\ stage = "analyzer" /\ stage' = stage
        /\ UNCHANGED <<exit, handler, help, stderrLine, silent>>
        /\ Next
    BY <1>3, UntouchedFiles DEF Analyze, synthVars, options
  <2>2. IInv /\ module' \in Modules /\ Touched = {} /\ exit = "none"
    BY <1>0, <2>1, AnalysisKeepsTree DEF AnalysisInv, TouchedInv, ExitInv
  <2>3. IInv'
    BY <2>1, <2>2, StepKeepsIInv
  <2>4. (pc = "accepted" => Analysis!ModuleOK(module, opts.werror))'
    BY <2>3 DEF IInv, VerdictInv, Done
  <2> QED
    BY <1>0, <2>1, <2>2, <2>3, <2>4
    DEF RunInv, HandlerInv, TouchedInv, AnalysisInv, ExitInv
<1>4. CASE FinishAnalysis
  <2>1. /\ Touched' = Touched /\ stage = "analyzer" /\ Done
        /\ UNCHANGED <<help, stderrLine, errors, silent, opts, module, pc>>
    BY <1>4, UntouchedFiles
    DEF FinishAnalysis, synthVars, semaVars, cursor, context, options, shown
  <2>2. IInv /\ handler /\ exit = "none" /\ Touched = {}
    BY <1>0, <2>1 DEF AnalysisInv, TouchedInv, HandlerInv, ExitInv, Reporting
  <2>3. \/ /\ pc = "accepted" /\ errors = 0
           /\ stage' = "synthesizer" /\ UNCHANGED <<exit, handler>>
        \/ /\ pc = "rejected" /\ errors > 0
           /\ stage' = "returned" /\ exit' = "failure" /\ ~handler'
    BY <1>4, <2>1, <2>2 DEF FinishAnalysis, Return, IInv, ErrorsInv, Done
  <2>4. AnalysisInv'
    BY <1>0, <2>1, <2>3 DEF AnalysisInv
  <2> QED
    BY <1>0, <2>1, <2>2, <2>3, <2>4 DEF RunInv, HandlerInv, TouchedInv, ExitInv, Reporting
<1>5. CASE Synthesize
  <2>1. /\ stage = "synthesizer" /\ stage' = stage
        /\ UNCHANGED <<exit, handler, help, stderrLine, silent, opts, pc>>
    BY <1>5 DEF Synthesize, semaVars, cursor, options
  <2>2. module' = module /\ (errors' = errors \/ synthPc' = "failed")
    BY <1>5, SynthStep DEF Synthesize
  <2>3. pc = "accepted" /\ errors = 0 /\ exit = "none"
    BY <1>0, <1>5, <2>1 DEF ExitInv, Synthesize, Synth!Done
  <2> QED
    BY <1>0, <2>1, <2>2, <2>3
    DEF RunInv, HandlerInv, TouchedInv, AnalysisInv, ExitInv
<1>6. CASE FinishSynthesis
  <2>1. /\ Touched' = Touched /\ stage = "synthesizer" /\ stage' = "returned"
        /\ UNCHANGED <<help, errors, silent, opts, module, pc>>
    BY <1>6, UntouchedFiles
    DEF FinishSynthesis, Synth!Done, Return, synthVars, semaVars, cursor, options
  <2>2. pc = "accepted" /\ (errors = 0 \/ synthPc = "failed")
    BY <1>0, <2>1 DEF ExitInv
  <2>3. \/ exit' = "success" /\ ~handler' /\ errors = 0 /\ synthPc' = "succeeded"
        \/ exit' = "failure" /\ ~handler' /\ stderrLine' = ~silent
        \/ exit' = "abort"
    BY <1>6, <2>2 DEF FinishSynthesis, Synth!Done, Return, OutputMessage, synthVars
  <2> QED
    BY <1>0, <2>1, <2>2, <2>3
    DEF RunInv, HandlerInv, TouchedInv, AnalysisInv, ExitInv, Reporting
<1>7. CASE Returned \/ UNCHANGED runVars
  <2>1. /\ Touched' = Touched
        /\ UNCHANGED runVars
    BY <1>7, UntouchedFiles DEF Returned, runVars, synthVars
  <2>2. UNCHANGED vars /\ UNCHANGED <<stage, exit, handler, help, stderrLine, silent, synthPc>>
    BY <2>1 DEF runVars, vars, synthVars, semaVars, shown, options
  <2>3. IInv => IInv'
    BY <2>2, StepKeepsIInv
  <2>4. Unstarted => Unstarted'
    BY <2>2 DEF vars, cursor, context, Unstarted
  <2>5. UNCHANGED <<pc, module, opts, errors>>
    BY <2>2 DEF vars, cursor
  <2> QED
    BY <1>0, <2>1, <2>2, <2>3, <2>4, <2>5
    DEF RunInv, HandlerInv, TouchedInv, AnalysisInv, ExitInv
<1> QED
  BY <1>1, <1>2, <1>3, <1>4, <1>5, <1>6, <1>7 DEF RunNext

\* The invariant of run(), for every set of modules and every outcome of each stage.
THEOREM RunInvariant == RunSpec => []RunInv
BY RunInitInv, RunStep, PTL DEF RunSpec

-----------------------------------------------------------------------------
(* What follows from it.                                                   *)

\* The handler of run() is registered whenever an error can be, and on no
\* return from run() does it stay behind.
THEOREM HandlerScope == RunSpec => []HandlerIsScoped
<1>1. RunInv => HandlerIsScoped
  BY DEF RunInv, HandlerInv, HandlerIsScoped, Reporting
<1> QED
  BY RunInvariant, <1>1, PTL

\* No file of the output is written to unless the analyzer has accepted, and then
\* the module is one that deserves it.
THEOREM RefusalTouchesNothing == RunSpec => []RefusedInputTouchesNothing
<1>1. RunInv => RefusedInputTouchesNothing
  BY DEF RunInv, TouchedInv, AnalysisInv, RefusedInputTouchesNothing
<1> QED
  BY RunInvariant, <1>1, PTL

\* run() does not fail without a word: a refusal by the parser or the analyzer left
\* an error, and where synthesis fails the line about the path is printed.
THEOREM FailuresAreExplained == RunSpec => []FailureIsExplained
<1>1. RunInv => FailureIsExplained
  BY DEF RunInv, ExitInv, FailureIsExplained
<1> QED
  BY RunInvariant, <1>1, PTL

\* Exit status 0 means that no stage registered an error, that the module deserves
\* to be accepted, and that every file which misses nothing holds its code.
THEOREM SuccessEarned == RunSpec => []SuccessIsEarned
<1>1. RunInv => SuccessIsEarned
  <2> SUFFICES ASSUME RunInv, exit = "success"
               PROVE  /\ errors = 0
                      /\ Analysis!ModuleOK(module, opts.werror)
                      /\ Synth!OutputIsTheCode
    BY DEF SuccessIsEarned
  <2>1. errors = 0 /\ Analysis!ModuleOK(module, opts.werror)
    BY DEF RunInv, ExitInv, AnalysisInv
  <2>2. Synthesis!IInv /\ Synthesis!OutputInv
    BY DEF RunInv, SynthesisInv
  <2>3. Modules \subseteq Synthesis!Module /\ ErrorDefn \in Names
    BY ModulesAssumption, ErrorDefnAssumption, SameTrees
  <2>4. Synth!OutputIsTheCode
    BY <2>2, <2>3, Synthesis!OutputAtTheEnd, SameOutput
  <2> QED
    BY <2>1, <2>4
<1> QED
  BY RunInvariant, <1>1, PTL

\* Exit status 0 comes after the synthesizer has gone through the whole tree, so
\* that the last part of SuccessIsEarned is not void.
THEOREM SuccessIsComplete ==
  RunSpec => [](exit = "success" => synthPc = "succeeded")
<1>1. RunInv => (exit = "success" => synthPc = "succeeded")
  BY DEF RunInv, ExitInv
<1> QED
  BY RunInvariant, <1>1, PTL

=============================================================================
