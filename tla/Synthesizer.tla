----------------------------- MODULE Synthesizer -----------------------------
(***************************************************************************)
(* Code synthesis (src/Synthesizer.cpp), driven by the traversal of        *)
(* src/ASTVisitor.cpp: one action per visitor callback.  The recursion over*)
(* while-clauses is the stack "open" of the premises whose body is being   *)
(* written.                                                                *)
(*                                                                         *)
(* The file system is nondeterministic: a file may not open, a write may   *)
(* fail and leave its stream bad, the last buffer may be lost at close.    *)
(***************************************************************************)
EXTENDS SynthesizedCode

CONSTANTS
  Modules,     \* the modules semantic analysis may have accepted
  ErrorDefn    \* the base name of the files with the error codes

ASSUME ModulesAssumption   == Modules \subseteq Module
ASSUME ErrorDefnAssumption == ErrorDefn \in Names

VARIABLES
  module,                \* the tree that is translated
  comments,              \* ~suppressAnnotationComments
  pc,                    \* the callback about to run, or how run() ended
  g, d, p,               \* the group, definition and premise the visitor is at
  open,                  \* while-premises in progress, innermost last
  numPremisesProcessed,  \* InferenceDefinitionSynthesisContext
  nameId,                \* InferenceGroupSynthesisContext::nameId
  headerFileOfs,         \* state of the stream of the .h file of the group
  cppFileOfs,            \* state of the stream of the .cpp file
  files,                 \* content of the output files
  damaged,               \* files that miss something that was written to them
  errors                 \* errors registered

cursor  == <<g, d, p, open>>
context == <<numPremisesProcessed, nameId>>
output  == <<headerFileOfs, cppFileOfs, files, damaged>>
vars    == <<module, comments, pc, cursor, context, output, errors>>

Group    == module[g]
Defn     == Group.defns[d]
Premises == Defn.premises

\* A field given twice has its last value; analysis made sure of ClassName.
EnvDefn(env, field) ==
  env[Max({i \in DOMAIN env : env[i].field = field})].value

HasField(field) == field \in ElementsOf(FieldsOf(Group.env))

Paths == Names \X {".h", ".cpp"}
HeaderPath(group) == <<EnvDefn(group.env, "ClassName"), ".h">>
CppPath(group)    == <<EnvDefn(group.env, "ClassName"), ".cpp">>

Analysis == INSTANCE SemanticAnalysis
              WITH opts <- [bail |-> FALSE, werror |-> FALSE], verdict <- "accepted"

\* Every path may hold what an earlier compilation left there.
Init ==
  /\ module \in {m \in Modules : Analysis!ModuleOK(m, FALSE)}
  /\ comments \in BOOLEAN
  /\ pc = "errorCodes"
  /\ g = 1 /\ d = 1 /\ p = 1 /\ open = <<>>
  /\ numPremisesProcessed = 0 /\ nameId = 0
  /\ headerFileOfs = "closed" /\ cppFileOfs = "closed"
  /\ files = [path \in Paths |-> <<Line("stale", 0, 0)>>]
  /\ damaged = {}
  /\ errors = 0

-----------------------------------------------------------------------------
(* Output.                                                                 *)

\* open() truncates; it fails on a stream that is still open.
Opened(s) == IF s = "closed" THEN {"good", "bad"} ELSE {"bad"}

\* Once bad a stream swallows what is written to it.
Written(s) == IF s = "good" THEN {"good", "bad"} ELSE {s}

Appended(fs, s, path, lines) ==
  IF s = "good" THEN [fs EXCEPT ![path] = @ \o lines] ELSE fs

DamagedIf(s, path) == IF s = "bad" THEN {path} ELSE {}

WriteCpp(lines) ==
  LET path == CppPath(Group)
  IN  /\ cppFileOfs' \in Written(cppFileOfs)
      /\ files' = Appended(files, cppFileOfs', path, lines)
      /\ damaged' = damaged \cup DamagedIf(cppFileOfs', path)
      /\ UNCHANGED headerFileOfs

WriteBoth(headerLines, cppLines) ==
  LET header == HeaderPath(Group)  cpp == CppPath(Group)
  IN  /\ headerFileOfs' \in Written(headerFileOfs)
      /\ cppFileOfs' \in Written(cppFileOfs)
      /\ files' = Appended(Appended(files, headerFileOfs', header, headerLines),
                           cppFileOfs', cpp, cppLines)
      /\ damaged' = damaged \cup DamagedIf(headerFileOfs', header)
                            \cup DamagedIf(cppFileOfs', cpp)

\* Fault: the streams of a class are left to the next one.
Closed_Never(s) == s

\* Streams are only closed when good; what close() cannot flush goes unnoticed.
Closed(s) == IF s = "good" THEN "closed" ELSE s

-----------------------------------------------------------------------------
(* The traversal.                                                          *)

VisitGroups(n) ==
  /\ pc' = IF n \in DOMAIN module THEN "group" ELSE "succeeded"
  /\ g' = n

VisitDefns(n) ==
  /\ pc' = IF n \in DOMAIN Group.defns THEN "defn" ELSE "endGroup"
  /\ d' = n

\* Both files are opened before either is written, and closed unchecked.  No
\* error is registered when one does not open.
SynthesizeErrorCodeFiles ==
  LET header == <<ErrorDefn, ".h">>  cpp == <<ErrorDefn, ".cpp">>
      code   == <<Line("errorCodes", 0, 0)>>
  IN  /\ pc = "errorCodes"
      /\ \/ /\ pc' = "failed" /\ g' = g
            /\ files' \in {files, [files EXCEPT ![header] = <<>>]}
            /\ UNCHANGED damaged
         \/ /\ VisitGroups(1)
            /\ files' = [files EXCEPT ![header] = code, ![cpp] = code]
            /\ damaged' \in SUBSET {header, cpp}
      /\ UNCHANGED <<module, comments, d, p, open, context,
                     headerFileOfs, cppFileOfs, errors>>

\* Fault: the files are opened for appending.
Truncated_Append(fs, path) == fs

Truncated(fs, path) == [fs EXCEPT ![path] = <<>>]

PrevisitGroup ==
  LET header == HeaderPath(Group)  cpp == CppPath(Group)
      lines  == <<Line("preamble", g, 0)>>
  IN  /\ pc = "group"
      /\ \/ /\ "bad" \in Opened(headerFileOfs)
            /\ pc' = "failed" /\ errors' = errors + 1 /\ d' = d
            /\ headerFileOfs' = "bad"
            /\ UNCHANGED <<cppFileOfs, files, damaged>>
         \/ /\ "good" \in Opened(headerFileOfs) /\ "bad" \in Opened(cppFileOfs)
            /\ pc' = "failed" /\ errors' = errors + 1 /\ d' = d
            /\ headerFileOfs' = "good" /\ cppFileOfs' = "bad"
            /\ files' = Truncated(files, header)
            /\ damaged' = damaged \ {header}
         \/ /\ "good" \in Opened(headerFileOfs) /\ "good" \in Opened(cppFileOfs)
            /\ VisitDefns(1) /\ errors' = errors
            /\ headerFileOfs' \in Written("good") /\ cppFileOfs' \in Written("good")
            /\ files' = Appended(Appended(Truncated(Truncated(files, header), cpp),
                                          headerFileOfs', header, lines),
                                 cppFileOfs', cpp, lines)
            /\ damaged' = (damaged \ {header, cpp})
                            \cup DamagedIf(headerFileOfs', header)
                            \cup DamagedIf(cppFileOfs', cpp)
      /\ UNCHANGED <<module, comments, g, p, open, context>>

PrevisitDefn ==
  /\ pc = "defn"
  /\ WriteBoth(<<Line("declaration", d, 0)>>, <<Line("beginMethod", d, 0)>>)
  /\ pc' = "premise"
  /\ p' = 1
  /\ UNCHANGED <<module, comments, g, d, open, context, errors>>

-----------------------------------------------------------------------------
(* Premises.                                                               *)

\* Fault: a clause ends one premise late.
BodyDone_Late == open # <<>> /\ p > Premises[Last(open)].last + 1

\* The body of the innermost while-clause has been written.
BodyDone == open # <<>> /\ p > Premises[Last(open)].last

\* Fault: off by one at the last premise.
NextPremise_ButLast(kind) ==
  pc = "premise" /\ ~BodyDone /\ p + 1 \in DOMAIN Premises /\ Premises[p].kind = kind

NextPremise(kind) ==
  /\ pc = "premise"
  /\ ~BodyDone
  /\ p \in DOMAIN Premises
  /\ Premises[p].kind = kind

PremiseAnnotationComment ==
  IF comments THEN <<Line("comment", p, numPremisesProcessed + 1)>> ELSE <<>>

PostvisitPremise == numPremisesProcessed' = numPremisesProcessed + 1

\* An optional field that is not there makes at() throw, and nothing catches.
Throw == pc' = "terminated" /\ UNCHANGED <<cursor, context>>

BeginWhile ==
  /\ NextPremise("inference") /\ Premises[p].while
  /\ IF HasField("TypeAnnotationSetupMethod")
     THEN /\ WriteCpp(PremiseAnnotationComment \o <<Line("setup", p, 0)>>)
          /\ open' = Append(open, p)
          /\ p' = p + 1
          /\ UNCHANGED <<pc, g, d, context>>
     ELSE WriteCpp(PremiseAnnotationComment) /\ Throw
  /\ UNCHANGED <<module, comments, errors>>

EndWhile ==
  /\ pc = "premise" /\ BodyDone
  /\ IF HasField("TypeAnnotationTeardownMethod")
     THEN /\ WriteCpp(<<Line("teardown", Last(open), 0)>>)
          /\ open' = Front(open)
          /\ PostvisitPremise
          /\ UNCHANGED <<pc, g, d, p, nameId>>
     ELSE Throw /\ UNCHANGED output
  /\ UNCHANGED <<module, comments, errors>>

\* Fault: the second temporary gets the number of the first.
TakeNames_Once == nameId + 1

\* Two names are taken: nameId and the one after it.
TakeNames == nameId + 2

DeduceComputed ==
  /\ NextPremise("inference") /\ DeducesComputed(Premises[p])
  /\ WriteCpp(PremiseAnnotationComment
                \o <<Line("temp", p, nameId), Line("temp", p, TakeNames - 1),
                     Line("checkTemps", p, nameId)>>)
  /\ nameId' = TakeNames
  /\ PostvisitPremise
  /\ p' = p + 1
  /\ UNCHANGED <<module, comments, pc, g, d, open, errors>>

Declare ==
  /\ NextPremise("inference")
  /\ ~Premises[p].while /\ ~DeducesComputed(Premises[p])
  /\ WriteCpp(PremiseAnnotationComment \o <<Line("declare", p, 0)>>)
  /\ PostvisitPremise
  /\ p' = p + 1
  /\ UNCHANGED <<module, comments, pc, g, d, open, nameId, errors>>

\* Equality premises get no comment and are not counted.
PrevisitEquality ==
  /\ NextPremise("equality")
  /\ WriteCpp(<<Line(IF Premises[p].range = NoRange THEN "check" ELSE "checkEach",
                     p, 0)>>)
  /\ p' = p + 1
  /\ UNCHANGED <<module, comments, pc, g, d, open, context, errors>>

\* The proposition, and the end of the method it belongs to.
PostvisitDefn ==
  /\ pc = "premise" /\ ~BodyDone /\ p \notin DOMAIN Premises
  /\ WriteCpp(<<Line("return", d, 0), Line("endMethod", d, 0)>>)
  /\ numPremisesProcessed' = 0
  /\ VisitDefns(d + 1)
  /\ UNCHANGED <<module, comments, g, p, open, nameId, errors>>

PostvisitGroup ==
  LET header == HeaderPath(Group)  cpp == CppPath(Group)
      lines  == <<Line("endClass", g, 0)>>
  IN  /\ pc = "endGroup"
      /\ \E written \in Written(headerFileOfs) :
           /\ headerFileOfs' = Closed(written)
           /\ cppFileOfs' = Closed(cppFileOfs)
           /\ files' = Appended(files, written, header, lines)
           /\ \E lost \in SUBSET {header, cpp} :
                damaged' = damaged \cup DamagedIf(written, header) \cup lost
      /\ VisitGroups(g + 1)
      /\ UNCHANGED <<module, comments, d, p, open, context, errors>>

-----------------------------------------------------------------------------
Done == pc \in {"succeeded", "failed", "terminated"}

Terminating == Done /\ UNCHANGED vars

Next ==
  \/ SynthesizeErrorCodeFiles
  \/ PrevisitGroup
  \/ PrevisitDefn
  \/ BeginWhile
  \/ EndWhile
  \/ DeduceComputed
  \/ Declare
  \/ PrevisitEquality
  \/ PostvisitDefn
  \/ PostvisitGroup
  \/ Terminating

Spec == Init /\ [][Next]_vars

\* run() is one call on one thread: it goes on until it returns or throws.
FairSpec == Spec /\ WF_vars(Next)

-----------------------------------------------------------------------------
(* Properties.                                                             *)

CursorOK ==
  /\ g \in Nat \ {0} /\ d \in Nat \ {0} /\ p \in Nat \ {0}
  /\ pc \in {"group", "defn", "premise", "endGroup"} => g \in DOMAIN module
  /\ pc \in {"defn", "premise"} => d \in DOMAIN Group.defns
  /\ pc = "premise" => p <= Len(Premises) + 1

\* Every variable has its type, and the cursor never leaves the tree.
TypeOK ==
  /\ module \in Module
  /\ comments \in BOOLEAN
  /\ pc \in {"errorCodes", "group", "defn", "premise", "endGroup",
             "succeeded", "failed", "terminated"}
  /\ CursorOK
  /\ open \in Seq(Nat)
  /\ numPremisesProcessed \in Nat /\ nameId \in Nat
  /\ {headerFileOfs, cppFileOfs} \subseteq {"closed", "good", "bad"}
  /\ files \in [Paths -> Seq(Lines)]
  /\ damaged \subseteq Paths
  /\ errors \in Nat

\* The stack holds exactly the while-premises whose clause is not over, the
\* outer ones first, and their premises are those the cursor has reached.
OpenInv ==
  pc = "premise" =>
    /\ \A x \in DOMAIN open :
         /\ open[x] \in 1 .. p - 1
         /\ OpensWhile(Premises[open[x]])
         /\ Premises[open[x]].last >= p - 1
    /\ \A x, y \in DOMAIN open : x < y => open[x] < open[y]
    /\ \A k \in 1 .. p - 1 :
         OpensWhile(Premises[k]) /\ Premises[k].last >= p => k \in ElementsOf(open)

\* Both streams are open while a class is written, and no stream is left good
\* between two classes: open() is never called on one.
StreamsInv ==
  /\ pc \in {"defn", "premise", "endGroup"} =>
       "closed" \notin {headerFileOfs, cppFileOfs}
  /\ pc \in {"errorCodes", "group", "succeeded"} =>
       "good" \notin {headerFileOfs, cppFileOfs}

\* A method ends, and a class and the whole run do, with every fixture that
\* was set up torn down again.
NothingLeftOpen ==
  pc \in {"errorCodes", "group", "defn", "endGroup", "succeeded"} => open = <<>>

\* The names the synthesizer makes up are never used twice, in a method or
\* across the methods and classes that end up in one file.
TempsAreFresh ==
  \A path \in Paths : \A b \in DOMAIN files[path] :
    files[path][b].op = "temp" =>
      /\ files[path][b].n < nameId
      /\ \A a \in 1 .. b - 1 :
           files[path][a].op = "temp" => files[path][a].n < files[path][b].n

\* The inductive invariant: what analysis made sure of (that each class has a
\* name), and each of the above.
IInv ==
  /\ Analysis!ModuleOK(module, FALSE)
  /\ TypeOK
  /\ OpenInv
  /\ StreamsInv
  /\ NothingLeftOpen
  /\ TempsAreFresh

\* The group whose class a file holds at the end: the last of that name.
Owns(i, name) ==
  /\ EnvDefn(module[i].env, "ClassName") = name
  /\ \A j \in i + 1 .. Len(module) : EnvDefn(module[j].env, "ClassName") # name

\* A successful run leaves in every file it did not lose part of exactly the
\* code the module stands for: each premise in its place, fixtures nested like
\* the while-clauses, numbers as if counted over the whole tree, nothing of an
\* earlier class or compilation.
OutputIsTheCode ==
  pc = "succeeded" =>
    \A i \in DOMAIN module, name \in Names :
      Owns(i, name) =>
        /\ <<name, ".h">> \in damaged \/ files[<<name, ".h">>] = ClassHeader(module, i)
        /\ <<name, ".cpp">> \in damaged
             \/ files[<<name, ".cpp">>] = ClassCode(module, i, comments)

\* The traversal ends whatever the file system does.
SynthesisEnds == <>Done

-----------------------------------------------------------------------------
(* What documentation and comments say, and the code does not do.          *)

\* The two fields for the fixtures of while-clauses are optional attributes.
WhileFieldsAreOptional == pc # "terminated"

\* Each inference group translates into a class.
EveryGroupHasItsClass ==
  pc = "succeeded" /\ damaged = {} =>
    \A i \in DOMAIN module :
      files[CppPath(module[i])] = ClassCode(module, i, comments)

\* Deduced targets become variable declarations: a method declares each once.
DeclaredOnce ==
  pc = "premise" => LET f == files[CppPath(Group)] IN
    \A a, b \in DOMAIN f :
      /\ a < b /\ f[a].op = "declare" /\ f[b].op = "declare"
      /\ \A c \in a .. Len(f) : f[c].op # "beginMethod"
      => Premises[f[a].at].target.name # Premises[f[b].at].target.name

\* When the compiler reports success the output has been written.
SuccessMeansWritten == pc = "succeeded" => damaged = {}

=============================================================================
