-------------------------- MODULE SynthesizerProofs --------------------------
(***************************************************************************)
(* Proofs about Synthesizer, for every module analysis may accept and for  *)
(* every failure of the output files: its types, that every fixture set up *)
(* for a while-clause is torn down before its method ends, that no made-up *)
(* name is used twice; and that it writes the code of SynthesizedCode: in  *)
(* every state each file that misses nothing holds the part of its closed  *)
(* form up to the cursor, and the counters of the visitor are the numbers  *)
(* the closed form counts.                                                 *)
(***************************************************************************)
EXTENDS Synthesizer, BasicLemmas, FiniteSetTheorems

-----------------------------------------------------------------------------
(* The tree at the cursor.                                                 *)

\* An environment that gives the field has a value for it.
LEMMA EnvDefnType ==
  ASSUME NEW env \in Seq(EnvironmentDefn), NEW field,
         field \in ElementsOf(FieldsOf(env))
  PROVE  EnvDefn(env, field) \in Names
<1> DEFINE S == {i \in DOMAIN env : env[i].field = field}
<1>1. S \in SUBSET (1 .. Len(env)) /\ Len(env) \in Nat
  OBVIOUS
<1>2. S # {}
  BY DEF ElementsOf, FieldsOf
<1>3. Max(S) \in S
  <2> HIDE DEF S
  <2> QED
    BY <1>1, <1>2, MaxIsMember
<1>4. env[Max(S)] \in EnvironmentDefn
  BY <1>3
<1> QED
  BY <1>4 DEF EnvDefn, EnvironmentDefn

\* The files of an accepted group are among the output files.
LEMMA GroupFiles ==
  ASSUME NEW m \in Module, Analysis!ModuleOK(m, FALSE), NEW i \in DOMAIN m
  PROVE  /\ m[i] \in InferenceGroup
         /\ m[i].defns \in Seq(InferenceDefn)
         /\ HeaderPath(m[i]) \in Paths
         /\ CppPath(m[i]) \in Paths
<1>1. m[i] \in InferenceGroup
  BY DEF Module
<1>2. m[i].env \in Seq(EnvironmentDefn) /\ m[i].defns \in Seq(InferenceDefn)
  BY <1>1 DEF InferenceGroup
<1>3. "ClassName" \in ElementsOf(FieldsOf(m[i].env))
  BY DEF Analysis!ModuleOK, Analysis!GroupOK, Analysis!GroupHeaderOK,
         Analysis!MandatoryFields, Analysis!ElementsOf, Analysis!FieldsOf,
         ElementsOf, FieldsOf
<1>4. EnvDefn(m[i].env, "ClassName") \in Names
  BY <1>2, <1>3, EnvDefnType
<1> QED
  BY <1>1, <1>2, <1>4 DEF HeaderPath, CppPath, Paths

\* The premises of a definition are well nested.
LEMMA DefnPremises ==
  ASSUME NEW defns \in Seq(InferenceDefn), NEW i \in DOMAIN defns
  PROVE  /\ defns[i].premises \in Seq(Premise)
         /\ WellNested(defns[i].premises)
<1>1. defns[i] \in InferenceDefn
  OBVIOUS
<1> QED
  BY <1>1 DEF InferenceDefn, PremiseDefnList

\* At a group the cursor points to one, and its files are output files.
LEMMA AtGroup ==
  ASSUME IInv, pc \in {"group", "defn", "premise", "endGroup"}
  PROVE  /\ g \in DOMAIN module
         /\ Group \in InferenceGroup
         /\ Group.defns \in Seq(InferenceDefn)
         /\ HeaderPath(Group) \in Paths
         /\ CppPath(Group) \in Paths
<1>1. g \in DOMAIN module /\ module \in Module
  BY DEF IInv, TypeOK, CursorOK
<1> QED
  BY <1>1, GroupFiles DEF IInv, Group

\* At a premise, or at the end of a list of them, the list is well nested.
LEMMA AtPremise ==
  ASSUME IInv, pc = "premise"
  PROVE  /\ Premises \in Seq(Premise)
         /\ WellNested(Premises)
         /\ p \in 1 .. Len(Premises) + 1
<1>1. Group.defns \in Seq(InferenceDefn)
  BY AtGroup
<1>2. d \in DOMAIN Group.defns /\ p \in Nat \ {0} /\ p <= Len(Premises) + 1
  BY DEF IInv, TypeOK, CursorOK
<1>3. Premises \in Seq(Premise) /\ WellNested(Premises)
  BY <1>1, <1>2, DefnPremises DEF Premises, Defn
<1> QED
  BY <1>2, <1>3

-----------------------------------------------------------------------------
(* Lines and files.                                                        *)

\* A line has a type if what it refers to has.
LEMMA LineType ==
  ASSUME NEW op \in FileOps \cup PremiseOps, NEW at \in Nat, NEW n \in Nat
  PROVE  Line(op, at, n) \in Lines
BY DEF Line, Lines

\* The lines that make up no name.
Plain == {l \in Lines : l.op # "temp"}

\* A single line other than the definition of a temporary.
LEMMA PlainLine ==
  ASSUME NEW op \in (FileOps \cup PremiseOps) \ {"temp"}, NEW at \in Nat
  PROVE  <<Line(op, at, 0)>> \in Seq(Plain)
<1>1. Line(op, at, 0) \in Lines /\ Line(op, at, 0).op = op
  BY LineType DEF Line
<1> QED
  BY <1>1 DEF Plain

\* What TempsAreFresh says of one file, for names below n.
FreshIn(f, n) ==
  \A b \in DOMAIN f :
    f[b].op = "temp" =>
      /\ f[b].n < n
      /\ \A a \in 1 .. b - 1 : f[a].op = "temp" => f[a].n < f[b].n

\* The names that lines ls make up are increasing and between m and n.
NewNames(ls, m, n) ==
  \A b \in DOMAIN ls :
    ls[b].op = "temp" =>
      /\ m <= ls[b].n /\ ls[b].n < n
      /\ \A a \in 1 .. b - 1 : ls[a].op = "temp" => ls[a].n < ls[b].n

\* A file stays fresh when lines with new names are written to it.
LEMMA FreshExtends ==
  ASSUME NEW f \in Seq(Lines), NEW ls \in Seq(Lines),
         NEW m \in Nat, NEW n \in Nat, m <= n,
         FreshIn(f, m), NewNames(ls, m, n)
  PROVE  f \o ls \in Seq(Lines) /\ FreshIn(f \o ls, n)
<1> DEFINE h == f \o ls
<1>1. /\ h \in Seq(Lines)
      /\ Len(h) = Len(f) + Len(ls)
      /\ \A i \in 1 .. Len(f) + Len(ls) :
           h[i] = IF i <= Len(f) THEN f[i] ELSE ls[i - Len(f)]
  BY ConcatProperties
<1>2. Len(f) \in Nat /\ Len(ls) \in Nat
  OBVIOUS
<1>3. \A l \in Lines : l.n \in Nat
  BY DEF Lines
<1> HIDE DEF h
<1>4. SUFFICES ASSUME NEW b \in DOMAIN h, h[b].op = "temp"
               PROVE  /\ h[b].n < n
                      /\ \A a \in 1 .. b - 1 : h[a].op = "temp" => h[a].n < h[b].n
  BY <1>1 DEF FreshIn, h
<1>5. b \in 1 .. Len(f) + Len(ls) /\ \A i \in DOMAIN f : f[i].n \in Nat
  BY <1>1, <1>3
<1>6. CASE b <= Len(f)
  <2>1. b \in DOMAIN f /\ h[b] = f[b]
    BY <1>1, <1>2, <1>5, <1>6
  <2>2. \A a \in 1 .. b - 1 : h[a] = f[a]
    BY <1>1, <1>2, <1>5, <1>6
  <2> QED
    BY <1>4, <1>5, <2>1, <2>2 DEF FreshIn
<1>7. CASE b > Len(f)
  <2> DEFINE c == b - Len(f)
  <2>1. c \in DOMAIN ls /\ h[b] = ls[c]
    BY <1>1, <1>2, <1>5, <1>7
  <2>2. m <= ls[c].n /\ ls[c].n < n /\ ls[c].n \in Nat
    BY <1>3, <1>4, <2>1 DEF NewNames
  <2>3. ASSUME NEW a \in 1 .. b - 1, h[a].op = "temp"
        PROVE  h[a].n < h[b].n
    <3>1. CASE a <= Len(f)
      <4>1. a \in DOMAIN f /\ h[a] = f[a]
        BY <1>1, <1>2, <1>5, <2>3, <3>1
      <4>2. f[a].n < m /\ f[a].n \in Nat
        BY <1>5, <2>3, <4>1 DEF FreshIn
      <4> QED
        BY <2>1, <2>2, <4>1, <4>2
    <3>2. CASE a > Len(f)
      <4>1. a - Len(f) \in 1 .. c - 1 /\ h[a] = ls[a - Len(f)]
        BY <1>1, <1>2, <1>5, <2>3, <3>2
      <4> QED
        BY <1>4, <2>1, <2>3, <4>1 DEF NewNames
    <3> QED
      BY <1>2, <1>5, <3>1, <3>2
  <2> QED
    BY <2>1, <2>2, <2>3
<1> QED
  BY <1>2, <1>5, <1>6, <1>7

\* The annotation comment of a premise makes up no name.
LEMMA CommentIsPlain ==
  ASSUME p \in Nat, numPremisesProcessed \in Nat
  PROVE  PremiseAnnotationComment \in Seq(Plain)
<1>1. Line("comment", p, numPremisesProcessed + 1) \in Plain
  BY LineType DEF Plain, PremiseOps, Line
<1> QED
  BY <1>1 DEF PremiseAnnotationComment

\* Lines that make up no name keep every file fresh.
LEMMA PlainLines ==
  ASSUME NEW ls \in Seq(Plain), NEW m \in Nat
  PROVE  ls \in Seq(Lines) /\ NewNames(ls, m, m)
<1>1. ls \in Seq(Lines)
  BY SeqMonotonic DEF Plain
<1> QED
  BY <1>1 DEF NewNames, Plain

\* All files have their type and are fresh for names below n.
FilesFresh(fs, n) ==
  /\ fs \in [Paths -> Seq(Lines)]
  /\ \A path \in Paths : FreshIn(fs[path], n)

\* A write to one file, whether or not it succeeds, leaves all files fresh.
LEMMA AppendedFresh ==
  ASSUME NEW m \in Nat, NEW n \in Nat, m <= n,
         NEW fs, FilesFresh(fs, m), NEW s, NEW path \in Paths,
         NEW ls \in Seq(Lines), NewNames(ls, m, n)
  PROVE  FilesFresh(Appended(fs, s, path, ls), n)
<1>1. \A q \in Paths : fs[q] \in Seq(Lines) /\ FreshIn(fs[q], n)
  <2> TAKE q \in Paths
  <2>1. fs[q] \in Seq(Lines) /\ FreshIn(fs[q], m)
    BY DEF FilesFresh
  <2>2. \A l \in Lines : l.n \in Nat
    BY DEF Lines
  <2> QED
    BY <2>1, <2>2 DEF FreshIn
<1>2. fs[path] \o ls \in Seq(Lines) /\ FreshIn(fs[path] \o ls, n)
  <2>1. fs[path] \in Seq(Lines) /\ FreshIn(fs[path], m)
    BY DEF FilesFresh
  <2> QED
    BY <2>1, FreshExtends
<1>3. CASE s = "good"
  <2>1. Appended(fs, s, path, ls) = [fs EXCEPT ![path] = fs[path] \o ls]
    BY <1>3 DEF Appended
  <2> QED
    BY <1>1, <1>2, <2>1 DEF FilesFresh
<1>4. CASE s # "good"
  BY <1>1, <1>4 DEF Appended, FilesFresh
<1> QED
  BY <1>3, <1>4

\* So does emptying one.
LEMMA TruncatedFresh ==
  ASSUME NEW n \in Nat, NEW fs, FilesFresh(fs, n), NEW path \in Paths
  PROVE  FilesFresh(Truncated(fs, path), n)
BY DEF FilesFresh, FreshIn, Truncated

\* Between them, TypeOK and TempsAreFresh say that all files are fresh.
LEMMA FilesAreFresh ==
  ASSUME IInv
  PROVE  FilesFresh(files, nameId) /\ nameId \in Nat /\ p \in Nat
BY DEF IInv, TypeOK, CursorOK, TempsAreFresh, FilesFresh, FreshIn

\* Writing to the .cpp file while a class is open.
LEMMA WriteCppStep ==
  ASSUME IInv, pc = "premise", NEW ls \in Seq(Lines),
         NEW n \in Nat, nameId <= n, NewNames(ls, nameId, n), WriteCpp(ls)
  PROVE  /\ FilesFresh(files', n)
         /\ damaged' \subseteq Paths
         /\ {headerFileOfs', cppFileOfs'} \subseteq {"good", "bad"}
<1>1. CppPath(Group) \in Paths
  BY AtGroup
<1>2. files' = Appended(files, cppFileOfs', CppPath(Group), ls)
  BY DEF WriteCpp
<1>3. FilesFresh(files', n)
  BY <1>1, <1>2, FilesAreFresh, AppendedFresh
<1>4. damaged' \subseteq Paths
  BY <1>1 DEF WriteCpp, DamagedIf, IInv, TypeOK
<1>5. {headerFileOfs', cppFileOfs'} \subseteq {"good", "bad"}
  BY DEF WriteCpp, Written, IInv, TypeOK, StreamsInv
<1> QED
  BY <1>3, <1>4, <1>5

\* Writing to both files.
LEMMA WriteBothStep ==
  ASSUME IInv, pc = "defn", NEW hs \in Seq(Plain), NEW cs \in Seq(Plain),
         WriteBoth(hs, cs)
  PROVE  /\ FilesFresh(files', nameId)
         /\ damaged' \subseteq Paths
         /\ {headerFileOfs', cppFileOfs'} \subseteq {"good", "bad"}
<1>1. HeaderPath(Group) \in Paths /\ CppPath(Group) \in Paths
  BY AtGroup
<1> DEFINE fs == Appended(files, headerFileOfs', HeaderPath(Group), hs)
<1>2. FilesFresh(fs, nameId)
  BY <1>1, FilesAreFresh, PlainLines, AppendedFresh
<1>3. files' = Appended(fs, cppFileOfs', CppPath(Group), cs)
  BY DEF WriteBoth
<1>4. FilesFresh(files', nameId)
  <2> HIDE DEF fs
  <2> QED
    BY <1>1, <1>2, <1>3, FilesAreFresh, PlainLines, AppendedFresh
<1>5. damaged' \subseteq Paths
  BY <1>1 DEF WriteBoth, DamagedIf, IInv, TypeOK
<1>6. {headerFileOfs', cppFileOfs'} \subseteq {"good", "bad"}
  BY DEF WriteBoth, Written, IInv, TypeOK, StreamsInv
<1> QED
  BY <1>4, <1>5, <1>6

-----------------------------------------------------------------------------
(* Open while-clauses.                                                     *)

\* As long as the innermost body is not over, no body around it is.
LEMMA AllReach ==
  ASSUME IInv, pc = "premise", ~BodyDone, NEW x \in DOMAIN open
  PROVE  Premises[open[x]].last >= p
<1> DEFINE y == Len(open)
<1>1. open \in Seq(Nat)
  BY DEF IInv, TypeOK
<1>2. x \in 1 .. y /\ y \in DOMAIN open /\ open # <<>>
  BY <1>1
<1>3. Last(open) = open[y]
  BY DEF Last
<1>4. /\ Premises \in Seq(Premise) /\ WellNested(Premises)
      /\ p \in 1 .. Len(Premises) + 1
  BY AtPremise
<1>5. \A z \in DOMAIN open :
        open[z] \in 1 .. p - 1 /\ Premises[open[z]].last >= p - 1
  BY DEF IInv, OpenInv
<1>6. open[x] \in DOMAIN Premises /\ open[y] \in DOMAIN Premises
  BY <1>2, <1>4, <1>5
<1>7. \A z \in DOMAIN Premises : Premises[z].last \in z .. Len(Premises)
  BY <1>4 DEF WellNested
<1>8. p <= Premises[open[y]].last
  <2>1. ~(p > Premises[open[y]].last)
    BY <1>2, <1>3 DEF BodyDone
  <2> QED
    BY <1>4, <1>6, <1>7, <2>1
<1>9. CASE x = y
  BY <1>4, <1>6, <1>7, <1>8, <1>9
<1>10. CASE x # y
  <2>1. open[x] < open[y]
    BY <1>2, <1>10 DEF IInv, OpenInv
  <2>2. open[y] \in open[x] .. Premises[open[x]].last
    BY <1>2, <1>4, <1>5, <1>6, <1>7, <2>1
  <2>3. Premises[open[y]].last <= Premises[open[x]].last
    BY <1>4, <1>6, <2>2 DEF WellNested
  <2> QED
    BY <1>4, <1>6, <1>7, <1>8, <2>3
<1> QED
  BY <1>9, <1>10

\* A premise that opens no clause changes nothing about the open ones.
LEMMA OpenPastPremise ==
  ASSUME IInv, pc = "premise", ~BodyDone, p \in DOMAIN Premises,
         ~OpensWhile(Premises[p]), p' = p + 1,
         UNCHANGED <<module, pc, g, d, open>>
  PROVE  OpenInv'
<1>1. Premises \in Seq(Premise) /\ p \in Nat /\ p \in 1 .. Len(Premises)
  BY AtPremise
<1>2. Premises' = Premises
  BY DEF Premises, Defn, Group
<1>3. \A x \in DOMAIN open :
        /\ open[x] \in 1 .. p
        /\ OpensWhile(Premises[open[x]])
        /\ Premises[open[x]].last >= p
  <2> TAKE x \in DOMAIN open
  <2>1. open[x] \in 1 .. p - 1 /\ OpensWhile(Premises[open[x]])
    BY DEF IInv, OpenInv
  <2>2. Premises[open[x]].last >= p
    BY AllReach
  <2> QED
    BY <1>1, <2>1, <2>2
<1>4. \A k \in 1 .. p :
        OpensWhile(Premises[k]) /\ Premises[k].last >= p + 1 => k \in ElementsOf(open)
  <2> SUFFICES ASSUME NEW k \in 1 .. p, OpensWhile(Premises[k]),
                      Premises[k].last >= p + 1
               PROVE  k \in ElementsOf(open)
    OBVIOUS
  <2>1. k # p /\ k \in 1 .. p - 1 /\ k \in DOMAIN Premises
    BY <1>1
  <2>2. Premises[k].last \in Nat
    BY <2>1, AtPremise DEF WellNested
  <2>3. Premises[k].last >= p
    BY <1>1, <2>2
  <2> QED
    BY <2>1, <2>3 DEF IInv, OpenInv
<1>5. \A x, y \in DOMAIN open : x < y => open[x] < open[y]
  BY DEF IInv, OpenInv
<1>6. (p + 1) - 1 = p
  BY <1>1
<1>7. ElementsOf(open)' = ElementsOf(open)
  BY DEF ElementsOf
<1> QED
  BY <1>2, <1>3, <1>4, <1>5, <1>6, <1>7 DEF OpenInv

\* A premise that opens a clause becomes the innermost.
LEMMA OpenClause ==
  ASSUME IInv, pc = "premise", ~BodyDone, p \in DOMAIN Premises,
         OpensWhile(Premises[p]), p' = p + 1, open' = Append(open, p),
         UNCHANGED <<module, pc, g, d>>
  PROVE  OpenInv' /\ open' \in Seq(Nat)
<1>1. Premises \in Seq(Premise) /\ p \in Nat /\ p \in 1 .. Len(Premises)
  BY AtPremise
<1>2. Premises' = Premises
  BY DEF Premises, Defn, Group
<1>3. open \in Seq(Nat) /\ Len(open) \in Nat
  BY DEF IInv, TypeOK
<1>4. /\ open' \in Seq(Nat) /\ Len(open') = Len(open) + 1
      /\ \A x \in 1 .. Len(open) : open'[x] = open[x]
      /\ open'[Len(open) + 1] = p
  BY <1>1, <1>3, AppendProperties
<1>5. DOMAIN open' = 1 .. Len(open) + 1 /\ DOMAIN open = 1 .. Len(open)
  BY <1>3, <1>4
<1>6. Premises[p].last >= p
  BY <1>1, AtPremise DEF WellNested
<1>7. \A x \in DOMAIN open :
        /\ open[x] \in 1 .. p - 1
        /\ OpensWhile(Premises[open[x]])
        /\ Premises[open[x]].last >= p
  BY AllReach DEF IInv, OpenInv
<1>8. \A x \in DOMAIN open' :
        /\ open'[x] \in 1 .. p
        /\ OpensWhile(Premises[open'[x]])
        /\ Premises[open'[x]].last >= p
  BY <1>1, <1>3, <1>4, <1>5, <1>6, <1>7
<1>9. \A x, y \in DOMAIN open' : x < y => open'[x] < open'[y]
  <2> SUFFICES ASSUME NEW x \in DOMAIN open', NEW y \in DOMAIN open', x < y
               PROVE  open'[x] < open'[y]
    OBVIOUS
  <2>1. x \in 1 .. Len(open)
    BY <1>3, <1>5
  <2>2. CASE y = Len(open) + 1
    BY <1>1, <1>4, <1>5, <1>7, <2>1, <2>2
  <2>3. CASE y # Len(open) + 1
    <3>1. y \in 1 .. Len(open)
      BY <1>3, <1>5, <2>3
    <3> QED
      BY <1>4, <1>5, <2>1, <3>1 DEF IInv, OpenInv
  <2> QED
    BY <2>2, <2>3
<1>10. \A k \in 1 .. p :
         OpensWhile(Premises[k]) /\ Premises[k].last >= p + 1 => k \in ElementsOf(open')
  <2> SUFFICES ASSUME NEW k \in 1 .. p, OpensWhile(Premises[k]),
                      Premises[k].last >= p + 1
               PROVE  k \in ElementsOf(open')
    OBVIOUS
  <2>1. CASE k = p
    BY <1>3, <1>4, <1>5, <2>1 DEF ElementsOf
  <2>2. CASE k # p
    <3>1. k \in 1 .. p - 1 /\ k \in DOMAIN Premises
      BY <1>1, <2>2
    <3>2. Premises[k].last \in Nat
      BY <3>1, AtPremise DEF WellNested
    <3>3. k \in ElementsOf(open)
      BY <1>1, <3>1, <3>2 DEF IInv, OpenInv
    <3>4. PICK x \in DOMAIN open : k = open[x]
      BY <3>3 DEF ElementsOf
    <3> QED
      BY <1>3, <1>4, <1>5, <3>4 DEF ElementsOf
  <2> QED
    BY <2>1, <2>2
<1>11. (p + 1) - 1 = p
  BY <1>1
<1>12. ElementsOf(open)' = ElementsOf(open')
  BY DEF ElementsOf
<1> QED
  BY <1>2, <1>4, <1>8, <1>9, <1>10, <1>11, <1>12 DEF OpenInv

\* When a body is over its premise leaves the stack, and no other does.
LEMMA ClauseOver ==
  ASSUME IInv, pc = "premise", BodyDone, open' = Front(open),
         UNCHANGED <<module, pc, g, d, p>>
  PROVE  OpenInv' /\ open' \in Seq(Nat)
<1>1. /\ Premises \in Seq(Premise) /\ WellNested(Premises)
      /\ p \in 1 .. Len(Premises) + 1
  BY AtPremise
<1>2. Premises' = Premises
  BY DEF Premises, Defn, Group
<1> DEFINE y == Len(open)
<1>3. open \in Seq(Nat) /\ open # <<>>
  BY DEF IInv, TypeOK, BodyDone
<1>4. y \in Nat \ {0} /\ DOMAIN open = 1 .. y
  BY <1>3
<1>5. /\ open' \in Seq(Nat) /\ Len(open') = y - 1
      /\ \A x \in 1 .. y - 1 : open'[x] = open[x]
  <2>1. open' = SubSeq(open, 1, y - 1)
    BY DEF Front
  <2>2. \A i \in 1 .. y - 1 : open[i] \in Nat
    BY <1>3, <1>4
  <2> HIDE DEF y
  <2> QED
    BY <1>4, <2>1, <2>2, SubSeqProperties
<1>6. DOMAIN open' = 1 .. y - 1
  BY <1>5
<1>7. Last(open) = open[y] /\ p > Premises[open[y]].last
  BY DEF Last, BodyDone
<1>8. \A k \in 1 .. p - 1 :
        OpensWhile(Premises[k]) /\ Premises[k].last >= p => k \in ElementsOf(open')
  <2> SUFFICES ASSUME NEW k \in 1 .. p - 1, OpensWhile(Premises[k]),
                      Premises[k].last >= p
               PROVE  k \in ElementsOf(open')
    OBVIOUS
  <2>1. PICK x \in DOMAIN open : k = open[x]
    BY DEF IInv, OpenInv, ElementsOf
  <2>2. Premises[k].last \in Nat
    BY <1>1 DEF WellNested
  <2>3. x # y
    BY <1>1, <1>7, <2>1, <2>2
  <2>4. x \in 1 .. y - 1
    BY <1>4, <2>1, <2>3
  <2> QED
    BY <1>5, <1>6, <2>1, <2>4 DEF ElementsOf
<1>9. \A x \in DOMAIN open' : x \in DOMAIN open /\ open'[x] = open[x]
  BY <1>4, <1>5, <1>6
<1>10. ElementsOf(open)' = ElementsOf(open')
  BY DEF ElementsOf
<1> QED
  BY <1>2, <1>5, <1>8, <1>9, <1>10 DEF OpenInv, IInv

\* At the end of the list no clause is open.
LEMMA AllOver ==
  ASSUME IInv, pc = "premise", ~BodyDone, p \notin DOMAIN Premises
  PROVE  open = <<>>
<1>1. /\ Premises \in Seq(Premise) /\ WellNested(Premises)
      /\ p \in 1 .. Len(Premises) + 1
  BY AtPremise
<1>2. p = Len(Premises) + 1
  BY <1>1
<1>3. ASSUME NEW x \in DOMAIN open
      PROVE  FALSE
  <2>1. open[x] \in 1 .. p - 1
    BY DEF IInv, OpenInv
  <2>2. open[x] \in DOMAIN Premises
    BY <1>1, <1>2, <2>1
  <2>3. Premises[open[x]].last \in open[x] .. Len(Premises)
    BY <1>1, <2>2 DEF WellNested
  <2>4. Premises[open[x]].last >= p
    BY AllReach
  <2> QED
    BY <1>1, <1>2, <2>3, <2>4
<1>4. open \in Seq(Nat)
  BY DEF IInv, TypeOK
<1> QED
  BY <1>3, <1>4, EmptySeq

-----------------------------------------------------------------------------
(* The steps.                                                              *)

\* The invariant, from the parts a step at a premise may change.
LEMMA PremiseStep ==
  ASSUME IInv, pc = "premise", pc' \in {"premise", "terminated"},
         UNCHANGED <<module, comments, g, d, errors>>,
         p' \in {p, p + 1}, pc' = "premise" => p' <= Len(Premises) + 1,
         OpenInv', open' \in Seq(Nat),
         numPremisesProcessed' \in Nat, nameId' \in Nat,
         FilesFresh(files', nameId'), damaged' \subseteq Paths,
         {headerFileOfs', cppFileOfs'} \subseteq {"good", "bad"}
  PROVE  IInv'
<1>1. Premises' = Premises /\ Group' = Group
  BY DEF Premises, Defn, Group
<1>2. CursorOK'
  BY <1>1 DEF IInv, TypeOK, CursorOK
<1>3. TypeOK'
  BY <1>2 DEF IInv, TypeOK, FilesFresh
<1>4. StreamsInv' /\ NothingLeftOpen'
  BY DEF StreamsInv, NothingLeftOpen
<1>5. TempsAreFresh'
  BY DEF FilesFresh, FreshIn, TempsAreFresh
<1>6. Analysis!ModuleOK(module, FALSE)'
  BY DEF IInv, Analysis!ModuleOK, Analysis!GroupOK
<1> QED
  BY <1>3, <1>4, <1>5, <1>6 DEF IInv

\* An exception ends the process in mid-premise.
LEMMA ThrowStep ==
  ASSUME IInv, pc = "premise", Throw, UNCHANGED <<module, comments, errors>>,
         FilesFresh(files', nameId), damaged' \subseteq Paths,
         {headerFileOfs', cppFileOfs'} \subseteq {"good", "bad"}
  PROVE  IInv'
<1>1. OpenInv'
  BY DEF Throw, OpenInv
<1>2. /\ pc' = "terminated" /\ UNCHANGED <<g, d, p, open, numPremisesProcessed, nameId>>
  BY DEF Throw, cursor, context
<1>3. numPremisesProcessed \in Nat /\ nameId \in Nat /\ open \in Seq(Nat)
  BY DEF IInv, TypeOK
<1> QED
  BY <1>1, <1>2, <1>3, PremiseStep

\* A clause opens with its fixture, or the process ends.
LEMMA BeginWhileStep ==
  ASSUME IInv, BeginWhile
  PROVE  IInv'
<1>1. /\ pc = "premise" /\ ~BodyDone /\ p \in DOMAIN Premises
      /\ OpensWhile(Premises[p])
      /\ UNCHANGED <<module, comments, errors>>
  BY DEF BeginWhile, NextPremise, OpensWhile
<1>2. p \in Nat /\ p + 1 <= Len(Premises) + 1
  BY <1>1, AtPremise
<1>3. nameId \in Nat /\ numPremisesProcessed \in Nat
  BY DEF IInv, TypeOK
<1>4. PremiseAnnotationComment \in Seq(Plain)
  BY <1>2, <1>3, CommentIsPlain
<1>5. CASE HasField("TypeAnnotationSetupMethod")
  <2> DEFINE ls == PremiseAnnotationComment \o <<Line("setup", p, 0)>>
  <2>1. /\ WriteCpp(ls) /\ open' = Append(open, p) /\ p' = p + 1
        /\ UNCHANGED <<pc, g, d, numPremisesProcessed, nameId>>
    BY <1>5 DEF BeginWhile, context
  <2>2. ls \in Seq(Plain)
    BY <1>2, <1>4, PlainLine, ConcatProperties DEF PremiseOps
  <2>3. ls \in Seq(Lines) /\ NewNames(ls, nameId, nameId)
    BY <1>3, <2>2, PlainLines
  <2> HIDE DEF ls
  <2>4. /\ FilesFresh(files', nameId) /\ damaged' \subseteq Paths
        /\ {headerFileOfs', cppFileOfs'} \subseteq {"good", "bad"}
    BY <1>1, <1>3, <2>1, <2>3, WriteCppStep
  <2>5. OpenInv' /\ open' \in Seq(Nat)
    BY <1>1, <2>1, OpenClause
  <2> QED
    BY <1>1, <1>2, <1>3, <2>1, <2>4, <2>5, PremiseStep
<1>6. CASE ~HasField("TypeAnnotationSetupMethod")
  <2>1. WriteCpp(PremiseAnnotationComment) /\ Throw
    BY <1>6 DEF BeginWhile
  <2>2. /\ PremiseAnnotationComment \in Seq(Lines)
        /\ NewNames(PremiseAnnotationComment, nameId, nameId)
    BY <1>3, <1>4, PlainLines
  <2>3. /\ FilesFresh(files', nameId) /\ damaged' \subseteq Paths
        /\ {headerFileOfs', cppFileOfs'} \subseteq {"good", "bad"}
    BY <1>1, <1>3, <2>1, <2>2, WriteCppStep
  <2> QED
    BY <1>1, <2>1, <2>3, ThrowStep
<1> QED
  BY <1>5, <1>6

\* A clause ends with its fixture, or the process ends.
LEMMA EndWhileStep ==
  ASSUME IInv, EndWhile
  PROVE  IInv'
<1>1. pc = "premise" /\ BodyDone /\ UNCHANGED <<module, comments, errors>>
  BY DEF EndWhile
<1>2. p \in Nat /\ p <= Len(Premises) + 1
  BY <1>1, AtPremise
<1>3. nameId \in Nat /\ numPremisesProcessed \in Nat
  BY DEF IInv, TypeOK
<1>4. CASE HasField("TypeAnnotationTeardownMethod")
  <2> DEFINE ls == <<Line("teardown", Last(open), 0)>>
  <2>1. /\ WriteCpp(ls) /\ open' = Front(open)
        /\ numPremisesProcessed' = numPremisesProcessed + 1
        /\ UNCHANGED <<pc, g, d, p, nameId>>
    BY <1>4 DEF EndWhile, PostvisitPremise
  <2>2. Last(open) \in Nat
    <3>1. open \in Seq(Nat) /\ open # <<>>
      BY <1>1 DEF IInv, TypeOK, BodyDone
    <3>2. Len(open) \in DOMAIN open
      BY <3>1
    <3> QED
      BY <3>1, <3>2 DEF Last
  <2>3. ls \in Seq(Plain)
    BY <2>2, PlainLine DEF PremiseOps
  <2>4. ls \in Seq(Lines) /\ NewNames(ls, nameId, nameId)
    BY <1>3, <2>3, PlainLines
  <2> HIDE DEF ls
  <2>5. /\ FilesFresh(files', nameId) /\ damaged' \subseteq Paths
        /\ {headerFileOfs', cppFileOfs'} \subseteq {"good", "bad"}
    BY <1>1, <1>3, <2>1, <2>4, WriteCppStep
  <2>6. OpenInv' /\ open' \in Seq(Nat)
    BY <1>1, <2>1, ClauseOver
  <2> QED
    BY <1>1, <1>2, <1>3, <2>1, <2>5, <2>6, PremiseStep
<1>5. CASE ~HasField("TypeAnnotationTeardownMethod")
  <2>1. Throw /\ UNCHANGED output
    BY <1>5 DEF EndWhile
  <2>2. FilesFresh(files', nameId) /\ damaged' \subseteq Paths
    BY <2>1, FilesAreFresh DEF output, IInv, TypeOK
  <2>3. {headerFileOfs', cppFileOfs'} \subseteq {"good", "bad"}
    BY <1>1, <2>1 DEF output, IInv, TypeOK, StreamsInv
  <2> QED
    BY <1>1, <2>1, <2>2, <2>3, ThrowStep
<1> QED
  BY <1>4, <1>5

\* Two temporaries are made up, with names no file has yet.
LEMMA DeduceComputedStep ==
  ASSUME IInv, DeduceComputed
  PROVE  IInv'
<1>1. /\ pc = "premise" /\ ~BodyDone /\ p \in DOMAIN Premises
      /\ ~OpensWhile(Premises[p])
      /\ UNCHANGED <<module, comments, errors, pc, g, d, open>>
  BY DEF DeduceComputed, NextPremise, DeducesComputed, OpensWhile
<1>2. p \in Nat /\ p + 1 <= Len(Premises) + 1
  BY <1>1, AtPremise
<1>3. nameId \in Nat /\ numPremisesProcessed \in Nat /\ open \in Seq(Nat)
  BY DEF IInv, TypeOK
<1> DEFINE c == PremiseAnnotationComment
           ts == <<Line("temp", p, nameId), Line("temp", p, nameId + 1),
                   Line("checkTemps", p, nameId)>>
           ls == c \o ts
<1>4. /\ WriteCpp(ls) /\ p' = p + 1 /\ nameId' = nameId + 2
      /\ numPremisesProcessed' = numPremisesProcessed + 1
  <2>1. TakeNames - 1 = nameId + 1
    BY <1>3 DEF TakeNames
  <2> QED
    BY <2>1 DEF DeduceComputed, TakeNames, PostvisitPremise
<1>5. c \in Seq(Plain) /\ c \in Seq(Lines)
  BY <1>2, <1>3, CommentIsPlain, PlainLines
<1>6. /\ ts \in Seq(Lines) /\ Len(ts) = 3
      /\ ts[1].n = nameId /\ ts[2].n = nameId + 1 /\ ts[3].op = "checkTemps"
  <2>1. /\ Line("temp", p, nameId) \in Lines
        /\ Line("temp", p, nameId + 1) \in Lines
        /\ Line("checkTemps", p, nameId) \in Lines
    <3>1. nameId + 1 \in Nat
      BY <1>3
    <3> QED
      BY <1>2, <1>3, <3>1, LineType DEF PremiseOps
  <2>2. ts \in Seq(Lines) /\ Len(ts) = 3
    BY <2>1
  <2> QED
    BY <2>2 DEF Line
<1>7. /\ ls \in Seq(Lines) /\ Len(ls) = Len(c) + 3 /\ Len(c) \in Nat
      /\ \A i \in 1 .. Len(c) + 3 :
           ls[i] = IF i <= Len(c) THEN c[i] ELSE ts[i - Len(c)]
  BY <1>5, <1>6, ConcatProperties
<1> HIDE DEF c, ts, ls
<1>8. \A i \in 1 .. Len(c) : ls[i].op # "temp"
  BY <1>5, <1>7 DEF Plain
<1>9. /\ ls[Len(c) + 1].n = nameId
      /\ ls[Len(c) + 2].n = nameId + 1
      /\ ls[Len(c) + 3].op # "temp"
  BY <1>6, <1>7
<1>10. NewNames(ls, nameId, nameId + 2)
  <2> SUFFICES ASSUME NEW b \in DOMAIN ls, ls[b].op = "temp"
               PROVE  /\ nameId <= ls[b].n /\ ls[b].n < nameId + 2
                      /\ \A a \in 1 .. b - 1 : ls[a].op = "temp" => ls[a].n < ls[b].n
    BY DEF NewNames
  <2>1. b = Len(c) + 1 \/ b = Len(c) + 2
    BY <1>7, <1>8, <1>9
  <2>2. CASE b = Len(c) + 1
    <3>1. \A a \in 1 .. b - 1 : ls[a].op # "temp"
      BY <1>7, <1>8, <2>2
    <3> QED
      BY <1>3, <1>9, <2>2, <3>1
  <2>3. CASE b = Len(c) + 2
    <3>1. \A a \in 1 .. b - 1 : ls[a].op # "temp" \/ a = Len(c) + 1
      BY <1>7, <1>8, <2>3
    <3> QED
      BY <1>3, <1>9, <2>3, <3>1
  <2> QED
    BY <2>1, <2>2, <2>3
<1>11. nameId + 2 \in Nat /\ nameId <= nameId + 2
  BY <1>3
<1>12. /\ FilesFresh(files', nameId + 2) /\ damaged' \subseteq Paths
       /\ {headerFileOfs', cppFileOfs'} \subseteq {"good", "bad"}
  BY <1>1, <1>4, <1>7, <1>10, <1>11, WriteCppStep
<1>13. OpenInv'
  BY <1>1, <1>4, OpenPastPremise
<1> QED
  BY <1>1, <1>2, <1>3, <1>4, <1>11, <1>12, <1>13, PremiseStep

\* A premise that writes plain lines and opens no clause.
LEMMA PlainStep ==
  ASSUME IInv, pc = "premise", ~BodyDone, p \in DOMAIN Premises,
         ~OpensWhile(Premises[p]), NEW ls \in Seq(Plain), WriteCpp(ls),
         p' = p + 1, UNCHANGED <<module, comments, errors, pc, g, d, open, nameId>>,
         numPremisesProcessed' \in Nat
  PROVE  IInv'
<1>1. p \in Nat /\ p + 1 <= Len(Premises) + 1
  BY AtPremise
<1>2. nameId \in Nat /\ open \in Seq(Nat)
  BY DEF IInv, TypeOK
<1>3. ls \in Seq(Lines) /\ NewNames(ls, nameId, nameId)
  BY <1>2, PlainLines
<1>4. /\ FilesFresh(files', nameId) /\ damaged' \subseteq Paths
      /\ {headerFileOfs', cppFileOfs'} \subseteq {"good", "bad"}
  BY <1>2, <1>3, WriteCppStep
<1>5. OpenInv'
  BY OpenPastPremise
<1> QED
  BY <1>1, <1>2, <1>4, <1>5, PremiseStep

\* A declaration makes up no name.
LEMMA DeclareStep ==
  ASSUME IInv, Declare
  PROVE  IInv'
<1>1. /\ pc = "premise" /\ ~BodyDone /\ p \in DOMAIN Premises
      /\ ~OpensWhile(Premises[p])
      /\ UNCHANGED <<module, comments, errors, pc, g, d, open, nameId>>
      /\ WriteCpp(PremiseAnnotationComment \o <<Line("declare", p, 0)>>)
      /\ p' = p + 1 /\ numPremisesProcessed' = numPremisesProcessed + 1
  BY DEF Declare, NextPremise, OpensWhile, PostvisitPremise
<1>2. p \in Nat /\ numPremisesProcessed \in Nat
  BY DEF IInv, TypeOK, CursorOK
<1> DEFINE ls == PremiseAnnotationComment \o <<Line("declare", p, 0)>>
<1>3. ls \in Seq(Plain)
  BY <1>2, CommentIsPlain, PlainLine, ConcatProperties DEF PremiseOps
<1>4. WriteCpp(ls) /\ numPremisesProcessed' \in Nat
  BY <1>1, <1>2
<1> HIDE DEF ls
<1> QED
  BY <1>1, <1>3, <1>4, PlainStep

\* Neither does a check.
LEMMA PrevisitEqualityStep ==
  ASSUME IInv, PrevisitEquality
  PROVE  IInv'
<1> DEFINE op == IF Premises[p].range = NoRange THEN "check" ELSE "checkEach"
<1>1. /\ pc = "premise" /\ ~BodyDone /\ p \in DOMAIN Premises
      /\ ~OpensWhile(Premises[p])
      /\ UNCHANGED <<module, comments, errors, pc, g, d, open, nameId,
                     numPremisesProcessed>>
      /\ WriteCpp(<<Line(op, p, 0)>>)
      /\ p' = p + 1
  BY DEF PrevisitEquality, NextPremise, OpensWhile, context
<1>2. p \in Nat /\ numPremisesProcessed \in Nat
  BY DEF IInv, TypeOK, CursorOK
<1>3. <<Line(op, p, 0)>> \in Seq(Plain)
  BY <1>2, PlainLine DEF PremiseOps
<1> QED
  BY <1>1, <1>2, <1>3, PlainStep

\* The invariant, from the parts a step between two methods may change.
LEMMA ClassStep ==
  ASSUME IInv, pc' # "premise", CursorOK', module' = module, comments' = comments,
         pc' \in {"group", "defn", "endGroup", "succeeded", "failed"},
         open' = open, pc' # "failed" => open = <<>>,
         numPremisesProcessed' \in Nat, nameId' = nameId,
         errors' \in Nat,
         FilesFresh(files', nameId), damaged' \subseteq Paths,
         {headerFileOfs', cppFileOfs'} \subseteq {"closed", "good", "bad"},
         StreamsInv'
  PROVE  IInv'
<1>1. OpenInv' /\ NothingLeftOpen'
  BY DEF OpenInv, NothingLeftOpen
<1>2. TypeOK'
  BY FilesAreFresh DEF IInv, TypeOK, FilesFresh
<1>3. TempsAreFresh'
  BY DEF FilesFresh, FreshIn, TempsAreFresh
<1>4. Analysis!ModuleOK(module, FALSE)'
  BY DEF IInv, Analysis!ModuleOK, Analysis!GroupOK
<1> QED
  BY <1>1, <1>2, <1>3, <1>4 DEF IInv

\* Where the traversal goes after a group.
LEMMA VisitGroupsStep ==
  ASSUME IInv, NEW n \in Nat \ {0}, VisitGroups(n), UNCHANGED <<module, p>>,
         d' \in Nat \ {0}
  PROVE  CursorOK' /\ pc' \in {"group", "succeeded"}
BY DEF VisitGroups, IInv, TypeOK, CursorOK

\* Where the traversal goes after a definition.
LEMMA VisitDefnsStep ==
  ASSUME IInv, pc \in {"group", "defn", "premise", "endGroup"},
         NEW n \in Nat \ {0}, VisitDefns(n), UNCHANGED <<module, g, p>>
  PROVE  CursorOK' /\ pc' \in {"defn", "endGroup"}
<1>1. Group' = Group
  BY DEF Group
<1>2. g \in DOMAIN module
  BY AtGroup
<1> QED
  BY <1>1, <1>2 DEF VisitDefns, IInv, TypeOK, CursorOK

\* The files of the error codes come and go before any class is open.
LEMMA SynthesizeErrorCodeFilesStep ==
  ASSUME IInv, SynthesizeErrorCodeFiles
  PROVE  IInv'
<1> DEFINE header == <<ErrorDefn, ".h">>
           cpp    == <<ErrorDefn, ".cpp">>
           code   == <<Line("errorCodes", 0, 0)>>
<1>1. /\ pc = "errorCodes"
      /\ UNCHANGED <<module, comments, d, p, open, numPremisesProcessed, nameId,
                     headerFileOfs, cppFileOfs, errors>>
  BY DEF SynthesizeErrorCodeFiles, context
<1>2. /\ open = <<>> /\ "good" \notin {headerFileOfs, cppFileOfs}
      /\ headerFileOfs \in {"closed", "good", "bad"}
      /\ cppFileOfs \in {"closed", "good", "bad"}
      /\ errors \in Nat /\ numPremisesProcessed \in Nat
      /\ nameId \in Nat /\ d \in Nat \ {0} /\ damaged \subseteq Paths
  BY <1>1 DEF IInv, TypeOK, CursorOK, NothingLeftOpen, StreamsInv
<1>3. header \in Paths /\ cpp \in Paths
  BY ErrorDefnAssumption DEF Paths
<1>4. code \in Seq(Lines) /\ FreshIn(code, nameId) /\ FreshIn(<<>>, nameId)
  <2>1. code \in Seq(Plain)
    BY PlainLine DEF FileOps, PremiseOps
  <2> QED
    BY <2>1, SeqMonotonic DEF Plain, FreshIn
<1>5. CASE pc' = "failed" /\ g' = g /\ damaged' = damaged
           /\ files' \in {files, [files EXCEPT ![header] = <<>>]}
  <2> HIDE DEF header
  <2>1. FilesFresh(files', nameId)
    <3>1. CASE files' = files
      BY <3>1, FilesAreFresh
    <3>2. CASE files' = [files EXCEPT ![header] = <<>>]
      BY <1>3, <1>4, <3>2, FilesAreFresh DEF FilesFresh
    <3> QED
      BY <1>5, <3>1, <3>2
  <2>2. CursorOK'
    BY <1>1, <1>5 DEF IInv, TypeOK, CursorOK
  <2>3. StreamsInv'
    BY <1>5 DEF StreamsInv
  <2> QED
    BY <1>1, <1>2, <1>5, <2>1, <2>2, <2>3, ClassStep
<1>6. CASE VisitGroups(1) /\ files' = [files EXCEPT ![header] = code, ![cpp] = code]
           /\ damaged' \in SUBSET {header, cpp}
  <2> HIDE DEF header, cpp, code
  <2>1. FilesFresh(files', nameId)
    BY <1>3, <1>4, <1>6, FilesAreFresh DEF FilesFresh
  <2>2. CursorOK' /\ pc' \in {"group", "succeeded"}
    BY <1>1, <1>2, <1>6, VisitGroupsStep
  <2>3. StreamsInv'
    BY <1>1, <1>2, <2>2 DEF StreamsInv
  <2>4. damaged' \subseteq Paths
    BY <1>3, <1>6
  <2> QED
    BY <1>1, <1>2, <2>1, <2>2, <2>3, <2>4, ClassStep
<1> QED
  BY <1>1, <1>5, <1>6 DEF SynthesizeErrorCodeFiles

\* Opening the files of a class: one, both, or neither.
LEMMA PrevisitGroupStep ==
  ASSUME IInv, PrevisitGroup
  PROVE  IInv'
<1> DEFINE header == HeaderPath(Group)
           cpp    == CppPath(Group)
           lines  == <<Line("preamble", g, 0)>>
<1>1. /\ pc = "group"
      /\ UNCHANGED <<module, comments, g, p, open, numPremisesProcessed, nameId>>
  BY DEF PrevisitGroup, context
<1>2. /\ open = <<>> /\ numPremisesProcessed \in Nat /\ nameId \in Nat
      /\ errors \in Nat /\ errors + 1 \in Nat /\ damaged \subseteq Paths
      /\ {headerFileOfs, cppFileOfs} \subseteq {"closed", "good", "bad"}
      /\ g \in Nat
  BY <1>1 DEF IInv, TypeOK, CursorOK, NothingLeftOpen
<1>3. header \in Paths /\ cpp \in Paths
  BY <1>1, AtGroup
<1>4. lines \in Seq(Lines) /\ NewNames(lines, nameId, nameId)
  <2>1. lines \in Seq(Plain)
    BY <1>2, PlainLine DEF FileOps, PremiseOps
  <2> HIDE DEF lines
  <2> QED
    BY <1>2, <2>1, PlainLines
<1>5. CASE /\ pc' = "failed" /\ errors' = errors + 1 /\ d' = d
           /\ headerFileOfs' \in {"good", "bad"}
           /\ cppFileOfs' \in {"bad", cppFileOfs}
           /\ files' \in {files, Truncated(files, header)}
           /\ damaged' \in {damaged, damaged \ {header}}
  <2> HIDE DEF header
  <2>1. FilesFresh(files', nameId)
    BY <1>2, <1>3, <1>5, FilesAreFresh, TruncatedFresh
  <2>2. CursorOK'
    BY <1>1, <1>5 DEF IInv, TypeOK, CursorOK
  <2>3. StreamsInv'
    BY <1>5 DEF StreamsInv
  <2>4. /\ damaged' \subseteq Paths
        /\ {headerFileOfs', cppFileOfs'} \subseteq {"closed", "good", "bad"}
    BY <1>2, <1>5
  <2> QED
    BY <1>1, <1>2, <1>5, <2>1, <2>2, <2>3, <2>4, ClassStep
<1>6. CASE /\ VisitDefns(1) /\ errors' = errors
           /\ headerFileOfs' \in Written("good") /\ cppFileOfs' \in Written("good")
           /\ files' = Appended(Appended(Truncated(Truncated(files, header), cpp),
                                         headerFileOfs', header, lines),
                                cppFileOfs', cpp, lines)
           /\ damaged' = (damaged \ {header, cpp})
                           \cup DamagedIf(headerFileOfs', header)
                           \cup DamagedIf(cppFileOfs', cpp)
  <2> HIDE DEF header, cpp, lines
  <2>1. FilesFresh(files', nameId)
    <3> DEFINE t1 == Truncated(files, header)
               t2 == Truncated(t1, cpp)
               t3 == Appended(t2, headerFileOfs', header, lines)
    <3>1. FilesFresh(t1, nameId)
      BY <1>2, <1>3, FilesAreFresh, TruncatedFresh
    <3>2. FilesFresh(t2, nameId)
      <4> HIDE DEF t1
      <4> QED
        BY <1>2, <1>3, <3>1, TruncatedFresh
    <3>3. FilesFresh(t3, nameId)
      <4> HIDE DEF t2
      <4> QED
        BY <1>2, <1>3, <1>4, <3>2, AppendedFresh
    <3>4. files' = Appended(t3, cppFileOfs', cpp, lines)
      BY <1>6
    <3> HIDE DEF t3
    <3> QED
      BY <1>2, <1>3, <1>4, <3>3, <3>4, AppendedFresh
  <2>2. CursorOK' /\ pc' \in {"defn", "endGroup"}
    BY <1>1, <1>6, VisitDefnsStep
  <2>3. {headerFileOfs', cppFileOfs'} \subseteq {"good", "bad"}
    BY <1>6 DEF Written
  <2>4. StreamsInv'
    BY <2>2, <2>3 DEF StreamsInv
  <2>5. damaged' \subseteq Paths
    BY <1>2, <1>3, <1>6 DEF DamagedIf
  <2> QED
    BY <1>1, <1>2, <1>6, <2>1, <2>2, <2>3, <2>4, <2>5, ClassStep
<1> QED
  BY <1>1, <1>5, <1>6 DEF PrevisitGroup

\* A method begins with no clause open.
LEMMA PrevisitDefnStep ==
  ASSUME IInv, PrevisitDefn
  PROVE  IInv'
<1> DEFINE hs == <<Line("declaration", d, 0)>>
           cs == <<Line("beginMethod", d, 0)>>
<1>1. /\ pc = "defn" /\ WriteBoth(hs, cs) /\ pc' = "premise" /\ p' = 1
      /\ UNCHANGED <<module, comments, g, d, open, numPremisesProcessed, nameId, errors>>
  BY DEF PrevisitDefn, context
<1>2. open = <<>> /\ d \in DOMAIN Group.defns /\ d \in Nat
  BY <1>1 DEF IInv, TypeOK, CursorOK, NothingLeftOpen
<1>3. hs \in Seq(Plain) /\ cs \in Seq(Plain)
  BY <1>2, PlainLine DEF FileOps, PremiseOps
<1> HIDE DEF hs, cs
<1>4. /\ FilesFresh(files', nameId) /\ damaged' \subseteq Paths
      /\ {headerFileOfs', cppFileOfs'} \subseteq {"good", "bad"}
  BY <1>1, <1>3, WriteBothStep
<1>5. Premises' = Premises /\ Group' = Group
  BY <1>1 DEF Premises, Defn, Group
<1>6. Premises \in Seq(Premise)
  <2>1. Group.defns \in Seq(InferenceDefn)
    BY <1>1, AtGroup
  <2> QED
    BY <1>2, <2>1, DefnPremises DEF Premises, Defn
<1>7. CursorOK'
  <2>1. Len(Premises) \in Nat
    BY <1>6
  <2>2. 1 <= Len(Premises) + 1
    BY <2>1
  <2> QED
    BY <1>1, <1>5, <2>2 DEF IInv, TypeOK, CursorOK
<1>8. TypeOK'
  BY <1>1, <1>4, <1>7 DEF IInv, TypeOK, FilesFresh
<1>9. OpenInv'
  <2>1. open' = <<>> /\ p' - 1 = 0
    BY <1>1, <1>2
  <2>2. 1 .. p' - 1 = {}
    BY <2>1
  <2>3. DOMAIN open' = {}
    BY <2>1
  <2> QED
    BY <2>2, <2>3 DEF OpenInv
<1>10. StreamsInv' /\ NothingLeftOpen'
  BY <1>1, <1>4 DEF StreamsInv, NothingLeftOpen
<1>11. TempsAreFresh'
  BY <1>1, <1>4 DEF FilesFresh, FreshIn, TempsAreFresh
<1>12. Analysis!ModuleOK(module, FALSE)'
  BY <1>1 DEF IInv, Analysis!ModuleOK, Analysis!GroupOK
<1> QED
  BY <1>8, <1>9, <1>10, <1>11, <1>12 DEF IInv

\* A method ends with no clause open: the cursor is past every body.
LEMMA PostvisitDefnStep ==
  ASSUME IInv, PostvisitDefn
  PROVE  IInv'
<1> DEFINE ls == <<Line("return", d, 0), Line("endMethod", d, 0)>>
<1>1. /\ pc = "premise" /\ ~BodyDone /\ p \notin DOMAIN Premises
      /\ WriteCpp(ls) /\ numPremisesProcessed' = 0 /\ VisitDefns(d + 1)
      /\ UNCHANGED <<module, comments, g, p, open, nameId, errors>>
  BY DEF PostvisitDefn
<1>2. open = <<>>
  BY <1>1, AllOver
<1>3. d \in Nat /\ d + 1 \in Nat \ {0} /\ nameId \in Nat /\ errors \in Nat
  BY DEF IInv, TypeOK, CursorOK
<1>4. ls \in Seq(Plain)
  <2>1. /\ <<Line("return", d, 0)>> \in Seq(Plain)
        /\ <<Line("endMethod", d, 0)>> \in Seq(Plain)
    BY <1>3, PlainLine DEF FileOps, PremiseOps
  <2>2. Line("return", d, 0) \in Plain /\ Line("endMethod", d, 0) \in Plain
    BY <1>3, LineType DEF Plain, FileOps, Line
  <2> QED
    BY <2>2
<1> HIDE DEF ls
<1>5. ls \in Seq(Lines) /\ NewNames(ls, nameId, nameId)
  BY <1>3, <1>4, PlainLines
<1>6. /\ FilesFresh(files', nameId) /\ damaged' \subseteq Paths
      /\ {headerFileOfs', cppFileOfs'} \subseteq {"good", "bad"}
  BY <1>1, <1>3, <1>5, WriteCppStep
<1>7. CursorOK' /\ pc' \in {"defn", "endGroup"}
  BY <1>1, <1>3, VisitDefnsStep
<1>8. StreamsInv'
  BY <1>6, <1>7 DEF StreamsInv
<1> QED
  BY <1>1, <1>2, <1>3, <1>6, <1>7, <1>8, ClassStep

\* Closing the files of a class: a stream ends up closed or bad.
LEMMA PostvisitGroupStep ==
  ASSUME IInv, PostvisitGroup
  PROVE  IInv'
<1> DEFINE header == HeaderPath(Group)
           cpp    == CppPath(Group)
           lines  == <<Line("endClass", g, 0)>>
<1>1. /\ pc = "endGroup" /\ VisitGroups(g + 1)
      /\ UNCHANGED <<module, comments, d, p, open, numPremisesProcessed, nameId, errors>>
  BY DEF PostvisitGroup, context
<1>2. PICK written \in Written(headerFileOfs) :
        /\ headerFileOfs' = Closed(written)
        /\ cppFileOfs' = Closed(cppFileOfs)
        /\ files' = Appended(files, written, header, lines)
        /\ \E lost \in SUBSET {header, cpp} :
             damaged' = damaged \cup DamagedIf(written, header) \cup lost
  BY DEF PostvisitGroup
<1>3. /\ open = <<>> /\ numPremisesProcessed \in Nat /\ nameId \in Nat
      /\ errors \in Nat /\ damaged \subseteq Paths
      /\ {headerFileOfs, cppFileOfs} \subseteq {"good", "bad"}
      /\ g \in Nat /\ g + 1 \in Nat \ {0} /\ d \in Nat \ {0}
  BY <1>1 DEF IInv, TypeOK, CursorOK, NothingLeftOpen, StreamsInv
<1>4. header \in Paths /\ cpp \in Paths
  BY <1>1, AtGroup
<1>5. lines \in Seq(Lines) /\ NewNames(lines, nameId, nameId)
  <2>1. lines \in Seq(Plain)
    BY <1>3, PlainLine DEF FileOps, PremiseOps
  <2> HIDE DEF lines
  <2> QED
    BY <1>3, <2>1, PlainLines
<1> HIDE DEF header, cpp, lines
<1>6. FilesFresh(files', nameId)
  BY <1>2, <1>3, <1>4, <1>5, FilesAreFresh, AppendedFresh
<1>7. damaged' \subseteq Paths
  BY <1>2, <1>3, <1>4 DEF DamagedIf
<1>8. {headerFileOfs', cppFileOfs'} \subseteq {"closed", "bad"}
  BY <1>2, <1>3 DEF Closed, Written
<1>9. CursorOK' /\ pc' \in {"group", "succeeded"}
  BY <1>1, <1>3, VisitGroupsStep
<1>10. StreamsInv'
  BY <1>8, <1>9 DEF StreamsInv
<1> QED
  BY <1>1, <1>3, <1>6, <1>7, <1>8, <1>9, <1>10, ClassStep

-----------------------------------------------------------------------------
(* The theorems.                                                           *)

\* The invariant holds before synthesis.
LEMMA InitStep ==
  ASSUME Init
  PROVE  IInv
<1>1. module \in Module /\ Analysis!ModuleOK(module, FALSE)
  BY ModulesAssumption DEF Init
<1>2. <<Line("stale", 0, 0)>> \in Seq(Plain)
  BY PlainLine DEF FileOps, PremiseOps
<1>3. <<Line("stale", 0, 0)>> \in Seq(Lines)
  BY <1>2, SeqMonotonic DEF Plain
<1>4. TypeOK
  BY <1>1, <1>3 DEF Init, TypeOK, CursorOK
<1>5. TempsAreFresh
  BY DEF Init, TempsAreFresh, Line
<1> QED
  BY <1>1, <1>4, <1>5 DEF Init, IInv, OpenInv, StreamsInv, NothingLeftOpen

\* Stuttering changes nothing.
LEMMA StutterStep ==
  ASSUME IInv, UNCHANGED vars
  PROVE  IInv'
<1> USE DEF vars, cursor, context, output
<1>1. Group' = Group /\ Premises' = Premises
  BY DEF Premises, Defn, Group
<1>2. TypeOK'
  BY <1>1 DEF IInv, TypeOK, CursorOK
<1>3. OpenInv'
  BY <1>1 DEF IInv, OpenInv, ElementsOf
<1>4. StreamsInv' /\ NothingLeftOpen' /\ TempsAreFresh'
  BY DEF IInv, StreamsInv, NothingLeftOpen, TempsAreFresh
<1>5. Analysis!ModuleOK(module, FALSE)'
  BY DEF IInv, Analysis!ModuleOK, Analysis!GroupOK
<1> QED
  BY <1>2, <1>3, <1>4, <1>5 DEF IInv

\* No step breaks the invariant.
LEMMA IInvStep ==
  ASSUME IInv, [Next]_vars
  PROVE  IInv'
<1>1. CASE SynthesizeErrorCodeFiles
  BY <1>1, SynthesizeErrorCodeFilesStep
<1>2. CASE PrevisitGroup
  BY <1>2, PrevisitGroupStep
<1>3. CASE PrevisitDefn
  BY <1>3, PrevisitDefnStep
<1>4. CASE BeginWhile
  BY <1>4, BeginWhileStep
<1>5. CASE EndWhile
  BY <1>5, EndWhileStep
<1>6. CASE DeduceComputed
  BY <1>6, DeduceComputedStep
<1>7. CASE Declare
  BY <1>7, DeclareStep
<1>8. CASE PrevisitEquality
  BY <1>8, PrevisitEqualityStep
<1>9. CASE PostvisitDefn
  BY <1>9, PostvisitDefnStep
<1>10. CASE PostvisitGroup
  BY <1>10, PostvisitGroupStep
<1>11. CASE UNCHANGED vars
  BY <1>11, StutterStep
<1> QED
  BY <1>1, <1>2, <1>3, <1>4, <1>5, <1>6, <1>7, <1>8, <1>9, <1>10, <1>11
  DEF Next, Terminating

\* Whatever fails, in every state of a synthesis the variables have their
\* types, the stack holds the clauses in progress, and the streams are open
\* exactly while a class is written.
THEOREM InductiveInvariant == Spec => []IInv
BY InitStep, IInvStep, PTL DEF Spec

\* Every fixture that a method sets up for a while-clause is torn down before
\* the method ends, for every nesting of clauses.
THEOREM FixturesAreTornDown == Spec => []NothingLeftOpen
<1>1. IInv => NothingLeftOpen
  BY DEF IInv
<1> QED
  BY <1>1, InductiveInvariant, PTL

\* No two temporaries in a file share a name, whatever is lost on the way.
THEOREM TemporariesAreFresh == Spec => []TempsAreFresh
<1>1. IInv => TempsAreFresh
  BY DEF IInv
<1> QED
  BY <1>1, InductiveInvariant, PTL

-----------------------------------------------------------------------------
(* Counting.                                                               *)

\* The values of a function on a finite set are a finite set.
LEMMA ImageIsFinite ==
  ASSUME NEW S, IsFiniteSet(S), NEW f, DOMAIN f = S, f = [x \in S |-> f[x]]
  PROVE  IsFiniteSet({f[x] : x \in S})
<1> DEFINE T == {f[x] : x \in S}
<1>1. f \in Surjection(S, T)
  <2>1. f \in [S -> T]
    OBVIOUS
  <2>2. \A t \in T : \E x \in S : f[x] = t
    OBVIOUS
  <2> QED
    BY <2>1, <2>2 DEF Surjection
<1> HIDE DEF T
<1>2. IsFiniteSet(T)
  BY <1>1, FS_Surjection
<1> QED
  BY <1>2 DEF T

\* The positions of a list are a finite set.
LEMMA PositionsAreFinite ==
  ASSUME NEW S, NEW s \in Seq(S)
  PROVE  IsFiniteSet(DOMAIN s)
<1>1. DOMAIN s = 1 .. Len(s) /\ Len(s) \in Nat
  OBVIOUS
<1>2. 1 \in Int /\ Len(s) \in Int
  BY <1>1
<1>3. IsFiniteSet(1 .. Len(s))
  BY <1>2, FS_Interval
<1> QED
  BY <1>1, <1>3

\* The places of the premises of one method.
Row(mod, a, b) == {<<a, b>>} \X DOMAIN mod[a].defns[b].premises

\* The places of the premises of a module.
Places(mod) == UNION {UNION {Row(mod, a, b) : b \in DOMAIN mod[a].defns} : a \in DOMAIN mod}

\* The parts of a module are what they should be.
LEMMA ModuleParts ==
  ASSUME NEW mod \in Module, NEW a \in DOMAIN mod
  PROVE  /\ mod \in Seq(InferenceGroup)
         /\ mod[a].defns \in Seq(InferenceDefn)
         /\ mod[a].env \in Seq(EnvironmentDefn)
         /\ a \in Nat
         /\ \A b \in DOMAIN mod[a].defns :
              /\ mod[a].defns[b].premises \in Seq(Premise)
              /\ WellNested(mod[a].defns[b].premises)
              /\ b \in Nat
<1>1. mod \in Seq(InferenceGroup)
  BY DEF Module
<1>2. mod[a] \in InferenceGroup /\ a \in Nat
  BY <1>1
<1>3. mod[a].defns \in Seq(InferenceDefn) /\ mod[a].env \in Seq(EnvironmentDefn)
  BY <1>2 DEF InferenceGroup
<1>4. \A b \in DOMAIN mod[a].defns :
        /\ mod[a].defns[b].premises \in Seq(Premise)
        /\ WellNested(mod[a].defns[b].premises)
        /\ b \in Nat
  <2> DEFINE defns == mod[a].defns
  <2>1. defns \in Seq(InferenceDefn)
    BY <1>3
  <2> HIDE DEF defns
  <2>2. \A b \in DOMAIN defns :
          defns[b].premises \in Seq(Premise) /\ WellNested(defns[b].premises) /\ b \in Nat
    BY <2>1, DefnPremises
  <2> QED
    BY <2>2 DEF defns
<1> QED
  BY <1>1, <1>2, <1>3, <1>4

\* A module has finitely many premises.
LEMMA PlacesAreFinite ==
  ASSUME NEW mod \in Module
  PROVE  IsFiniteSet(Places(mod))
<1>1. ASSUME NEW a \in DOMAIN mod
      PROVE  IsFiniteSet(UNION {Row(mod, a, b) : b \in DOMAIN mod[a].defns})
  <2> DEFINE D == DOMAIN mod[a].defns
             f == [b \in D |-> Row(mod, a, b)]
             T == {f[b] : b \in D}
  <2>1. IsFiniteSet(D)
    BY ModuleParts, PositionsAreFinite
  <2>2. \A b \in D : IsFiniteSet(Row(mod, a, b))
    <3> TAKE b \in D
    <3>1. IsFiniteSet(DOMAIN mod[a].defns[b].premises)
      BY ModuleParts, PositionsAreFinite
    <3>2. IsFiniteSet({<<a, b>>})
      BY FS_Singleton
    <3> QED
      BY <3>1, <3>2, FS_Product DEF Row
  <2>3. IsFiniteSet(T)
    <3>1. DOMAIN f = D /\ f = [x \in D |-> f[x]]
      OBVIOUS
    <3> HIDE DEF f, D
    <3> QED
      BY <2>1, <3>1, ImageIsFinite
  <2>4. \A t \in T : IsFiniteSet(t)
    BY <2>2
  <2>5. T = {Row(mod, a, b) : b \in D}
    OBVIOUS
  <2>6. IsFiniteSet(UNION T)
    <3> HIDE DEF T
    <3> QED
      BY <2>3, <2>4, FS_UNION
  <2> QED
    BY <2>5, <2>6, Zenon
<1> DEFINE G == DOMAIN mod
           f == [a \in G |-> UNION {Row(mod, a, b) : b \in DOMAIN mod[a].defns}]
           T == {f[a] : a \in G}
<1>2. IsFiniteSet(G)
  <2>1. mod \in Seq(InferenceGroup)
    BY DEF Module
  <2> QED
    BY <2>1, PositionsAreFinite
<1>3. IsFiniteSet(T)
  <2>1. DOMAIN f = G /\ f = [x \in G |-> f[x]]
    OBVIOUS
  <2> HIDE DEF f, G
  <2> QED
    BY <1>2, <2>1, ImageIsFinite
<1>4. \A t \in T : IsFiniteSet(t)
  <2> TAKE t \in T
  <2>1. PICK a \in G : t = f[a]
    OBVIOUS
  <2>2. f[a] = UNION {Row(mod, a, b) : b \in DOMAIN mod[a].defns}
    OBVIOUS
  <2> QED
    BY <1>1, <2>1, <2>2, Zenon
<1>5. Places(mod) = UNION T
  <2>1. T = {UNION {Row(mod, a, b) : b \in DOMAIN mod[a].defns} : a \in DOMAIN mod}
    OBVIOUS
  <2> QED
    BY <2>1, Zenon DEF Places
<1>6. IsFiniteSet(UNION T)
  <2> HIDE DEF T
  <2> QED
    BY <1>3, <1>4, FS_UNION
<1> QED
  BY <1>5, <1>6, Zenon

\* Place <<a, b>>, j comes before premise i of method e of group k.
Before(a, b, j, k, e, i) ==
  \/ a < k
  \/ a = k /\ b < e
  \/ a = k /\ b = e /\ j < i

\* The computed targets before premise i of method e of group k.
ComputedBefore(mod, k, e, i) ==
  {at \in Places(mod) :
     /\ DeducesComputed(mod[at[1][1]].defns[at[1][2]].premises[at[2]])
     /\ Before(at[1][1], at[1][2], at[2], k, e, i)}

\* They are what the names of temporaries count.
LEMMA TempsCount ==
  ASSUME NEW mod \in Module, NEW k, NEW e, NEW i
  PROVE  /\ TempsBefore(mod, k, e, i) = 2 * Cardinality(ComputedBefore(mod, k, e, i))
         /\ IsFiniteSet(ComputedBefore(mod, k, e, i))
         /\ Cardinality(ComputedBefore(mod, k, e, i)) \in Nat
         /\ TempsBefore(mod, k, e, i) \in Nat
<1>1. TempsBefore(mod, k, e, i) = 2 * Cardinality(ComputedBefore(mod, k, e, i))
  BY DEF TempsBefore, ComputedBefore, Before, Places, Row
<1>2. IsFiniteSet(ComputedBefore(mod, k, e, i))
  <2>1. ComputedBefore(mod, k, e, i) \in SUBSET Places(mod)
    BY DEF ComputedBefore
  <2> QED
    BY <2>1, PlacesAreFinite, FS_Subset
<1>3. Cardinality(ComputedBefore(mod, k, e, i)) \in Nat
  BY <1>2, FS_CardinalityType
<1> QED
  BY <1>1, <1>2, <1>3

\* A place is a group, a method of it and a premise of that.
LEMMA PlacesOf ==
  ASSUME NEW mod \in Module
  PROVE  \A at \in Places(mod) :
           \E a, b, j \in Nat \ {0} :
             /\ a \in DOMAIN mod /\ b \in DOMAIN mod[a].defns
             /\ j \in DOMAIN mod[a].defns[b].premises
             /\ at = <<<<a, b>>, j>>
             /\ at[1][1] = a /\ at[1][2] = b /\ at[2] = j
<1> TAKE at \in Places(mod)
<1>1. PICK a \in DOMAIN mod : at \in UNION {Row(mod, a, b) : b \in DOMAIN mod[a].defns}
  BY DEF Places
<1>2. PICK b \in DOMAIN mod[a].defns : at \in Row(mod, a, b)
  BY <1>1
<1>3. PICK j \in DOMAIN mod[a].defns[b].premises : at = <<<<a, b>>, j>>
  BY <1>2 DEF Row
<1>4. /\ mod \in Seq(InferenceGroup) /\ mod[a].defns \in Seq(InferenceDefn)
      /\ mod[a].defns[b].premises \in Seq(Premise)
  BY ModuleParts
<1>5. a \in Nat \ {0} /\ b \in Nat \ {0} /\ j \in Nat \ {0}
  BY <1>4
<1> QED
  BY <1>3, <1>5

\* No temporary comes before the first premise of all.
LEMMA TempsAtStart ==
  ASSUME NEW mod \in Module
  PROVE  TempsBefore(mod, 1, 1, 1) = 0
<1>1. ASSUME NEW at \in ComputedBefore(mod, 1, 1, 1)
      PROVE  FALSE
  <2>1. PICK a, b, j \in Nat \ {0} :
          /\ a \in DOMAIN mod /\ b \in DOMAIN mod[a].defns
          /\ j \in DOMAIN mod[a].defns[b].premises
          /\ at[1][1] = a /\ at[1][2] = b /\ at[2] = j
    BY PlacesOf DEF ComputedBefore
  <2>2. Before(a, b, j, 1, 1, 1)
    BY <2>1 DEF ComputedBefore
  <2> QED
    BY <2>2 DEF Before
<1>2. ComputedBefore(mod, 1, 1, 1) = {}
  BY <1>1
<1>3. Cardinality(ComputedBefore(mod, 1, 1, 1)) = 0
  BY <1>2, FS_EmptySet
<1> QED
  BY <1>3, TempsCount

\* Two more after a premise that makes up names.
LEMMA TempsAfterPremise ==
  ASSUME NEW mod \in Module, NEW k \in DOMAIN mod, NEW e \in DOMAIN mod[k].defns,
         NEW i \in DOMAIN mod[k].defns[e].premises
  PROVE  TempsBefore(mod, k, e, i + 1) =
           TempsBefore(mod, k, e, i)
             + (IF DeducesComputed(mod[k].defns[e].premises[i]) THEN 2 ELSE 0)
<1> DEFINE A == ComputedBefore(mod, k, e, i)
           B == ComputedBefore(mod, k, e, i + 1)
           here == <<<<k, e>>, i>>
<1>1. k \in Nat /\ e \in Nat /\ i \in Nat
  <2>1. mod[k].defns[e].premises \in Seq(Premise) /\ k \in Nat /\ e \in Nat
    BY ModuleParts
  <2> QED
    BY <2>1
<1>2. here \in Places(mod) /\ here[1][1] = k /\ here[1][2] = e /\ here[2] = i
  BY DEF Places, Row
<1>3. \A at \in Places(mod) :
        Before(at[1][1], at[1][2], at[2], k, e, i + 1)
          <=> Before(at[1][1], at[1][2], at[2], k, e, i) \/ at = here
  <2> TAKE at \in Places(mod)
  <2>1. PICK a, b, j \in Nat \ {0} :
          /\ a \in DOMAIN mod /\ b \in DOMAIN mod[a].defns
          /\ j \in DOMAIN mod[a].defns[b].premises
          /\ at = <<<<a, b>>, j>>
          /\ at[1][1] = a /\ at[1][2] = b /\ at[2] = j
    BY PlacesOf
  <2>2. at = here <=> a = k /\ b = e /\ j = i
    BY <2>1
  <2>3. j < i + 1 <=> j < i \/ j = i
    BY <1>1, <2>1
  <2> HIDE DEF here
  <2> QED
    BY <2>1, <2>2, <2>3 DEF Before
<1>4. ~Before(k, e, i, k, e, i)
  BY <1>1 DEF Before
<1>5. CASE DeducesComputed(mod[k].defns[e].premises[i])
  <2>1. B = A \cup {here} /\ here \notin A
    <3> HIDE DEF here
    <3> QED
      BY <1>2, <1>3, <1>4, <1>5 DEF ComputedBefore
  <2>2. Cardinality(B) = Cardinality(A) + 1
    <3> HIDE DEF here, A, B
    <3>1. IsFiniteSet(A)
      BY TempsCount DEF A
    <3> QED
      BY <2>1, <3>1, FS_AddElement
  <2>3. Cardinality(A) \in Nat
    BY TempsCount
  <2>4. TempsBefore(mod, k, e, i) = 2 * Cardinality(A)
        /\ TempsBefore(mod, k, e, i + 1) = 2 * Cardinality(B)
    BY TempsCount
  <2> HIDE DEF A, B
  <2> QED
    BY <1>5, <2>2, <2>3, <2>4
<1>6. CASE ~DeducesComputed(mod[k].defns[e].premises[i])
  <2>1. B = A
    <3> HIDE DEF here
    <3> QED
      BY <1>2, <1>3, <1>4, <1>6 DEF ComputedBefore
  <2>2. TempsBefore(mod, k, e, i) = 2 * Cardinality(A)
        /\ TempsBefore(mod, k, e, i + 1) = 2 * Cardinality(B)
        /\ TempsBefore(mod, k, e, i) \in Nat
    BY TempsCount
  <2> HIDE DEF A, B
  <2> QED
    BY <1>6, <2>1, <2>2
<1> QED
  BY <1>5, <1>6

\* The end of a method is the beginning of the next, for the counting.
LEMMA TempsAfterMethod ==
  ASSUME NEW mod \in Module, NEW k \in DOMAIN mod, NEW e \in DOMAIN mod[k].defns
  PROVE  TempsBefore(mod, k, e, Len(mod[k].defns[e].premises) + 1)
           = TempsBefore(mod, k, e + 1, 1)
<1> DEFINE n == Len(mod[k].defns[e].premises)
<1>1. /\ mod[k].defns[e].premises \in Seq(Premise) /\ k \in Nat /\ e \in Nat /\ n \in Nat
      /\ DOMAIN mod[k].defns[e].premises = 1 .. n
  BY ModuleParts
<1>2. \A at \in Places(mod) :
        Before(at[1][1], at[1][2], at[2], k, e, n + 1)
          <=> Before(at[1][1], at[1][2], at[2], k, e + 1, 1)
  <2> TAKE at \in Places(mod)
  <2>1. PICK a, b, j \in Nat \ {0} :
          /\ a \in DOMAIN mod /\ b \in DOMAIN mod[a].defns
          /\ j \in DOMAIN mod[a].defns[b].premises
          /\ at[1][1] = a /\ at[1][2] = b /\ at[2] = j
    BY PlacesOf
  <2>2. a = k /\ b = e => j < n + 1
    BY <1>1, <2>1
  <2> HIDE DEF n
  <2> QED
    BY <1>1, <2>1, <2>2 DEF Before
<1>3. ComputedBefore(mod, k, e, n + 1) = ComputedBefore(mod, k, e + 1, 1)
  <2> HIDE DEF n
  <2> QED
    BY <1>2 DEF ComputedBefore
<1> QED
  BY <1>3, TempsCount

\* The end of a group is the beginning of the next.
LEMMA TempsAfterGroup ==
  ASSUME NEW mod \in Module, NEW k \in DOMAIN mod
  PROVE  TempsBefore(mod, k, Len(mod[k].defns) + 1, 1) = TempsBefore(mod, k + 1, 1, 1)
<1> DEFINE n == Len(mod[k].defns)
<1>1. /\ mod[k].defns \in Seq(InferenceDefn) /\ k \in Nat /\ n \in Nat
      /\ DOMAIN mod[k].defns = 1 .. n
  BY ModuleParts
<1>2. \A at \in Places(mod) :
        Before(at[1][1], at[1][2], at[2], k, n + 1, 1)
          <=> Before(at[1][1], at[1][2], at[2], k + 1, 1, 1)
  <2> TAKE at \in Places(mod)
  <2>1. PICK a, b, j \in Nat \ {0} :
          /\ a \in DOMAIN mod /\ b \in DOMAIN mod[a].defns
          /\ j \in DOMAIN mod[a].defns[b].premises
          /\ at[1][1] = a /\ at[1][2] = b /\ at[2] = j
    BY PlacesOf
  <2>2. a = k => b < n + 1
    BY <1>1, <2>1
  <2> HIDE DEF n
  <2> QED
    BY <1>1, <2>1, <2>2 DEF Before
<1>3. ComputedBefore(mod, k, n + 1, 1) = ComputedBefore(mod, k + 1, 1, 1)
  <2> HIDE DEF n
  <2> QED
    BY <1>2 DEF ComputedBefore
<1> QED
  BY <1>3, TempsCount

-----------------------------------------------------------------------------
(* The closed form, up to a place in the tree.                             *)

\* The clauses that premise i closes, among the last n premises up to it.
ExitsBack(ps, i, n) == FlattenSeq([x \in 1 .. n |-> Teardown(ps, i, i + 1 - x)])

\* What premise i of a method stands for.
PremiseCode(mod, k, e, i, cs) ==
  LET ps == mod[k].defns[e].premises
  IN  Entry(ps, i, TempsBefore(mod, k, e, i), cs) \o Exits(ps, i)

\* What the first n premises of a method stand for.
PremisesTo(mod, k, e, n, cs) ==
  FlattenSeq([i \in 1 .. n |-> PremiseCode(mod, k, e, i, cs)])

\* What the first n methods of a class stand for.
MethodsTo(mod, k, n, cs) ==
  FlattenSeq([e \in 1 .. n |-> MethodCode(mod, k, e, cs)])

\* The premises of a method before the one at i, when of the clauses that the
\* last of them closes those up to the one at top are still open.
UpTo(mod, k, e, i, top, cs) ==
  LET ps == mod[k].defns[e].premises
  IN  IF i = 1 THEN <<>>
      ELSE (PremisesTo(mod, k, e, i - 2, cs)
             \o Entry(ps, i - 1, TempsBefore(mod, k, e, i - 1), cs))
             \o ExitsBack(ps, i - 1, i - 1 - top)

\* A class up to n methods, and up to a place in the next one.
ClassTo(mod, k, n, cs) == <<Line("preamble", k, 0)>> \o MethodsTo(mod, k, n, cs)

ClassUpTo(mod, k, e, i, top, cs) ==
  (ClassTo(mod, k, e - 1, cs) \o <<Line("beginMethod", e, 0)>>)
    \o UpTo(mod, k, e, i, top, cs)

\* The declaration of a class, up to n methods.
HeaderTo(k, n) ==
  <<Line("preamble", k, 0)>> \o [e \in 1 .. n |-> Line("declaration", e, 0)]

-----------------------------------------------------------------------------
(* Lines of the closed form.                                               *)

\* Lines joined in one order or the other are the same lines.
LEMMA LinesAssociate ==
  ASSUME NEW s \in Seq(Lines), NEW t \in Seq(Lines), NEW u \in Seq(Lines)
  PROVE  (s \o t) \o u = s \o (t \o u)
BY ONLY ConcatAssociative, s \in Seq(Lines), t \in Seq(Lines), u \in Seq(Lines)

\* What the proofs need of joining lines.
LEMMA LinesJoined ==
  /\ <<>> \in Seq(Lines)
  /\ \A s \in Seq(Lines) : s \o <<>> = s
  /\ \A s, t \in Seq(Lines) : s \o t \in Seq(Lines)
  /\ \A s, t, u \in Seq(Lines) : (s \o t) \o u = s \o (t \o u)
<1>1. \A s \in Seq(Lines) : s \o <<>> = s
  BY ConcatEmptySeq, Zenon
<1>2. \A s, t \in Seq(Lines) : s \o t \in Seq(Lines)
  BY ConcatProperties
<1>3. \A s, t, u \in Seq(Lines) : (s \o t) \o u = s \o (t \o u)
  <2> SUFFICES ASSUME NEW s \in Seq(Lines), NEW t \in Seq(Lines), NEW u \in Seq(Lines)
               PROVE  (s \o t) \o u = s \o (t \o u)
    BY Zenon
  <2> QED
    BY ONLY ConcatAssociative, s \in Seq(Lines), t \in Seq(Lines), u \in Seq(Lines)
<1>4. <<>> \in Seq(Lines)
  OBVIOUS
<1> QED
  BY <1>1, <1>2, <1>3, <1>4, Zenon

\* A single line.
LEMMA OneLine ==
  ASSUME NEW op \in FileOps \cup PremiseOps, NEW at \in Nat, NEW n \in Nat
  PROVE  <<Line(op, at, n)>> \in Seq(Lines)
<1>1. Line(op, at, n) \in Lines
  BY LineType
<1> QED
  BY <1>1

\* The premises that ended are finitely many.
LEMMA EndedType ==
  ASSUME NEW ps \in Seq(Premise), NEW T \in SUBSET DOMAIN ps
  PROVE  IsFiniteSet(T) /\ Cardinality(T) \in Nat
<1>1. IsFiniteSet(T)
  BY PositionsAreFinite, FS_Subset
<1> QED
  BY <1>1, FS_CardinalityType

\* The number of a premise is a number.
LEMMA NumberType ==
  ASSUME NEW ps \in Seq(Premise), NEW i
  PROVE  NumberOf(ps, i) \in Nat
<1> DEFINE T == {j \in DOMAIN ps : ps[j].kind = "inference" /\ ps[j].last < i}
<1>1. Cardinality(T) \in Nat
  <2>1. T \in SUBSET DOMAIN ps
    OBVIOUS
  <2> HIDE DEF T
  <2> QED
    BY <2>1, EndedType
<1> QED
  BY <1>1 DEF NumberOf

\* What stands where a premise begins is lines.
LEMMA EntryType ==
  ASSUME NEW ps \in Seq(Premise), NEW i \in DOMAIN ps, NEW first \in Nat, NEW cs
  PROVE  Entry(ps, i, first, cs) \in Seq(Lines)
<1> DEFINE pr == ps[i]
           a  == IF cs /\ pr.kind = "inference"
                 THEN <<Line("comment", i, NumberOf(ps, i))>> ELSE <<>>
           b  == CASE pr.kind = "equality" ->
                        <<Line(IF pr.range = NoRange THEN "check" ELSE "checkEach", i, 0)>>
                   [] OpensWhile(pr) -> <<Line("setup", i, 0)>>
                   [] DeducesComputed(pr) ->
                        <<Line("temp", i, first), Line("temp", i, first + 1),
                          Line("checkTemps", i, first)>>
                   [] OTHER -> <<Line("declare", i, 0)>>
<1>1. i \in Nat
  OBVIOUS
<1>2. a \in Seq(Lines)
  <2>1. <<Line("comment", i, NumberOf(ps, i))>> \in Seq(Lines)
    BY <1>1, NumberType, OneLine DEF PremiseOps
  <2> QED
    BY <2>1, LinesJoined
<1>3. b \in Seq(Lines)
  <2>1. CASE pr.kind = "equality"
    <3>1. b = <<Line(IF pr.range = NoRange THEN "check" ELSE "checkEach", i, 0)>>
      BY <2>1 DEF OpensWhile, DeducesComputed
    <3>2. (IF pr.range = NoRange THEN "check" ELSE "checkEach") \in FileOps \cup PremiseOps
      BY DEF PremiseOps
    <3> HIDE DEF b
    <3> QED
      BY <1>1, <3>1, <3>2, OneLine
  <2>2. CASE OpensWhile(pr)
    <3>1. b = <<Line("setup", i, 0)>>
      BY <2>2 DEF OpensWhile, DeducesComputed
    <3> HIDE DEF b
    <3> QED
      BY <1>1, <3>1, OneLine DEF PremiseOps
  <2>3. CASE DeducesComputed(pr)
    <3>1. b = <<Line("temp", i, first), Line("temp", i, first + 1),
                Line("checkTemps", i, first)>>
      BY <2>3 DEF OpensWhile, DeducesComputed
    <3>2. /\ Line("temp", i, first) \in Lines
          /\ Line("temp", i, first + 1) \in Lines
          /\ Line("checkTemps", i, first) \in Lines
      <4>1. first + 1 \in Nat
        OBVIOUS
      <4> QED
        BY <1>1, <4>1, LineType DEF PremiseOps
    <3> HIDE DEF b
    <3> QED
      BY <3>1, <3>2
  <2>4. CASE pr.kind # "equality" /\ ~OpensWhile(pr) /\ ~DeducesComputed(pr)
    <3>1. b = <<Line("declare", i, 0)>>
      BY <2>4
    <3> HIDE DEF b
    <3> QED
      BY <1>1, <3>1, OneLine DEF PremiseOps
  <2> QED
    BY <2>1, <2>2, <2>3, <2>4
<1>4. Entry(ps, i, first, cs) = a \o b
  BY DEF Entry
<1> HIDE DEF a, b
<1> QED
  BY <1>2, <1>3, <1>4, LinesJoined

\* So is the end of a clause.
LEMMA TeardownType ==
  ASSUME NEW ps, NEW i, NEW k \in Nat
  PROVE  Teardown(ps, i, k) \in Seq(Lines)
<1>1. <<Line("teardown", k, 0)>> \in Seq(Lines)
  BY OneLine DEF PremiseOps
<1> QED
  BY <1>1, LinesJoined DEF Teardown

\* One premise further back.
LEMMA ExitsBackStep ==
  ASSUME NEW ps, NEW i \in Nat, NEW n \in Nat, n + 1 <= i
  PROVE  /\ ExitsBack(ps, i, n + 1) = ExitsBack(ps, i, n) \o Teardown(ps, i, i - n)
         /\ ExitsBack(ps, i, n) \in Seq(Lines)
<1> DEFINE s == [x \in 1 .. n |-> Teardown(ps, i, i + 1 - x)]
           t == [x \in 1 .. n + 1 |-> Teardown(ps, i, i + 1 - x)]
<1>1. \A x \in 1 .. n + 1 : Teardown(ps, i, i + 1 - x) \in Seq(Lines)
  <2> TAKE x \in 1 .. n + 1
  <2>1. i + 1 - x \in Nat
    OBVIOUS
  <2> QED
    BY <2>1, TeardownType
<1>2. s \in [1 .. n -> Seq(Lines)] /\ t \in [1 .. n + 1 -> Seq(Lines)]
  BY <1>1
<1>3. \A x \in 1 .. n : s[x] = t[x]
  OBVIOUS
<1>4. t[n + 1] = Teardown(ps, i, i - n)
  <2>1. i + 1 - (n + 1) = i - n /\ n + 1 \in 1 .. n + 1
    OBVIOUS
  <2> QED
    BY <2>1
<1>5. ExitsBack(ps, i, n) = FlattenSeq(s) /\ ExitsBack(ps, i, n + 1) = FlattenSeq(t)
  BY DEF ExitsBack
<1> HIDE DEF s, t
<1> QED
  BY <1>2, <1>3, <1>4, <1>5, FlattenStep, FlattenType

\* The ends of clauses are lines.
LEMMA ExitsBackType ==
  ASSUME NEW ps, NEW i \in Nat, NEW n \in 0 .. i
  PROVE  ExitsBack(ps, i, n) \in Seq(Lines)
<1> DEFINE s == [x \in 1 .. n |-> Teardown(ps, i, i + 1 - x)]
<1>1. \A x \in 1 .. n : Teardown(ps, i, i + 1 - x) \in Seq(Lines)
  <2> TAKE x \in 1 .. n
  <2>1. i + 1 - x \in Nat
    OBVIOUS
  <2> QED
    BY <2>1, TeardownType
<1>2. s \in [1 .. n -> Seq(Lines)]
  BY <1>1
<1>3. ExitsBack(ps, i, n) = FlattenSeq(s)
  BY DEF ExitsBack
<1> HIDE DEF s
<1> QED
  BY <1>2, <1>3, FlattenType

\* Among no premises there is none.
LEMMA ExitsBackNone ==
  ASSUME NEW ps, NEW i \in Nat
  PROVE  ExitsBack(ps, i, 0) = <<>>
<1> DEFINE s == [x \in 1 .. 0 |-> Teardown(ps, i, i + 1 - x)]
<1>1. s \in [1 .. 0 -> {}]
  OBVIOUS
<1>2. ExitsBack(ps, i, 0) = FlattenSeq(s)
  BY DEF ExitsBack
<1> HIDE DEF s
<1> QED
  BY <1>1, <1>2, FlattenIs

\* Premise i closes none of the clauses of the premises over lo, up to hi.
NoneEnds(ps, i, lo, hi) ==
  \A j \in lo + 1 .. hi : ~(OpensWhile(ps[j]) /\ ps[j].last = i)

\* Going back over these adds nothing.
LEMMA ExitsBackSkip ==
  ASSUME NEW ps, NEW i \in Nat, NEW hi \in 0 .. i, NEW lo \in 0 .. hi,
         NoneEnds(ps, i, lo, hi)
  PROVE  ExitsBack(ps, i, i - lo) = ExitsBack(ps, i, i - hi)
<1> DEFINE at(m) == i - hi + m
           wrong == {m \in 0 .. hi - lo :
                       ExitsBack(ps, i, at(m)) # ExitsBack(ps, i, i - hi)}
<1>1. hi - lo \in 0 .. hi - lo /\ at(hi - lo) = i - lo
  OBVIOUS
<1>2. SUFFICES ASSUME wrong # {} PROVE FALSE
  <2>1. hi - lo \notin wrong => ExitsBack(ps, i, at(hi - lo)) = ExitsBack(ps, i, i - hi)
    BY <1>1
  <2> HIDE DEF wrong, at
  <2> QED
    BY <1>1, <2>1
<1>3. PICK m \in wrong : \A x \in wrong : m <= x
  <2>1. wrong \in SUBSET Nat
    OBVIOUS
  <2> HIDE DEF wrong
  <2> QED
    BY <1>2, <2>1, HasLeast
<1>4. m \in 0 .. hi - lo /\ ExitsBack(ps, i, at(m)) # ExitsBack(ps, i, i - hi)
  BY <1>3
<1>5. CASE m = 0
  <2>1. at(m) = i - hi
    BY <1>5
  <2> QED
    BY <1>4, <2>1
<1>6. CASE m # 0
  <2> DEFINE n == at(m - 1)
  <2>1. m - 1 \in 0 .. hi - lo /\ ~(m <= m - 1)
    BY <1>4, <1>6
  <2>2. ExitsBack(ps, i, n) = ExitsBack(ps, i, i - hi)
    BY <1>3, <2>1
  <2>3. n \in Nat /\ n + 1 <= i /\ at(m) = n + 1 /\ i - n \in lo + 1 .. hi
    BY <1>4, <1>6
  <2> HIDE DEF n
  <2>4. /\ ExitsBack(ps, i, n + 1) = ExitsBack(ps, i, n) \o Teardown(ps, i, i - n)
        /\ ExitsBack(ps, i, n) \in Seq(Lines)
    BY <2>3, ExitsBackStep
  <2>5. Teardown(ps, i, i - n) = <<>>
    BY <2>3 DEF NoneEnds, Teardown
  <2>6. ExitsBack(ps, i, n + 1) = ExitsBack(ps, i, n)
    BY <2>4, <2>5, LinesJoined, Zenon
  <2> QED
    BY <1>4, <2>2, <2>3, <2>6
<1> QED
  BY <1>5, <1>6

-----------------------------------------------------------------------------
(* The closed form, piece by piece.                                        *)

\* The parts of a method: its premises one by one.
LEMMA PremiseCodeType ==
  ASSUME NEW mod \in Module, NEW k \in DOMAIN mod, NEW e \in DOMAIN mod[k].defns,
         NEW ps, ps = mod[k].defns[e].premises, NEW cs, NEW i \in DOMAIN ps
  PROVE  /\ Entry(ps, i, TempsBefore(mod, k, e, i), cs) \in Seq(Lines)
         /\ Exits(ps, i) = ExitsBack(ps, i, i)
         /\ ExitsBack(ps, i, i) \in Seq(Lines)
         /\ PremiseCode(mod, k, e, i, cs) =
              Entry(ps, i, TempsBefore(mod, k, e, i), cs) \o ExitsBack(ps, i, i)
         /\ PremiseCode(mod, k, e, i, cs) \in Seq(Lines)
<1>1. ps \in Seq(Premise) /\ i \in Nat /\ i \in 0 .. i
  <2>1. ps \in Seq(Premise)
    BY ModuleParts
  <2> QED
    BY <2>1
<1>2. Entry(ps, i, TempsBefore(mod, k, e, i), cs) \in Seq(Lines)
  <2>1. TempsBefore(mod, k, e, i) \in Nat
    BY TempsCount
  <2> QED
    BY <1>1, <2>1, EntryType
<1>3. Exits(ps, i) = ExitsBack(ps, i, i)
  BY DEF Exits, ExitsBack
<1>4. ExitsBack(ps, i, i) \in Seq(Lines)
  BY <1>1, ExitsBackType
<1>5. PremiseCode(mod, k, e, i, cs) =
        Entry(ps, i, TempsBefore(mod, k, e, i), cs) \o ExitsBack(ps, i, i)
  BY <1>3, Zenon DEF PremiseCode
<1>6. PremiseCode(mod, k, e, i, cs) \in Seq(Lines)
  <2> DEFINE a == Entry(ps, i, TempsBefore(mod, k, e, i), cs)
             b == ExitsBack(ps, i, i)
  <2>1. a \in Seq(Lines) /\ b \in Seq(Lines) /\ PremiseCode(mod, k, e, i, cs) = a \o b
    BY <1>2, <1>4, <1>5
  <2> HIDE DEF a, b
  <2>2. a \o b \in Seq(Lines)
    BY <2>1, LinesJoined, Zenon
  <2> QED
    BY <2>1, <2>2
<1> QED
  BY <1>2, <1>3, <1>4, <1>5, <1>6

\* One premise more.
LEMMA PremisesToStep ==
  ASSUME NEW mod \in Module, NEW k \in DOMAIN mod, NEW e \in DOMAIN mod[k].defns,
         NEW n \in Nat, NEW cs
  PROVE  /\ PremisesTo(mod, k, e, 0, cs) = <<>>
         /\ n <= Len(mod[k].defns[e].premises) => PremisesTo(mod, k, e, n, cs) \in Seq(Lines)
         /\ n + 1 <= Len(mod[k].defns[e].premises) =>
              PremisesTo(mod, k, e, n + 1, cs) =
                PremisesTo(mod, k, e, n, cs) \o PremiseCode(mod, k, e, n + 1, cs)
<1> DEFINE ps == mod[k].defns[e].premises
           s(m) == [i \in 1 .. m |-> PremiseCode(mod, k, e, i, cs)]
<1>1. ps \in Seq(Premise) /\ DOMAIN ps = 1 .. Len(ps) /\ Len(ps) \in Nat
  BY ModuleParts
<1>2. \A i \in DOMAIN ps : PremiseCode(mod, k, e, i, cs) \in Seq(Lines)
  BY PremiseCodeType
<1>3. \A m \in 0 .. Len(ps) : s(m) \in [1 .. m -> Seq(Lines)]
  BY <1>1, <1>2
<1>4. \A m : PremisesTo(mod, k, e, m, cs) = FlattenSeq(s(m))
  BY DEF PremisesTo
<1>5. PremisesTo(mod, k, e, 0, cs) = <<>>
  <2>1. 0 \in 0 .. Len(ps)
    BY <1>1
  <2> HIDE DEF s
  <2> QED
    BY <1>3, <1>4, <2>1, FlattenIs
<1>6. ASSUME n <= Len(ps)
      PROVE  PremisesTo(mod, k, e, n, cs) \in Seq(Lines)
  <2>1. n \in 0 .. Len(ps)
    BY <1>1, <1>6
  <2> HIDE DEF s
  <2> QED
    BY <1>3, <1>4, <2>1, FlattenType
<1>7. ASSUME n + 1 <= Len(ps)
      PROVE  PremisesTo(mod, k, e, n + 1, cs) =
               PremisesTo(mod, k, e, n, cs) \o PremiseCode(mod, k, e, n + 1, cs)
  <2> DEFINE a == s(n)
             b == s(n + 1)
  <2>1. n \in 0 .. Len(ps) /\ n + 1 \in 0 .. Len(ps)
    BY <1>1, <1>7
  <2>2. a \in [1 .. n -> Seq(Lines)] /\ b \in [1 .. n + 1 -> Seq(Lines)]
    BY <1>3, <2>1
  <2>3. (\A i \in 1 .. n : a[i] = b[i]) /\ b[n + 1] = PremiseCode(mod, k, e, n + 1, cs)
    OBVIOUS
  <2>4. PremisesTo(mod, k, e, n, cs) = FlattenSeq(a)
        /\ PremisesTo(mod, k, e, n + 1, cs) = FlattenSeq(b)
    BY <1>4
  <2> HIDE DEF a, b
  <2>5. FlattenSeq(b) = FlattenSeq(a) \o b[n + 1]
    BY <2>2, <2>3, FlattenStep
  <2> QED
    BY <2>3, <2>4, <2>5
<1> QED
  BY <1>5, <1>6, <1>7

\* A method, from its premises.
LEMMA MethodIs ==
  ASSUME NEW mod \in Module, NEW k \in DOMAIN mod, NEW e \in DOMAIN mod[k].defns, NEW cs
  PROVE  /\ MethodCode(mod, k, e, cs) =
              (<<Line("beginMethod", e, 0)>>
                 \o PremisesTo(mod, k, e, Len(mod[k].defns[e].premises), cs))
                \o <<Line("return", e, 0), Line("endMethod", e, 0)>>
         /\ <<Line("beginMethod", e, 0)>> \in Seq(Lines)
         /\ <<Line("return", e, 0), Line("endMethod", e, 0)>> \in Seq(Lines)
         /\ MethodCode(mod, k, e, cs) \in Seq(Lines)
<1> DEFINE ps == mod[k].defns[e].premises
<1>1. ps \in Seq(Premise) /\ DOMAIN ps = 1 .. Len(ps) /\ Len(ps) \in Nat /\ e \in Nat
  BY ModuleParts
<1>2. MethodCode(mod, k, e, cs) =
        (<<Line("beginMethod", e, 0)>> \o PremisesTo(mod, k, e, Len(ps), cs))
          \o <<Line("return", e, 0), Line("endMethod", e, 0)>>
  BY <1>1, Zenon DEF MethodCode, PremisesTo, PremiseCode
<1>3. <<Line("beginMethod", e, 0)>> \in Seq(Lines)
  BY <1>1, OneLine DEF FileOps
<1>4. <<Line("return", e, 0), Line("endMethod", e, 0)>> \in Seq(Lines)
  <2>1. Line("return", e, 0) \in Lines /\ Line("endMethod", e, 0) \in Lines
    BY <1>1, LineType DEF FileOps
  <2> QED
    BY <2>1
<1>5. PremisesTo(mod, k, e, Len(ps), cs) \in Seq(Lines)
  BY <1>1, PremisesToStep
<1>6. MethodCode(mod, k, e, cs) \in Seq(Lines)
  <2> DEFINE a == <<Line("beginMethod", e, 0)>>
             b == PremisesTo(mod, k, e, Len(ps), cs)
             c == <<Line("return", e, 0), Line("endMethod", e, 0)>>
  <2>1. /\ a \in Seq(Lines) /\ b \in Seq(Lines) /\ c \in Seq(Lines)
        /\ MethodCode(mod, k, e, cs) = (a \o b) \o c
    BY <1>2, <1>3, <1>4, <1>5
  <2> HIDE DEF a, b, c
  <2>2. (a \o b) \o c \in Seq(Lines)
    BY <2>1, LinesJoined, Zenon
  <2> QED
    BY <2>1, <2>2
<1> QED
  BY <1>2, <1>3, <1>4, <1>6

\* A class, from its methods.
LEMMA ClassToStep ==
  ASSUME NEW mod \in Module, NEW k \in DOMAIN mod, NEW n \in Nat, NEW cs
  PROVE  /\ ClassTo(mod, k, 0, cs) = <<Line("preamble", k, 0)>>
         /\ n <= Len(mod[k].defns) => ClassTo(mod, k, n, cs) \in Seq(Lines)
         /\ n + 1 <= Len(mod[k].defns) =>
              ClassTo(mod, k, n + 1, cs) =
                ClassTo(mod, k, n, cs) \o MethodCode(mod, k, n + 1, cs)
         /\ ClassTo(mod, k, Len(mod[k].defns), cs) = ClassCode(mod, k, cs)
<1> DEFINE defns == mod[k].defns
           s(m) == [e \in 1 .. m |-> MethodCode(mod, k, e, cs)]
           head == <<Line("preamble", k, 0)>>
<1>1. defns \in Seq(InferenceDefn) /\ DOMAIN defns = 1 .. Len(defns)
      /\ Len(defns) \in Nat /\ k \in Nat
  BY ModuleParts
<1>2. \A e \in DOMAIN defns : MethodCode(mod, k, e, cs) \in Seq(Lines)
  BY MethodIs
<1>3. \A m \in 0 .. Len(defns) : s(m) \in [1 .. m -> Seq(Lines)]
  BY <1>1, <1>2
<1>4. \A m : ClassTo(mod, k, m, cs) = head \o FlattenSeq(s(m))
  BY Zenon DEF ClassTo, MethodsTo
<1>5. head \in Seq(Lines)
  BY <1>1, OneLine DEF FileOps
<1>6. ClassTo(mod, k, 0, cs) = head
  <2>1. 0 \in 0 .. Len(defns)
    BY <1>1
  <2>2. FlattenSeq(s(0)) = <<>>
    <3> HIDE DEF s
    <3> QED
      BY <1>3, <2>1, FlattenIs
  <2> HIDE DEF s, head
  <2> QED
    BY <1>4, <1>5, <2>2, LinesJoined, Zenon
<1>7. ASSUME n <= Len(defns)
      PROVE  ClassTo(mod, k, n, cs) \in Seq(Lines)
  <2>1. n \in 0 .. Len(defns)
    BY <1>1, <1>7
  <2> HIDE DEF s, head
  <2> DEFINE f == FlattenSeq(s(n))
  <2>2. f \in Seq(Lines) /\ ClassTo(mod, k, n, cs) = head \o f
    BY <1>3, <1>4, <2>1, FlattenType
  <2> HIDE DEF f
  <2>3. head \o f \in Seq(Lines)
    BY ONLY <1>5, <2>2, LinesJoined, Zenon
  <2> QED
    BY <2>2, <2>3
<1>8. ASSUME n + 1 <= Len(defns)
      PROVE  ClassTo(mod, k, n + 1, cs) =
               ClassTo(mod, k, n, cs) \o MethodCode(mod, k, n + 1, cs)
  <2> DEFINE a == s(n)
             b == s(n + 1)
  <2>1. n \in 0 .. Len(defns) /\ n + 1 \in 0 .. Len(defns) /\ n + 1 \in DOMAIN defns
    BY <1>1, <1>8
  <2>2. a \in [1 .. n -> Seq(Lines)] /\ b \in [1 .. n + 1 -> Seq(Lines)]
    BY <1>3, <2>1
  <2>3. (\A i \in 1 .. n : a[i] = b[i]) /\ b[n + 1] = MethodCode(mod, k, n + 1, cs)
    OBVIOUS
  <2>4. ClassTo(mod, k, n, cs) = head \o FlattenSeq(a)
        /\ ClassTo(mod, k, n + 1, cs) = head \o FlattenSeq(b)
    BY <1>4
  <2>5. MethodCode(mod, k, n + 1, cs) \in Seq(Lines)
    BY <1>2, <2>1
  <2> HIDE DEF a, b, head
  <2>6. FlattenSeq(b) = FlattenSeq(a) \o MethodCode(mod, k, n + 1, cs)
        /\ FlattenSeq(a) \in Seq(Lines)
    <3>1. FlattenSeq(b) = FlattenSeq(a) \o b[n + 1]
      BY <2>2, <2>3, FlattenStep
    <3>2. FlattenSeq(a) \in Seq(Lines)
      BY <2>2, FlattenType
    <3> QED
      BY <2>3, <3>1, <3>2
  <2> DEFINE m == MethodCode(mod, k, n + 1, cs)
             fa == FlattenSeq(a)
  <2>7. /\ head \in Seq(Lines) /\ fa \in Seq(Lines) /\ m \in Seq(Lines)
        /\ ClassTo(mod, k, n + 1, cs) = head \o (fa \o m)
        /\ ClassTo(mod, k, n, cs) = head \o fa
    BY <1>5, <2>4, <2>5, <2>6
  <2>8. ClassTo(mod, k, n + 1, cs) = ClassTo(mod, k, n, cs) \o m
    <3> HIDE DEF m, fa
    <3>1. head \o (fa \o m) = (head \o fa) \o m
      BY <2>7, LinesJoined, Zenon
    <3> QED
      BY <2>7, <3>1
  <2> QED
    BY <2>8
<1>9. ClassTo(mod, k, Len(defns), cs) = ClassCode(mod, k, cs)
  BY <1>1, Zenon DEF ClassTo, MethodsTo, ClassCode
<1> QED
  BY <1>6, <1>7, <1>8, <1>9

\* The declaration of a class, from those of its methods.
LEMMA HeaderToStep ==
  ASSUME NEW mod \in Module, NEW k \in DOMAIN mod, NEW n \in Nat
  PROVE  /\ HeaderTo(k, 0) = <<Line("preamble", k, 0)>>
         /\ HeaderTo(k, n) \in Seq(Lines)
         /\ HeaderTo(k, n + 1) = HeaderTo(k, n) \o <<Line("declaration", n + 1, 0)>>
         /\ HeaderTo(k, Len(mod[k].defns)) \o <<Line("endClass", k, 0)>>
              = ClassHeader(mod, k)
<1> DEFINE s(m) == [e \in 1 .. m |-> Line("declaration", e, 0)]
           head == <<Line("preamble", k, 0)>>
           more == <<Line("declaration", n + 1, 0)>>
<1>1. /\ mod[k].defns \in Seq(InferenceDefn) /\ k \in Nat
      /\ DOMAIN mod[k].defns = 1 .. Len(mod[k].defns)
  BY ModuleParts
<1>2. head \in Seq(Lines) /\ more \in Seq(Lines)
  <2>1. n + 1 \in Nat
    OBVIOUS
  <2> QED
    BY <1>1, <2>1, OneLine DEF FileOps
<1>3. \A e \in Nat : Line("declaration", e, 0) \in Lines
  BY LineType DEF FileOps
<1>4. \A m \in Nat : s(m) \in Seq(Lines) /\ Len(s(m)) = m
  BY <1>3
<1>5. \A m : HeaderTo(k, m) = head \o s(m)
  BY DEF HeaderTo
<1>6. s(0) = <<>>
  OBVIOUS
<1>7. s(n + 1) = s(n) \o more
  <2>1. s(n + 1) = Append(s(n), Line("declaration", n + 1, 0))
    <3>1. \A e \in 1 .. n + 1 :
            Append(s(n), Line("declaration", n + 1, 0))[e] = Line("declaration", e, 0)
      OBVIOUS
    <3>2. Append(s(n), Line("declaration", n + 1, 0)) \in Seq(Lines)
          /\ Len(Append(s(n), Line("declaration", n + 1, 0))) = n + 1
      BY <1>3, <1>4, AppendProperties
    <3> QED
      BY <3>1, <3>2
  <2>2. s(n) \in Seq(Lines) /\ Line("declaration", n + 1, 0) \in Lines
    BY <1>3, <1>4
  <2> HIDE DEF s
  <2> QED
    BY <2>1, <2>2, AppendIsConcat, Zenon
<1>8. HeaderTo(k, Len(mod[k].defns)) \o <<Line("endClass", k, 0)>> = ClassHeader(mod, k)
  BY <1>1, Zenon DEF HeaderTo, ClassHeader
<1>9. n \in Nat /\ n + 1 \in Nat
  OBVIOUS
<1> DEFINE now == s(n)
           then == s(n + 1)
<1>10. /\ now \in Seq(Lines) /\ then = now \o more
       /\ HeaderTo(k, 0) = head \o s(0) /\ HeaderTo(k, n) = head \o now
       /\ HeaderTo(k, n + 1) = head \o then
  BY <1>4, <1>5, <1>7, <1>9
<1> HIDE DEF s, head, more, now, then
<1>11. HeaderTo(k, 0) = head
  <2>1. head \o <<>> = head
    BY <1>2, LinesJoined, Zenon
  <2> QED
    BY <1>6, <1>10, <2>1
<1>12. HeaderTo(k, n) \in Seq(Lines)
  <2>1. head \o now \in Seq(Lines)
    BY <1>2, <1>10, LinesJoined, Zenon
  <2> QED
    BY <1>10, <2>1
<1>13. HeaderTo(k, n + 1) = HeaderTo(k, n) \o more
  <2>1. head \o (now \o more) = (head \o now) \o more
    BY <1>2, <1>10, LinesJoined, Zenon
  <2> QED
    BY <1>10, <2>1
<1> QED
  BY <1>8, <1>11, <1>12, <1>13 DEF head, more

\* Before a premise: if no clause is to be closed there, the premises before it
\* are complete.
LEMMA UpToDone ==
  ASSUME NEW mod \in Module, NEW k \in DOMAIN mod, NEW e \in DOMAIN mod[k].defns,
         NEW ps, ps = mod[k].defns[e].premises, NEW cs,
         NEW i \in 1 .. Len(ps) + 1, NEW top \in 0 .. i - 1, NoneEnds(ps, i - 1, 0, top)
  PROVE  UpTo(mod, k, e, i, top, cs) = PremisesTo(mod, k, e, i - 1, cs)
<1>1. ps \in Seq(Premise) /\ DOMAIN ps = 1 .. Len(ps) /\ Len(ps) \in Nat
  BY ModuleParts
<1>2. CASE i = 1
  <2>1. UpTo(mod, k, e, i, top, cs) = <<>>
    BY <1>2, Zenon DEF UpTo
  <2>2. i - 1 = 0
    BY <1>2
  <2>3. PremisesTo(mod, k, e, 0, cs) = <<>>
    <3>1. 0 \in Nat
      OBVIOUS
    <3> QED
      BY <3>1, PremisesToStep
  <2> QED
    BY <2>1, <2>2, <2>3
<1>3. CASE i # 1
  <2> DEFINE j == i - 1
             n == i - 2
             a == PremisesTo(mod, k, e, n, cs)
             b == Entry(ps, j, TempsBefore(mod, k, e, j), cs)
             c == ExitsBack(ps, j, j)
  <2>1. /\ j \in DOMAIN ps /\ j \in Nat /\ n \in Nat /\ n <= Len(ps) /\ n + 1 = j
        /\ j <= Len(ps) /\ top \in 0 .. j /\ 0 \in 0 .. top /\ j - 0 = j
    BY <1>1, <1>3
  <2>2. UpTo(mod, k, e, i, top, cs) = (a \o b) \o ExitsBack(ps, j, j - top)
    BY <1>3, Zenon DEF UpTo
  <2>3. ExitsBack(ps, j, j - top) = c
    <3>1. NoneEnds(ps, j, 0, top)
      OBVIOUS
    <3> HIDE DEF j, n
    <3>2. ExitsBack(ps, j, j - 0) = ExitsBack(ps, j, j - top)
      BY <2>1, <3>1, ExitsBackSkip
    <3> QED
      BY <2>1, <3>2
  <2>4. b \in Seq(Lines) /\ c \in Seq(Lines) /\ PremiseCode(mod, k, e, j, cs) = b \o c
    <3> HIDE DEF j
    <3> QED
      BY <2>1, PremiseCodeType
  <2>5. /\ a \in Seq(Lines)
        /\ PremisesTo(mod, k, e, j, cs) = a \o PremiseCode(mod, k, e, j, cs)
    <3>1. n + 1 <= Len(ps)
      BY <2>1
    <3>2. /\ a \in Seq(Lines)
          /\ PremisesTo(mod, k, e, n + 1, cs) = a \o PremiseCode(mod, k, e, n + 1, cs)
      <4> HIDE DEF n, j
      <4> QED
        BY <2>1, <3>1, PremisesToStep
    <3> HIDE DEF n, j
    <3> QED
      BY <2>1, <3>2
  <2>6. PremisesTo(mod, k, e, j, cs) = a \o (b \o c)
    BY <2>4, <2>5
  <2> HIDE DEF a, b, c
  <2>7. (a \o b) \o c = a \o (b \o c)
    BY ONLY <2>4, <2>5, LinesAssociate
  <2> QED
    BY <2>2, <2>3, <2>6, <2>7
<1> QED
  BY <1>2, <1>3

\* After its entry, if none of the clauses over top is to be closed there.
LEMMA UpToNext ==
  ASSUME NEW mod \in Module, NEW k \in DOMAIN mod, NEW e \in DOMAIN mod[k].defns,
         NEW ps, ps = mod[k].defns[e].premises, NEW cs,
         NEW i \in DOMAIN ps, NEW top \in 0 .. i, NoneEnds(ps, i, top, i)
  PROVE  UpTo(mod, k, e, i + 1, top, cs) =
           PremisesTo(mod, k, e, i - 1, cs) \o Entry(ps, i, TempsBefore(mod, k, e, i), cs)
<1>1. ps \in Seq(Premise) /\ DOMAIN ps = 1 .. Len(ps) /\ Len(ps) \in Nat
  BY ModuleParts
<1> DEFINE n == i - 1
           a == PremisesTo(mod, k, e, n, cs)
           b == Entry(ps, i, TempsBefore(mod, k, e, i), cs)
<1>2. /\ i \in Nat /\ n \in Nat /\ n <= Len(ps)
      /\ (i + 1) - 2 = n /\ (i + 1) - 1 = i /\ i + 1 # 1
      /\ i \in 0 .. i /\ i - i = 0
  BY <1>1
<1>3. UpTo(mod, k, e, i + 1, top, cs) = (a \o b) \o ExitsBack(ps, i, i - top)
  <2> HIDE DEF n
  <2> QED
    BY <1>2, Zenon DEF UpTo
<1>4. ExitsBack(ps, i, i - top) = <<>>
  <2>1. ExitsBack(ps, i, i - top) = ExitsBack(ps, i, i - i)
    BY <1>2, ExitsBackSkip
  <2>2. ExitsBack(ps, i, 0) = <<>>
    BY <1>2, ExitsBackNone
  <2> QED
    BY <1>2, <2>1, <2>2
<1>5. b \in Seq(Lines)
  BY PremiseCodeType
<1>6. a \in Seq(Lines)
  <2> HIDE DEF n
  <2> QED
    BY <1>2, PremisesToStep
<1> HIDE DEF a, b
<1>7. (a \o b) \o <<>> = a \o b
  BY <1>5, <1>6, LinesJoined, Zenon
<1>8. UpTo(mod, k, e, i + 1, top, cs) = a \o b
  BY <1>3, <1>4, <1>7
<1> QED
  BY <1>8 DEF a, b, n

\* After the end of a clause, if the next one to be closed is at low or below.
LEMMA UpToExit ==
  ASSUME NEW mod \in Module, NEW k \in DOMAIN mod, NEW e \in DOMAIN mod[k].defns,
         NEW ps, ps = mod[k].defns[e].premises, NEW cs,
         NEW i \in 1 .. Len(ps) + 1, NEW top \in 1 .. i - 1,
         OpensWhile(ps[top]), ps[top].last = i - 1,
         NEW low \in 0 .. top - 1, NoneEnds(ps, i - 1, low, top - 1)
  PROVE  /\ UpTo(mod, k, e, i, low, cs) =
              UpTo(mod, k, e, i, top, cs) \o <<Line("teardown", top, 0)>>
         /\ UpTo(mod, k, e, i, top, cs) \in Seq(Lines)
<1>1. ps \in Seq(Premise) /\ DOMAIN ps = 1 .. Len(ps) /\ Len(ps) \in Nat
  BY ModuleParts
<1> DEFINE j == i - 1
           n == i - 2
           a == PremisesTo(mod, k, e, n, cs)
           b == Entry(ps, j, TempsBefore(mod, k, e, j), cs)
           m == j - top
           c == ExitsBack(ps, j, m)
           t == <<Line("teardown", top, 0)>>
           h == top - 1
<1>2. /\ i # 1 /\ j \in DOMAIN ps /\ j \in Nat /\ n \in Nat /\ n <= Len(ps)
      /\ m \in Nat /\ m + 1 <= j /\ j - m = top /\ j - h = m + 1 /\ m \in 0 .. j
      /\ h \in 0 .. j /\ low \in 0 .. h /\ top \in Nat
  BY <1>1
<1>3. /\ UpTo(mod, k, e, i, low, cs) = (a \o b) \o ExitsBack(ps, j, j - low)
      /\ UpTo(mod, k, e, i, top, cs) = (a \o b) \o c
  BY <1>2, Zenon DEF UpTo
<1>4. ps[top].last = j /\ NoneEnds(ps, j, low, h)
  OBVIOUS
<1> HIDE DEF j, n, m, h
<1>5. ExitsBack(ps, j, j - low) = ExitsBack(ps, j, m + 1)
  <2>1. ExitsBack(ps, j, j - low) = ExitsBack(ps, j, j - h)
    BY <1>2, <1>4, ExitsBackSkip
  <2> QED
    BY <1>2, <2>1
<1>6. ExitsBack(ps, j, m + 1) = c \o t /\ c \in Seq(Lines)
  <2>1. ExitsBack(ps, j, m + 1) = c \o Teardown(ps, j, j - m) /\ c \in Seq(Lines)
    BY <1>2, ExitsBackStep
  <2>2. Teardown(ps, j, j - m) = t
    BY <1>2, <1>4 DEF Teardown
  <2> QED
    BY <2>1, <2>2
<1>7. t \in Seq(Lines)
  BY <1>2, OneLine DEF PremiseOps
<1>8. a \in Seq(Lines) /\ b \in Seq(Lines)
  BY <1>2, PremiseCodeType, PremisesToStep
<1> HIDE DEF a, b, c, t
<1>9. (a \o b) \o (c \o t) = ((a \o b) \o c) \o t /\ (a \o b) \o c \in Seq(Lines)
  <2>1. a \o b \in Seq(Lines)
    BY <1>8, LinesJoined, Zenon
  <2> QED
    BY <1>6, <1>7, <2>1, LinesJoined, Zenon
<1> QED
  BY <1>3, <1>5, <1>6, <1>9 DEF t

\* Before the first premise of a method.
LEMMA UpToStart ==
  ASSUME NEW mod \in Module, NEW k \in DOMAIN mod, NEW e \in DOMAIN mod[k].defns, NEW cs
  PROVE  ClassUpTo(mod, k, e, 1, 0, cs)
           = ClassTo(mod, k, e - 1, cs) \o <<Line("beginMethod", e, 0)>>
<1> DEFINE a == ClassTo(mod, k, e - 1, cs)
           b == <<Line("beginMethod", e, 0)>>
<1>1. /\ e - 1 \in Nat /\ e - 1 <= Len(mod[k].defns)
  <2>1. mod[k].defns \in Seq(InferenceDefn)
    BY ModuleParts
  <2> QED
    BY <2>1
<1>2. a \in Seq(Lines) /\ b \in Seq(Lines)
  BY <1>1, ClassToStep, MethodIs
<1>3. UpTo(mod, k, e, 1, 0, cs) = <<>>
  BY Zenon DEF UpTo
<1>4. ClassUpTo(mod, k, e, 1, 0, cs) = (a \o b) \o <<>>
  BY <1>3 DEF ClassUpTo
<1> HIDE DEF a, b
<1>5. (a \o b) \o <<>> = a \o b
  BY <1>2, LinesJoined, Zenon
<1> QED
  BY <1>4, <1>5 DEF a, b

\* What stands before the premises of a method.
LEMMA BeforePremises ==
  ASSUME NEW mod \in Module, NEW k \in DOMAIN mod, NEW e \in DOMAIN mod[k].defns, NEW cs
  PROVE  ClassTo(mod, k, e - 1, cs) \o <<Line("beginMethod", e, 0)>> \in Seq(Lines)
<1> DEFINE a == ClassTo(mod, k, e - 1, cs)
           b == <<Line("beginMethod", e, 0)>>
<1>1. /\ e - 1 \in Nat /\ e - 1 <= Len(mod[k].defns)
  <2>1. mod[k].defns \in Seq(InferenceDefn)
    BY ModuleParts
  <2> QED
    BY <2>1
<1>2. a \in Seq(Lines) /\ b \in Seq(Lines)
  BY <1>1, ClassToStep, MethodIs
<1> HIDE DEF a, b
<1>3. a \o b \in Seq(Lines)
  BY <1>2, LinesJoined, Zenon
<1> QED
  BY <1>3 DEF a, b

\* The end of a method.
LEMMA MethodEnds ==
  ASSUME NEW mod \in Module, NEW k \in DOMAIN mod, NEW e \in DOMAIN mod[k].defns, NEW cs
  PROVE  ClassUpTo(mod, k, e, Len(mod[k].defns[e].premises) + 1, 0, cs)
           \o <<Line("return", e, 0), Line("endMethod", e, 0)>> = ClassTo(mod, k, e, cs)
<1> DEFINE ps == mod[k].defns[e].premises
           n == e - 1
           a == ClassTo(mod, k, n, cs)
           b == <<Line("beginMethod", e, 0)>>
           c == PremisesTo(mod, k, e, Len(ps), cs)
           t == <<Line("return", e, 0), Line("endMethod", e, 0)>>
<1>1. ps \in Seq(Premise) /\ Len(ps) \in Nat
  BY ModuleParts
<1>2. n \in Nat /\ n <= Len(mod[k].defns) /\ n + 1 = e /\ n + 1 <= Len(mod[k].defns)
  <2>1. mod[k].defns \in Seq(InferenceDefn)
    BY ModuleParts
  <2> QED
    BY <2>1
<1>3. UpTo(mod, k, e, Len(ps) + 1, 0, cs) = c
  <2> DEFINE i == Len(ps) + 1
             q == ps
  <2>1. i \in 1 .. Len(q) + 1 /\ 0 \in 0 .. i - 1 /\ i - 1 = Len(ps)
    BY <1>1
  <2>2. NoneEnds(q, i - 1, 0, 0)
    BY DEF NoneEnds
  <2>3. q = mod[k].defns[e].premises
    OBVIOUS
  <2> HIDE DEF i, q
  <2>4. UpTo(mod, k, e, i, 0, cs) = PremisesTo(mod, k, e, i - 1, cs)
    BY <2>1, <2>2, <2>3, UpToDone
  <2> QED
    BY <2>1, <2>4 DEF i
<1>4. ClassUpTo(mod, k, e, Len(ps) + 1, 0, cs) = (a \o b) \o c
  BY <1>3 DEF ClassUpTo
<1>5. /\ b \in Seq(Lines) /\ t \in Seq(Lines)
      /\ MethodCode(mod, k, e, cs) = (b \o c) \o t
  BY MethodIs
<1>6. c \in Seq(Lines)
  BY <1>1, PremisesToStep
<1>7. a \in Seq(Lines) /\ ClassTo(mod, k, e, cs) = a \o MethodCode(mod, k, e, cs)
  <2> HIDE DEF n
  <2>1. a \in Seq(Lines)
        /\ ClassTo(mod, k, n + 1, cs) = a \o MethodCode(mod, k, n + 1, cs)
    BY <1>2, ClassToStep
  <2> QED
    BY <1>2, <2>1
<1>8. ClassTo(mod, k, e, cs) = a \o ((b \o c) \o t)
  BY <1>5, <1>7
<1> HIDE DEF a, b, c, t
<1>9. ((a \o b) \o c) \o t = a \o ((b \o c) \o t)
  <2> DEFINE bc == b \o c
  <2>1. a \in Seq(Lines) /\ b \in Seq(Lines) /\ c \in Seq(Lines) /\ t \in Seq(Lines)
    BY <1>5, <1>6, <1>7
  <2>2. bc \in Seq(Lines)
    BY ONLY <2>1, ConcatProperties
  <2>3. (a \o b) \o c = a \o bc
    BY ONLY <2>1, LinesAssociate, Zenon
  <2>4. bc = b \o c
    OBVIOUS
  <2> HIDE DEF bc
  <2>5. (a \o bc) \o t = a \o (bc \o t)
    BY ONLY <2>1, <2>2, LinesAssociate
  <2> QED
    BY ONLY <2>3, <2>4, <2>5, Zenon
<1> QED
  BY <1>4, <1>8, <1>9 DEF t

-----------------------------------------------------------------------------
(* The invariant.                                                          *)

InClass == pc \in {"defn", "premise", "endGroup"}

\* Where the traversal is when it leaves a list.
ListsEnd ==
  /\ pc = "endGroup" => d = Len(Group.defns) + 1
  /\ pc = "succeeded" => g = Len(module) + 1

\* The innermost open clause; 0 if there is none.
Top == IF open = <<>> THEN 0 ELSE Last(open)

\* Up to the innermost open clause, those that are not over are open.
NoneClosedAbove ==
  pc = "premise" =>
    \A k \in 1 .. Top :
      OpensWhile(Premises[k]) /\ Premises[k].last >= p - 1 => k \in ElementsOf(open)

\* The inference premises before position i whose clause is not in opened.
EndedBefore(ps, i, opened) ==
  {j \in DOMAIN ps : ps[j].kind = "inference" /\ j < i /\ j \notin opened}

\* The counters are the numbers of the closed form.
PremisesAreNumbered ==
  /\ pc = "premise" =>
       numPremisesProcessed = Cardinality(EndedBefore(Premises, p, ElementsOf(open)))
  /\ pc \in {"errorCodes", "group", "defn", "endGroup"} => numPremisesProcessed = 0

TempsAreNumbered ==
  /\ pc = "errorCodes" => nameId = 0
  /\ pc = "group" => nameId = TempsBefore(module, g, 1, 1)
  /\ pc \in {"defn", "endGroup"} => nameId = TempsBefore(module, g, d, 1)
  /\ pc = "premise" => nameId = TempsBefore(module, g, d, p)

\* What a bad stream did not write is missing in the file.
BadIsDamaged ==
  InClass =>
    /\ headerFileOfs = "bad" => HeaderPath(Group) \in damaged
    /\ cppFileOfs = "bad" => CppPath(Group) \in damaged

\* A file holds the lines, unless it misses something.
Holds(path, lines) == path \in damaged \/ files[path] = lines

\* The files of the class that is being written hold it up to the cursor.
ClassSoFar ==
  /\ pc \in {"defn", "endGroup"} =>
       /\ Holds(HeaderPath(Group), HeaderTo(g, d - 1))
       /\ Holds(CppPath(Group), ClassTo(module, g, d - 1, comments))
  /\ pc = "premise" =>
       /\ Holds(HeaderPath(Group), HeaderTo(g, d))
       /\ Holds(CppPath(Group), ClassUpTo(module, g, d, p, Top, comments))

ClassName(i) == EnvDefn(module[i].env, "ClassName")

\* The groups whose files were opened.
Begun == IF InClass THEN g ELSE g - 1

\* The files of a class that is finished hold all of it, until those of
\* another class of the same name are opened.
ClassesSoFar ==
  InClass \/ pc \in {"group", "succeeded"} =>
    \A i \in 1 .. g - 1 :
      (\A j \in i + 1 .. Begun : ClassName(j) # ClassName(i)) =>
        /\ Holds(HeaderPath(module[i]), ClassHeader(module, i))
        /\ Holds(CppPath(module[i]), ClassCode(module, i, comments))

OutputInv ==
  /\ ListsEnd
  /\ NoneClosedAbove
  /\ PremisesAreNumbered
  /\ TempsAreNumbered
  /\ BadIsDamaged
  /\ ClassSoFar
  /\ ClassesSoFar

-----------------------------------------------------------------------------
(* Writing.                                                                *)

\* The tree is the same before and after a step that leaves the module and the
\* cursor alone.
LEMMA SamePlace ==
  ASSUME UNCHANGED <<module, g>>
  PROVE  /\ Group' = Group
         /\ HeaderPath(Group)' = HeaderPath(Group)
         /\ CppPath(Group)' = CppPath(Group)
         /\ d' = d => Premises' = Premises
BY DEF Group, Defn, Premises, HeaderPath, CppPath, EnvDefn

\* The two files of a class are two, and classes of different names have
\* different files.
LEMMA FilesDiffer ==
  ASSUME NEW group, NEW other
  PROVE  /\ HeaderPath(group) # CppPath(other)
         /\ EnvDefn(group.env, "ClassName") # EnvDefn(other.env, "ClassName") =>
              /\ HeaderPath(group) # HeaderPath(other)
              /\ CppPath(group) # CppPath(other)
BY DEF HeaderPath, CppPath

\* The file at a path, and whether it misses something, did not change.
Untouched(path) ==
  files'[path] = files[path] /\ (path \in damaged' <=> path \in damaged)

\* What is not missing in the file at a path was appended to it.
Got(path, ls) ==
  path \notin damaged' => path \notin damaged /\ files'[path] = files[path] \o ls

\* A write to the .cpp file of a class.
LEMMA CppWritten ==
  ASSUME IInv, BadIsDamaged, pc = "premise", NEW ls, WriteCpp(ls)
  PROVE  /\ \A path \in Paths : path # CppPath(Group) => Untouched(path)
         /\ Got(CppPath(Group), ls)
         /\ headerFileOfs' = headerFileOfs
         /\ headerFileOfs = "bad" => HeaderPath(Group) \in damaged'
         /\ cppFileOfs' = "bad" => CppPath(Group) \in damaged'
<1> DEFINE path == CppPath(Group)
<1>1. path \in Paths /\ HeaderPath(Group) \in Paths /\ DOMAIN files = Paths
      /\ cppFileOfs \in {"good", "bad"}
  BY AtGroup DEF IInv, TypeOK, StreamsInv
<1>2. /\ cppFileOfs' \in Written(cppFileOfs)
      /\ files' = Appended(files, cppFileOfs', path, ls)
      /\ damaged' = damaged \cup DamagedIf(cppFileOfs', path)
      /\ headerFileOfs' = headerFileOfs
  BY DEF WriteCpp
<1>3. /\ headerFileOfs = "bad" => HeaderPath(Group) \in damaged
      /\ cppFileOfs = "bad" => path \in damaged
  BY DEF BadIsDamaged, InClass
<1> HIDE DEF path
<1>4. CASE cppFileOfs' = "bad"
  BY <1>2, <1>3, <1>4 DEF Appended, DamagedIf, Untouched, Got, path
<1>5. CASE cppFileOfs' = "good"
  <2>1. cppFileOfs = "good" /\ damaged' = damaged
        /\ files' = [files EXCEPT ![path] = @ \o ls]
    BY <1>1, <1>2, <1>5 DEF Written, Appended, DamagedIf
  <2>2. files'[path] = files[path] \o ls /\ \A q \in Paths : q # path => files'[q] = files[q]
    BY <1>1, <2>1
  <2> QED
    BY <1>2, <1>3, <1>5, <2>1, <2>2 DEF Untouched, Got, path
<1> QED
  BY <1>1, <1>2, <1>4, <1>5 DEF Written

\* The classes that are finished stay so when another one is begun or written.
LEMMA OthersStay ==
  ASSUME IInv, ClassesSoFar, pc = "group" \/ InClass, InClass',
         UNCHANGED <<module, comments, g>>,
         \A path \in Paths :
           path # HeaderPath(Group) /\ path # CppPath(Group) => Untouched(path)
  PROVE  ClassesSoFar'
<1>1. g \in DOMAIN module /\ g \in Nat /\ module \in Module
  BY DEF IInv, TypeOK, CursorOK, InClass
<1>2. Begun \in {g - 1, g} /\ Begun' = g /\ g' = g /\ \A i : ClassName(i)' = ClassName(i)
  BY DEF Begun, InClass, ClassName, EnvDefn
<1>3. ASSUME NEW i \in 1 .. g - 1, \A j \in i + 1 .. g : ClassName(j) # ClassName(i)
      PROVE  /\ Holds(HeaderPath(module[i]), ClassHeader(module, i))'
             /\ Holds(CppPath(module[i]), ClassCode(module, i, comments))'
  <2> DEFINE h == HeaderPath(module[i])
             c == CppPath(module[i])
  <2>1. i \in DOMAIN module /\ g \in i + 1 .. g
    BY <1>1 DEF Module
  <2>2. h \in Paths /\ c \in Paths
    BY <1>1, <2>1, GroupFiles DEF IInv
  <2>3. EnvDefn(module[i].env, "ClassName") # EnvDefn(Group.env, "ClassName")
    BY <1>3, <2>1 DEF ClassName, Group
  <2>4. /\ h # HeaderPath(Group) /\ c # CppPath(Group)
        /\ h # CppPath(Group) /\ c # HeaderPath(Group)
    BY <2>3, FilesDiffer
  <2>5. Untouched(h) /\ Untouched(c)
    <3> HIDE DEF h, c
    <3> QED
      BY <2>2, <2>4
  <2>6. Holds(h, ClassHeader(module, i)) /\ Holds(c, ClassCode(module, i, comments))
    <3>1. \A j \in i + 1 .. Begun : j \in i + 1 .. g
      BY <1>1, <1>2
    <3> QED
      BY <1>3, <3>1 DEF ClassesSoFar
  <2>7. /\ HeaderPath(module[i])' = h /\ CppPath(module[i])' = c
        /\ module' = module /\ comments' = comments
    BY DEF HeaderPath, CppPath, EnvDefn
  <2> HIDE DEF h, c
  <2>8. /\ h \in damaged' \/ files'[h] = ClassHeader(module, i)
        /\ c \in damaged' \/ files'[c] = ClassCode(module, i, comments)
    BY <2>5, <2>6 DEF Untouched, Holds
  <2> QED
    BY <2>7, <2>8 DEF Holds
<1> QED
  BY <1>2, <1>3 DEF ClassesSoFar

\* A write to both files of a class.
LEMMA BothWritten ==
  ASSUME IInv, BadIsDamaged, pc = "defn", NEW hs, NEW cs, WriteBoth(hs, cs)
  PROVE  /\ \A path \in Paths :
              path # HeaderPath(Group) /\ path # CppPath(Group) => Untouched(path)
         /\ Got(HeaderPath(Group), hs) /\ Got(CppPath(Group), cs)
         /\ headerFileOfs' = "bad" => HeaderPath(Group) \in damaged'
         /\ cppFileOfs' = "bad" => CppPath(Group) \in damaged'
<1> DEFINE h == HeaderPath(Group)
           c == CppPath(Group)
           hfs == Appended(files, headerFileOfs', h, hs)
<1>1. /\ h \in Paths /\ c \in Paths /\ h # c /\ DOMAIN files = Paths
      /\ headerFileOfs \in {"good", "bad"} /\ cppFileOfs \in {"good", "bad"}
  BY AtGroup, FilesDiffer DEF IInv, TypeOK, StreamsInv
<1>2. /\ headerFileOfs' \in Written(headerFileOfs) /\ cppFileOfs' \in Written(cppFileOfs)
      /\ files' = Appended(hfs, cppFileOfs', c, cs)
      /\ damaged' = damaged \cup DamagedIf(headerFileOfs', h) \cup DamagedIf(cppFileOfs', c)
  BY DEF WriteBoth
<1>3. (headerFileOfs = "bad" => h \in damaged) /\ (cppFileOfs = "bad" => c \in damaged)
  BY DEF BadIsDamaged, InClass
<1> HIDE DEF h, c
<1>4. /\ headerFileOfs' \in {"good", "bad"} /\ cppFileOfs' \in {"good", "bad"}
      /\ headerFileOfs' = "good" => headerFileOfs = "good"
      /\ cppFileOfs' = "good" => cppFileOfs = "good"
  BY <1>1, <1>2 DEF Written
<1>5. /\ DOMAIN hfs = Paths
      /\ \A path \in Paths : path # h => hfs[path] = files[path]
      /\ headerFileOfs' = "good" => hfs[h] = files[h] \o hs
  BY <1>1 DEF Appended
<1> HIDE DEF hfs
<1>6. /\ \A path \in Paths : path # c => files'[path] = hfs[path]
      /\ cppFileOfs' = "good" => files'[c] = hfs[c] \o cs
  BY <1>1, <1>2, <1>5 DEF Appended
<1>7. /\ headerFileOfs' = "good" => (h \in damaged' <=> h \in damaged)
      /\ cppFileOfs' = "good" => (c \in damaged' <=> c \in damaged)
      /\ headerFileOfs' = "bad" => h \in damaged'
      /\ cppFileOfs' = "bad" => c \in damaged'
      /\ \A path : path # h /\ path # c => (path \in damaged' <=> path \in damaged)
  BY <1>1, <1>2 DEF DamagedIf
<1>8. Got(h, hs) /\ Got(c, cs)
  BY <1>1, <1>4, <1>5, <1>6, <1>7 DEF Got
<1>9. \A path \in Paths : path # h /\ path # c => Untouched(path)
  BY <1>5, <1>6, <1>7 DEF Untouched
<1> QED
  BY <1>7, <1>8, <1>9 DEF h, c, Got

-----------------------------------------------------------------------------
(* Clauses and counters at a premise.                                      *)

\* The innermost open clause is the last one in the text.
LEMMA TopIs ==
  ASSUME IInv, pc = "premise"
  PROVE  /\ Top \in 0 .. p - 1 /\ p \in Nat
         /\ \A k \in ElementsOf(open) : k \in 1 .. Top
         /\ open = <<>> => Top = 0
         /\ open # <<>> =>
              /\ Top = Last(open) /\ Top \in ElementsOf(open) /\ Top \in 1 .. p - 1
              /\ OpensWhile(Premises[Top]) /\ Premises[Top].last >= p - 1
<1>1. open \in Seq(Nat) /\ p \in Nat \ {0}
  BY DEF IInv, TypeOK, CursorOK
<1>2. CASE open = <<>>
  BY <1>1, <1>2 DEF Top, ElementsOf
<1>3. CASE open # <<>>
  <2> DEFINE y == Len(open)
  <2>1. y \in DOMAIN open /\ DOMAIN open = 1 .. y /\ Top = open[y] /\ Last(open) = open[y]
    BY <1>1, <1>3 DEF Top, Last
  <2>2. /\ open[y] \in 1 .. p - 1 /\ OpensWhile(Premises[open[y]])
        /\ Premises[open[y]].last >= p - 1
    BY <2>1 DEF IInv, OpenInv
  <2>3. \A x \in DOMAIN open : open[x] \in 1 .. open[y]
    <3> TAKE x \in DOMAIN open
    <3>1. open[x] \in 1 .. p - 1 /\ (x < y => open[x] < open[y])
      BY <2>1 DEF IInv, OpenInv
    <3> HIDE DEF y
    <3>2. x < y \/ x = y
      BY <2>1
    <3> QED
      BY <2>2, <3>1, <3>2
  <2> HIDE DEF y
  <2>4. Top \in 0 .. p - 1 /\ Top \in 1 .. p - 1
    BY <1>1, <2>1, <2>2
  <2> QED
    BY <1>1, <1>3, <2>1, <2>2, <2>3, <2>4 DEF ElementsOf
<1> QED
  BY <1>2, <1>3

\* What is open goes up to there, and the next state needs it as well.
OpenUpToTop ==
  /\ \A k \in ElementsOf(open) : k \in 1 .. Top
  /\ Top \in 0 .. p - 1 /\ (Top = 0 \/ Top \in ElementsOf(open))

\* It does, in every state at a premise.
LEMMA TopBounds == IInv /\ pc = "premise" => OpenUpToTop
BY TopIs DEF OpenUpToTop

\* While its body is not over, a clause that is open does not end before p.
LEMMA OpenReach ==
  ASSUME IInv, pc = "premise", ~BodyDone, NEW k \in ElementsOf(open)
  PROVE  Premises[k].last >= p
<1>1. PICK x \in DOMAIN open : k = open[x]
  BY DEF ElementsOf
<1> QED
  BY <1>1, AllReach

\* A number a premise gets in its comment is the number of those that ended.
LEMMA NumberIsCounted ==
  ASSUME IInv, pc = "premise", ~BodyDone, PremisesAreNumbered
  PROVE  NumberOf(Premises, p) = numPremisesProcessed + 1
<1>1. /\ Premises \in Seq(Premise) /\ WellNested(Premises)
      /\ p \in 1 .. Len(Premises) + 1 /\ DOMAIN Premises = 1 .. Len(Premises)
      /\ Len(Premises) \in Nat
  BY AtPremise
<1> DEFINE ps == Premises
           E == ElementsOf(open)
<1>2. ASSUME NEW j \in DOMAIN ps
      PROVE  ps[j].last < p <=> j < p /\ j \notin E
  <2>1. ps[j].last \in j .. Len(ps) /\ (OpensWhile(ps[j]) \/ ps[j].last = j)
    BY <1>1 DEF WellNested
  <2>2. j \in E => ps[j].last >= p
    BY OpenReach
  <2>3. j \in 1 .. p - 1 /\ OpensWhile(ps[j]) /\ ps[j].last >= p => j \in E
    BY DEF IInv, OpenInv
  <2> HIDE DEF ps, E
  <2> QED
    BY <1>1, <2>1, <2>2, <2>3
<1>3. {j \in DOMAIN ps : ps[j].kind = "inference" /\ ps[j].last < p}
        = EndedBefore(ps, p, E)
  <2> HIDE DEF ps, E
  <2> QED
    BY <1>2 DEF EndedBefore
<1>4. Cardinality(EndedBefore(ps, p, E)) \in Nat
  <2>1. EndedBefore(ps, p, E) \in SUBSET DOMAIN ps
    BY DEF EndedBefore
  <2> HIDE DEF E
  <2> QED
    BY <1>1, <2>1, EndedType
<1>5. numPremisesProcessed = Cardinality(EndedBefore(ps, p, E))
  BY DEF PremisesAreNumbered
<1>6. NumberOf(ps, p) = 1 + Cardinality(EndedBefore(ps, p, E))
  BY ONLY <1>3, Zenon DEF NumberOf
<1> HIDE DEF ps, E
<1> QED
  BY <1>4, <1>5, <1>6 DEF ps

\* One more premise has ended.
LEMMA OneMoreEnded ==
  ASSUME NEW ps \in Seq(Premise), NEW T \in SUBSET DOMAIN ps, NEW U,
         NEW k, k \notin T, U = T \cup {k}
  PROVE  Cardinality(U) = Cardinality(T) + 1
<1>1. IsFiniteSet(T)
  BY EndedType
<1> QED
  BY <1>1, FS_AddElement

\* A premise that opens no clause has ended once it has been written.
LEMMA EndedAfterPremise ==
  ASSUME IInv, pc = "premise", p \in DOMAIN Premises
  PROVE  /\ Premises[p].kind = "inference" =>
              Cardinality(EndedBefore(Premises, p + 1, ElementsOf(open)))
                = Cardinality(EndedBefore(Premises, p, ElementsOf(open))) + 1
         /\ Premises[p].kind # "inference" =>
              EndedBefore(Premises, p + 1, ElementsOf(open))
                = EndedBefore(Premises, p, ElementsOf(open))
<1> DEFINE ps == Premises
           E == ElementsOf(open)
<1>1. ps \in Seq(Premise) /\ DOMAIN ps = 1 .. Len(ps) /\ Len(ps) \in Nat /\ p \in Nat
  BY AtPremise
<1>2. p \notin E
  BY TopIs
<1> HIDE DEF ps, E
<1>3. \A j \in DOMAIN ps : j < p + 1 <=> j < p \/ j = p
  BY <1>1
<1>4. p \notin EndedBefore(ps, p, E)
  BY <1>1 DEF EndedBefore
<1>5. ASSUME ps[p].kind = "inference"
      PROVE  EndedBefore(ps, p + 1, E) = EndedBefore(ps, p, E) \cup {p}
  BY <1>2, <1>3, <1>5 DEF EndedBefore, ps
<1>6. ASSUME ps[p].kind # "inference"
      PROVE  EndedBefore(ps, p + 1, E) = EndedBefore(ps, p, E)
  BY <1>2, <1>3, <1>6 DEF EndedBefore
<1>7. ps[p].kind = "inference" =>
        Cardinality(EndedBefore(ps, p + 1, E)) = Cardinality(EndedBefore(ps, p, E)) + 1
  <2> DEFINE T == EndedBefore(ps, p, E)
             U == EndedBefore(ps, p + 1, E)
  <2>1. T \in SUBSET DOMAIN ps /\ p \notin T
    BY <1>4 DEF EndedBefore
  <2>2. ps[p].kind = "inference" => U = T \cup {p}
    BY <1>5
  <2> HIDE DEF T, U
  <2>3. ps[p].kind = "inference" => Cardinality(U) = Cardinality(T) + 1
    BY <1>1, <2>1, <2>2, OneMoreEnded
  <2> QED
    BY <2>3 DEF T, U
<1> QED
  BY <1>6, <1>7 DEF ps, E

\* A clause that opens has not.
LEMMA EndedAfterOpening ==
  ASSUME IInv, pc = "premise", p \in DOMAIN Premises, open' = Append(open, p)
  PROVE  /\ ElementsOf(open') = ElementsOf(open) \cup {p}
         /\ EndedBefore(Premises, p + 1, ElementsOf(open'))
              = EndedBefore(Premises, p, ElementsOf(open))
         /\ open' # <<>> /\ Last(open') = p
<1> DEFINE ps == Premises
           E == ElementsOf(open)
           F == ElementsOf(open')
<1>1. ps \in Seq(Premise) /\ DOMAIN ps = 1 .. Len(ps) /\ Len(ps) \in Nat /\ p \in Nat
  BY AtPremise
<1>2. open \in Seq(Nat)
  BY DEF IInv, TypeOK
<1>3. /\ open' \in Seq(Nat) /\ Len(open') = Len(open) + 1 /\ Len(open) \in Nat
      /\ \A x \in 1 .. Len(open) : open'[x] = open[x]
      /\ open'[Len(open) + 1] = p
  BY <1>1, <1>2, AppendProperties
<1>4. DOMAIN open = 1 .. Len(open) /\ DOMAIN open' = 1 .. Len(open) + 1
  BY <1>2, <1>3
<1>5. F = E \cup {p}
  <2>1. \A x \in DOMAIN open' : x \in DOMAIN open \/ x = Len(open) + 1
    BY <1>3, <1>4
  <2>2. DOMAIN open \subseteq DOMAIN open' /\ Len(open) + 1 \in DOMAIN open'
    BY <1>3, <1>4
  <2> QED
    BY <1>3, <1>4, <2>1, <2>2 DEF ElementsOf
<1>6. open' # <<>> /\ Last(open') = p
  BY <1>3 DEF Last
<1> HIDE DEF ps, E, F
<1>7. \A j \in DOMAIN ps : j < p + 1 <=> j < p \/ j = p
  BY <1>1
<1>8. \A j \in DOMAIN ps : j < p => j # p
  BY <1>1
<1>9. EndedBefore(ps, p + 1, F) = EndedBefore(ps, p, E)
  BY <1>5, <1>7, <1>8 DEF EndedBefore
<1> QED
  BY <1>5, <1>6, <1>9 DEF ps, E, F

\* The end of a clause ends its premise.
LEMMA EndedAfterClause ==
  ASSUME IInv, pc = "premise", BodyDone, open' = Front(open)
  PROVE  /\ ElementsOf(open') = ElementsOf(open) \ {Top}
         /\ Cardinality(EndedBefore(Premises, p, ElementsOf(open')))
              = Cardinality(EndedBefore(Premises, p, ElementsOf(open))) + 1
<1> DEFINE ps == Premises
           E == ElementsOf(open)
           F == ElementsOf(open')
           y == Len(open)
<1>1. /\ ps \in Seq(Premise) /\ DOMAIN ps = 1 .. Len(ps) /\ Len(ps) \in Nat /\ p \in Nat
      /\ p <= Len(ps) + 1
  BY AtPremise
<1>2. open \in Seq(Nat) /\ open # <<>>
  BY DEF IInv, TypeOK, BodyDone
<1>3. /\ Top = Last(open) /\ Top \in E /\ Top \in 1 .. p - 1
      /\ OpensWhile(ps[Top])
  BY <1>2, TopIs
<1>4. y \in Nat \ {0} /\ DOMAIN open = 1 .. y /\ Top = open[y]
  BY <1>2, <1>3 DEF Last
<1>5. DOMAIN open' = 1 .. y - 1 /\ \A x \in 1 .. y - 1 : open'[x] = open[x]
  <2>1. open' = SubSeq(open, 1, y - 1)
    BY DEF Front
  <2>2. \A i \in 1 .. y - 1 : open[i] \in Nat
    BY <1>2, <1>4
  <2> HIDE DEF y
  <2>3. /\ open' \in Seq(Nat) /\ Len(open') = y - 1
        /\ \A x \in 1 .. y - 1 : open'[x] = open[x]
    BY <1>4, <2>1, <2>2, SubSeqProperties
  <2> QED
    BY <2>3
<1>6. \A x, z \in DOMAIN open : x < z => open[x] < open[z]
  BY DEF IInv, OpenInv
<1> HIDE DEF y
<1>7. F = E \ {Top}
  <2>1. \A x \in 1 .. y - 1 : x \in DOMAIN open /\ open[x] # Top
    <3> TAKE x \in 1 .. y - 1
    <3>1. x \in DOMAIN open /\ y \in DOMAIN open /\ x < y
      BY <1>4
    <3>2. open[x] < open[y] /\ open[x] \in Nat /\ open[y] \in Nat
      BY <1>2, <1>6, <3>1
    <3> QED
      BY <1>4, <3>1, <3>2
  <2>2. \A x \in DOMAIN open : x \in 1 .. y - 1 \/ x = y
    BY <1>4
  <2> QED
    BY <1>4, <1>5, <2>1, <2>2 DEF ElementsOf
<1>8. Top \in DOMAIN ps /\ Top < p /\ ps[Top].kind = "inference"
  BY <1>1, <1>3 DEF OpensWhile
<1> DEFINE t == Top
<1> HIDE DEF ps, E, F, t
<1>9. EndedBefore(ps, p, F) = EndedBefore(ps, p, E) \cup {t} /\ t \notin EndedBefore(ps, p, E)
  <2>1. F = E \ {t} /\ t \in E /\ t \in DOMAIN ps /\ t < p /\ ps[t].kind = "inference"
    BY <1>3, <1>7, <1>8 DEF t
  <2> QED
    BY ONLY <2>1 DEF EndedBefore
<1>10. Cardinality(EndedBefore(ps, p, F)) = Cardinality(EndedBefore(ps, p, E)) + 1
  <2> DEFINE T == EndedBefore(ps, p, E)
             U == EndedBefore(ps, p, F)
  <2>1. T \in SUBSET DOMAIN ps /\ t \notin T /\ U = T \cup {t}
    BY <1>9 DEF EndedBefore
  <2> HIDE DEF T, U
  <2>2. Cardinality(U) = Cardinality(T) + 1
    BY <1>1, <2>1, OneMoreEnded
  <2> QED
    BY <2>2 DEF T, U
<1> QED
  BY <1>7, <1>10 DEF ps, E, F

-----------------------------------------------------------------------------
(* The steps at a premise.                                                 *)

\* What the lemmas about the tree ask of the cursor.
LEMMA InMethod ==
  ASSUME IInv, pc = "premise"
  PROVE  /\ module \in Module /\ g \in DOMAIN module /\ d \in DOMAIN module[g].defns
         /\ Premises = module[g].defns[d].premises
         /\ Premises \in Seq(Premise) /\ WellNested(Premises)
         /\ DOMAIN Premises = 1 .. Len(Premises) /\ Len(Premises) \in Nat
         /\ p \in 1 .. Len(Premises) + 1
<1>1. /\ Premises \in Seq(Premise) /\ WellNested(Premises)
      /\ p \in 1 .. Len(Premises) + 1
  BY AtPremise
<1>2. Premises = module[g].defns[d].premises
  BY DEF Premises, Defn, Group
<1>3. /\ module \in Module /\ g \in DOMAIN module /\ d \in DOMAIN module[g].defns
  BY DEF IInv, TypeOK, CursorOK, Group
<1> QED
  BY <1>1, <1>2, <1>3

\* The files, when what a premise writes is what the closed form has next.
LEMMA MethodGrows ==
  ASSUME IInv, OutputInv, pc = "premise", pc' = "premise",
         UNCHANGED <<module, comments, g, d>>, NEW ls, WriteCpp(ls),
         ClassUpTo(module, g, d, p', Top', comments)
           = ClassUpTo(module, g, d, p, Top, comments) \o ls
  PROVE  ListsEnd' /\ BadIsDamaged' /\ ClassSoFar' /\ ClassesSoFar'
<1> DEFINE h == HeaderPath(Group)
           c == CppPath(Group)
           now  == ClassUpTo(module, g, d, p, Top, comments)
           then == ClassUpTo(module, g, d, p', Top', comments)
           header == HeaderTo(g, d)
<1>1. /\ \A path \in Paths : path # c => Untouched(path)
      /\ Got(c, ls)
      /\ headerFileOfs' = headerFileOfs
      /\ headerFileOfs = "bad" => h \in damaged'
      /\ cppFileOfs' = "bad" => c \in damaged'
  BY CppWritten DEF OutputInv
<1>2. /\ h \in Paths /\ c \in Paths /\ h # c
  BY AtGroup, FilesDiffer
<1>3. HeaderPath(Group)' = h /\ CppPath(Group)' = c
  BY SamePlace
<1>4. Holds(h, header) /\ Holds(c, now)
  BY DEF OutputInv, ClassSoFar
<1>5. then = now \o ls
  OBVIOUS
<1>6. /\ HeaderTo(g, d)' = header
      /\ ClassUpTo(module, g, d, p, Top, comments)' = then
  BY DEF HeaderTo
<1>7. ListsEnd' /\ InClass /\ InClass'
  BY DEF ListsEnd, InClass
<1>8. ClassesSoFar'
  BY <1>1, <1>7, OthersStay DEF OutputInv
<1> HIDE DEF h, c, now, then, header
<1>9. BadIsDamaged'
  BY <1>1, <1>3 DEF BadIsDamaged
<1>10. /\ h \in damaged' \/ files'[h] = header
       /\ c \in damaged' \/ files'[c] = then
  BY <1>1, <1>2, <1>4, <1>5 DEF Holds, Untouched, Got
<1>11. ClassSoFar'
  BY <1>3, <1>6, <1>10 DEF ClassSoFar, Holds
<1> QED
  BY <1>7, <1>8, <1>9, <1>11

\* No clause is left to be closed when a premise begins.
LEMMA NoneLeft ==
  ASSUME IInv, NoneClosedAbove, pc = "premise", ~BodyDone
  PROVE  NoneEnds(Premises, p - 1, 0, Top)
<1>1. p \in Nat
  BY TopIs
<1> SUFFICES ASSUME NEW k \in 1 .. Top, OpensWhile(Premises[k]), Premises[k].last = p - 1
             PROVE  FALSE
  BY DEF NoneEnds
<1>2. k \in ElementsOf(open)
  BY <1>1 DEF NoneClosedAbove
<1>3. Premises[k].last >= p
  BY <1>2, OpenReach
<1> QED
  BY <1>1, <1>3

\* A premise is written as the closed form has it.
LEMMA EntryWritten ==
  ASSUME IInv, OutputInv, pc = "premise", ~BodyDone, p \in DOMAIN Premises,
         UNCHANGED <<module, comments, pc, g, d>>, p' = p + 1,
         WriteCpp(Entry(Premises, p, nameId, comments)),
         \/ open' = open /\ ~OpensWhile(Premises[p])
         \/ open' = Append(open, p) /\ OpensWhile(Premises[p]),
         nameId' = nameId + (IF DeducesComputed(Premises[p]) THEN 2 ELSE 0),
         numPremisesProcessed' =
           numPremisesProcessed
             + (IF Premises[p].kind = "inference" /\ ~OpensWhile(Premises[p])
                THEN 1 ELSE 0)
  PROVE  OutputInv'
<1>1. /\ module \in Module /\ g \in DOMAIN module /\ d \in DOMAIN module[g].defns
      /\ Premises = module[g].defns[d].premises
      /\ Premises \in Seq(Premise) /\ WellNested(Premises)
      /\ DOMAIN Premises = 1 .. Len(Premises) /\ Len(Premises) \in Nat
      /\ p \in 1 .. Len(Premises) + 1 /\ p \in Nat
  BY InMethod, TopIs
<1>2. /\ Top \in 0 .. p - 1
      /\ \A k \in ElementsOf(open) : k \in 1 .. Top
  BY TopIs
<1>3. Premises' = Premises
  BY SamePlace
<1>4. /\ \A k \in 1 .. p - 1 :
           OpensWhile(Premises[k]) /\ Premises[k].last >= p => k \in ElementsOf(open)
  BY DEF IInv, OpenInv
<1>5. /\ Top' \in 0 .. p /\ NoneEnds(Premises, p, Top', p)
      /\ \A k \in 1 .. Top' :
           OpensWhile(Premises[k]) /\ Premises[k].last >= p => k \in ElementsOf(open')
      /\ Cardinality(EndedBefore(Premises, p + 1, ElementsOf(open')))
           = Cardinality(EndedBefore(Premises, p, ElementsOf(open)))
               + (IF Premises[p].kind = "inference" /\ ~OpensWhile(Premises[p])
                  THEN 1 ELSE 0)
  <2> DEFINE ps == Premises
             before == Cardinality(EndedBefore(Premises, p, ElementsOf(open)))
  <2>1. before \in Nat
    <3>1. EndedBefore(Premises, p, ElementsOf(open)) \in SUBSET DOMAIN Premises
      BY DEF EndedBefore
    <3> QED
      BY <1>1, <3>1, EndedType
  <2>2. CASE open' = open /\ ~OpensWhile(Premises[p])
    <3>1. Top' = Top
      BY <2>2 DEF Top
    <3>2. NoneEnds(ps, p, Top, p)
      <4> SUFFICES ASSUME NEW j \in Top + 1 .. p, OpensWhile(ps[j]), ps[j].last = p
                   PROVE  FALSE
        BY DEF NoneEnds
      <4>1. j # p /\ j \in 1 .. p - 1 /\ j \notin 1 .. Top
        BY <1>1, <1>2, <2>2
      <4>2. j \in ElementsOf(open)
        BY <1>1, <1>4, <4>1
      <4> QED
        BY <1>2, <4>1, <4>2
    <3>3. \A k \in 1 .. Top : OpensWhile(ps[k]) /\ ps[k].last >= p => k \in ElementsOf(open)
      BY <1>1, <1>2, <1>4
    <3>4. Cardinality(EndedBefore(ps, p + 1, ElementsOf(open)))
            = before + (IF ps[p].kind = "inference" /\ ~OpensWhile(ps[p]) THEN 1 ELSE 0)
      <4>1. CASE ps[p].kind = "inference"
        BY <2>2, <4>1, EndedAfterPremise
      <4>2. CASE ps[p].kind # "inference"
        <5>1. EndedBefore(ps, p + 1, ElementsOf(open)) = EndedBefore(ps, p, ElementsOf(open))
          BY <4>2, EndedAfterPremise
        <5> QED
          BY <2>1, <4>2, <5>1
      <4> QED
        BY <4>1, <4>2
    <3>5. Top \in 0 .. p
      BY <1>1, <1>2
    <3> QED
      BY <2>2, <3>1, <3>2, <3>3, <3>4, <3>5
  <2>3. CASE open' = Append(open, p) /\ OpensWhile(Premises[p])
    <3>1. /\ ElementsOf(open') = ElementsOf(open) \cup {p}
          /\ EndedBefore(ps, p + 1, ElementsOf(open')) = EndedBefore(ps, p, ElementsOf(open))
          /\ open' # <<>> /\ Last(open') = p
      BY <2>3, EndedAfterOpening
    <3>2. Top' = p
      BY <3>1 DEF Top
    <3>3. NoneEnds(ps, p, p, p)
      BY <1>1 DEF NoneEnds
    <3>4. \A k \in 1 .. p : OpensWhile(ps[k]) /\ ps[k].last >= p => k \in ElementsOf(open')
      <4>1. \A k \in 1 .. p : k \in 1 .. p - 1 \/ k = p
        BY <1>1
      <4> QED
        BY <1>4, <3>1, <4>1
    <3>5. p \in 0 .. p
      BY <1>1
    <3>6. Cardinality(EndedBefore(ps, p + 1, ElementsOf(open')))
            = before + (IF ps[p].kind = "inference" /\ ~OpensWhile(ps[p]) THEN 1 ELSE 0)
      BY <2>1, <2>3, <3>1
    <3> QED
      BY <3>2, <3>3, <3>4, <3>5, <3>6
  <2> QED
    BY <2>2, <2>3
<1>6. /\ nameId = TempsBefore(module, g, d, p)
      /\ numPremisesProcessed = Cardinality(EndedBefore(Premises, p, ElementsOf(open)))
  BY DEF OutputInv, TempsAreNumbered, PremisesAreNumbered
<1> DEFINE n == p - 1
           a == PremisesTo(module, g, d, n, comments)
           e == Entry(Premises, p, nameId, comments)
           now  == UpTo(module, g, d, p, Top, comments)
           then == UpTo(module, g, d, p + 1, Top', comments)
<1>7. now = a
  <2>1. NoneEnds(Premises, n, 0, Top)
    BY NoneLeft DEF OutputInv
  <2> QED
    BY <1>1, <1>2, <2>1, UpToDone
<1>8. then = a \o e
  <2> DEFINE top == Top'
  <2>1. top \in 0 .. p /\ NoneEnds(Premises, p, top, p)
    BY <1>5
  <2> HIDE DEF top
  <2>2. UpTo(module, g, d, p + 1, top, comments)
          = a \o Entry(Premises, p, TempsBefore(module, g, d, p), comments)
    BY <1>1, <2>1, UpToNext
  <2> QED
    BY <1>6, <2>2 DEF top
<1>9. a \in Seq(Lines) /\ e \in Seq(Lines)
  <2>1. n \in Nat /\ n <= Len(module[g].defns[d].premises)
    BY <1>1
  <2> HIDE DEF n
  <2>2. a \in Seq(Lines)
    BY <1>1, <2>1, PremisesToStep, Zenon
  <2>3. e \in Seq(Lines)
    BY <1>1, <1>6, PremiseCodeType
  <2> QED
    BY <2>2, <2>3
<1> DEFINE head == ClassTo(module, g, d - 1, comments) \o <<Line("beginMethod", d, 0)>>
<1>10. ClassUpTo(module, g, d, p + 1, Top', comments)
         = ClassUpTo(module, g, d, p, Top, comments) \o e
  <2>1. /\ ClassUpTo(module, g, d, p, Top, comments) = head \o now
        /\ ClassUpTo(module, g, d, p + 1, Top', comments) = head \o then
    BY DEF ClassUpTo
  <2>2. head \in Seq(Lines)
    BY <1>1, BeforePremises
  <2> HIDE DEF head, now, then, a, e
  <2>3. head \o (a \o e) = (head \o a) \o e
    BY ONLY <1>9, <2>2, ConcatAssociative, SMTT(30)
  <2> QED
    BY <1>7, <1>8, <2>1, <2>3
<1>11. ListsEnd' /\ BadIsDamaged' /\ ClassSoFar' /\ ClassesSoFar'
  BY <1>10, MethodGrows
<1> HIDE DEF n, a, e, now, then, head
<1>12. NoneClosedAbove'
  <2>1. (p + 1) - 1 = p
    BY <1>1
  <2>2. ElementsOf(open)' = ElementsOf(open')
    BY DEF ElementsOf
  <2> QED
    BY <1>3, <1>5, <2>1, <2>2 DEF NoneClosedAbove
<1>13. PremisesAreNumbered'
  <2>1. ElementsOf(open)' = ElementsOf(open')
    BY DEF ElementsOf
  <2>2. EndedBefore(Premises, p, ElementsOf(open))'
          = EndedBefore(Premises, p + 1, ElementsOf(open'))
    BY <1>3, <2>1 DEF EndedBefore
  <2>3. numPremisesProcessed' = Cardinality(EndedBefore(Premises, p, ElementsOf(open))')
    BY <1>5, <1>6, <2>2
  <2> QED
    BY <2>3 DEF PremisesAreNumbered
<1>14. TempsAreNumbered'
  <2>1. nameId' = TempsBefore(module, g, d, p + 1)
    BY <1>1, <1>6, TempsAfterPremise
  <2> QED
    BY <2>1 DEF TempsAreNumbered
<1> QED
  BY <1>11, <1>12, <1>13, <1>14 DEF OutputInv

\* What an entry consists of.
LEMMA EntryIs ==
  ASSUME IInv, PremisesAreNumbered, pc = "premise", ~BodyDone, p \in DOMAIN Premises,
         NEW ls \in Seq(Lines),
         \/ /\ Premises[p].kind = "equality"
            /\ ls = <<Line(IF Premises[p].range = NoRange THEN "check" ELSE "checkEach",
                           p, 0)>>
         \/ OpensWhile(Premises[p]) /\ ls = <<Line("setup", p, 0)>>
         \/ /\ DeducesComputed(Premises[p])
            /\ ls = <<Line("temp", p, nameId), Line("temp", p, nameId + 1),
                      Line("checkTemps", p, nameId)>>
         \/ /\ Premises[p].kind = "inference" /\ ~Premises[p].while
            /\ ~DeducesComputed(Premises[p])
            /\ ls = <<Line("declare", p, 0)>>
  PROVE  Entry(Premises, p, nameId, comments)
           = IF Premises[p].kind = "equality" THEN ls ELSE PremiseAnnotationComment \o ls
<1> DEFINE pr == Premises[p]
           first == IF comments /\ pr.kind = "inference"
                    THEN <<Line("comment", p, NumberOf(Premises, p))>> ELSE <<>>
           last == CASE pr.kind = "equality" ->
                          <<Line(IF pr.range = NoRange THEN "check" ELSE "checkEach", p, 0)>>
                     [] OpensWhile(pr) -> <<Line("setup", p, 0)>>
                     [] DeducesComputed(pr) ->
                          <<Line("temp", p, nameId), Line("temp", p, nameId + 1),
                            Line("checkTemps", p, nameId)>>
                     [] OTHER -> <<Line("declare", p, 0)>>
<1>1. Entry(Premises, p, nameId, comments) = first \o last
  BY DEF Entry
<1>2. last = ls
  BY DEF OpensWhile, DeducesComputed
<1>3. CASE pr.kind = "equality"
  <2>1. first = <<>>
    BY <1>3
  <2> HIDE DEF first, last
  <2>2. first \o last = ls
    BY <1>2, <2>1, ConcatEmptySeq, Zenon
  <2> QED
    BY <1>1, <1>3, <2>2
<1>4. CASE pr.kind # "equality"
  <2>1. pr.kind = "inference"
    BY <1>4 DEF OpensWhile, DeducesComputed
  <2>2. first = PremiseAnnotationComment
    BY <2>1, NumberIsCounted DEF PremiseAnnotationComment
  <2> HIDE DEF first, last
  <2> QED
    BY <1>1, <1>2, <1>4, <2>2
<1> QED
  BY <1>3, <1>4

\* The counters are numbers.
LEMMA CountersType ==
  ASSUME IInv
  PROVE  p \in Nat /\ nameId \in Nat /\ numPremisesProcessed \in Nat
BY DEF IInv, TypeOK, CursorOK

\* A run that stopped promises nothing.
LEMMA Stopped ==
  ASSUME pc' \in {"failed", "terminated"}
  PROVE  OutputInv'
BY DEF OutputInv, ListsEnd, NoneClosedAbove, PremisesAreNumbered, TempsAreNumbered,
       BadIsDamaged, ClassSoFar, ClassesSoFar, InClass

\* The fixture of a clause.
LEMMA BeginWhileOutput ==
  ASSUME IInv, OutputInv, BeginWhile
  PROVE  OutputInv'
<1>1. /\ pc = "premise" /\ ~BodyDone /\ p \in DOMAIN Premises
      /\ OpensWhile(Premises[p]) /\ Premises[p].kind = "inference"
      /\ Premises[p].while
      /\ UNCHANGED <<module, comments>>
  BY DEF BeginWhile, NextPremise, OpensWhile
<1>2. CASE ~HasField("TypeAnnotationSetupMethod")
  BY <1>2, Stopped DEF BeginWhile, Throw
<1>3. CASE HasField("TypeAnnotationSetupMethod")
  <2> DEFINE ls == <<Line("setup", p, 0)>>
  <2>1. /\ WriteCpp(PremiseAnnotationComment \o ls) /\ open' = Append(open, p) /\ p' = p + 1
        /\ UNCHANGED <<pc, g, d, numPremisesProcessed, nameId>>
    BY <1>3 DEF BeginWhile, context
  <2>2. p \in Nat /\ nameId \in Nat /\ numPremisesProcessed \in Nat
    BY CountersType
  <2>3. ls \in Seq(Lines)
    BY <2>2, OneLine DEF PremiseOps
  <2>4. Entry(Premises, p, nameId, comments) = PremiseAnnotationComment \o ls
    BY <1>1, <2>3, EntryIs DEF OutputInv
  <2>5. ~DeducesComputed(Premises[p])
    BY <1>1 DEF DeducesComputed
  <2>6. /\ WriteCpp(Entry(Premises, p, nameId, comments))
        /\ nameId' = nameId + 0 /\ numPremisesProcessed' = numPremisesProcessed + 0
    BY <2>1, <2>2, <2>4
  <2> HIDE DEF ls
  <2> QED
    BY <1>1, <2>1, <2>5, <2>6, EntryWritten
<1> QED
  BY <1>2, <1>3

\* Two temporaries and their comparison.
LEMMA DeduceComputedOutput ==
  ASSUME IInv, OutputInv, DeduceComputed
  PROVE  OutputInv'
<1>1. /\ pc = "premise" /\ ~BodyDone /\ p \in DOMAIN Premises
      /\ DeducesComputed(Premises[p]) /\ Premises[p].kind = "inference"
      /\ ~OpensWhile(Premises[p])
      /\ UNCHANGED <<module, comments, pc, g, d, open>>
  BY DEF DeduceComputed, NextPremise, DeducesComputed, OpensWhile
<1>2. p \in Nat /\ nameId \in Nat /\ nameId + 1 \in Nat
  BY CountersType
<1> DEFINE ls == <<Line("temp", p, nameId), Line("temp", p, nameId + 1),
                   Line("checkTemps", p, nameId)>>
<1>3. /\ WriteCpp(PremiseAnnotationComment \o ls) /\ p' = p + 1 /\ nameId' = nameId + 2
      /\ numPremisesProcessed' = numPremisesProcessed + 1
  <2>1. TakeNames - 1 = nameId + 1
    BY <1>2 DEF TakeNames
  <2> QED
    BY <2>1 DEF DeduceComputed, TakeNames, PostvisitPremise
<1>4. ls \in Seq(Lines)
  <2>1. /\ Line("temp", p, nameId) \in Lines /\ Line("temp", p, nameId + 1) \in Lines
        /\ Line("checkTemps", p, nameId) \in Lines
    BY <1>2, LineType DEF PremiseOps
  <2> QED
    BY <2>1
<1>5. Entry(Premises, p, nameId, comments) = PremiseAnnotationComment \o ls
  BY <1>1, <1>4, EntryIs DEF OutputInv
<1>6. WriteCpp(Entry(Premises, p, nameId, comments))
  BY <1>3, <1>5
<1> HIDE DEF ls
<1> QED
  BY <1>1, <1>3, <1>6, EntryWritten

\* A declaration.
LEMMA DeclareOutput ==
  ASSUME IInv, OutputInv, Declare
  PROVE  OutputInv'
<1> DEFINE ls == <<Line("declare", p, 0)>>
<1>1. /\ pc = "premise" /\ ~BodyDone /\ p \in DOMAIN Premises
      /\ Premises[p].kind = "inference" /\ ~Premises[p].while
      /\ ~DeducesComputed(Premises[p]) /\ ~OpensWhile(Premises[p])
      /\ UNCHANGED <<module, comments, pc, g, d, open>> /\ nameId' = nameId
      /\ WriteCpp(PremiseAnnotationComment \o ls) /\ p' = p + 1
      /\ numPremisesProcessed' = numPremisesProcessed + 1
  BY DEF Declare, NextPremise, OpensWhile, PostvisitPremise
<1>2. p \in Nat /\ nameId \in Nat /\ nameId + 0 = nameId
  BY CountersType
<1>3. ls \in Seq(Lines)
  BY <1>2, OneLine DEF PremiseOps
<1>4. Entry(Premises, p, nameId, comments) = PremiseAnnotationComment \o ls
  BY <1>1, <1>3, EntryIs DEF OutputInv
<1>5. WriteCpp(Entry(Premises, p, nameId, comments))
  BY <1>1, <1>4
<1> HIDE DEF ls
<1> QED
  BY <1>1, <1>2, <1>5, EntryWritten

\* A check, which gets no comment.
LEMMA PrevisitEqualityOutput ==
  ASSUME IInv, OutputInv, PrevisitEquality
  PROVE  OutputInv'
<1> DEFINE op == IF Premises[p].range = NoRange THEN "check" ELSE "checkEach"
           ls == <<Line(op, p, 0)>>
<1>1. /\ pc = "premise" /\ ~BodyDone /\ p \in DOMAIN Premises
      /\ Premises[p].kind = "equality"
      /\ ~DeducesComputed(Premises[p]) /\ ~OpensWhile(Premises[p])
      /\ UNCHANGED <<module, comments, pc, g, d, open, nameId, numPremisesProcessed>>
      /\ WriteCpp(ls) /\ p' = p + 1
  BY DEF PrevisitEquality, NextPremise, OpensWhile, DeducesComputed, context
<1>2. /\ p \in Nat /\ nameId \in Nat /\ nameId + 0 = nameId
      /\ numPremisesProcessed + 0 = numPremisesProcessed
  BY CountersType
<1>3. ls \in Seq(Lines)
  <2>1. op \in FileOps \cup PremiseOps
    BY DEF PremiseOps
  <2> HIDE DEF op
  <2> QED
    BY <1>2, <2>1, OneLine
<1>4. Entry(Premises, p, nameId, comments) = ls
  BY <1>1, <1>3, EntryIs DEF OutputInv
<1>5. WriteCpp(Entry(Premises, p, nameId, comments)) /\ Premises[p].kind # "inference"
  BY <1>1, <1>4
<1> HIDE DEF ls, op
<1> QED
  BY <1>1, <1>2, <1>5, EntryWritten

\* The end of a clause is written where the closed form has it.
LEMMA EndWhileOutput ==
  ASSUME IInv, OutputInv, EndWhile
  PROVE  OutputInv'
<1>1. pc = "premise" /\ BodyDone /\ UNCHANGED <<module, comments>>
  BY DEF EndWhile
<1>2. CASE ~HasField("TypeAnnotationTeardownMethod")
  BY <1>2, Stopped DEF EndWhile, Throw
<1>3. CASE HasField("TypeAnnotationTeardownMethod")
  <2> DEFINE top == Top
             low == Top'
             ls == <<Line("teardown", top, 0)>>
             ps == Premises
  <2>1. /\ module \in Module /\ g \in DOMAIN module /\ d \in DOMAIN module[g].defns
        /\ ps = module[g].defns[d].premises
        /\ ps \in Seq(Premise) /\ WellNested(ps)
        /\ DOMAIN ps = 1 .. Len(ps) /\ Len(ps) \in Nat
        /\ p \in 1 .. Len(ps) + 1 /\ p \in Nat
    BY <1>1, InMethod, TopIs
  <2>2. /\ open # <<>> /\ top = Last(open) /\ top \in 1 .. p - 1
        /\ OpensWhile(ps[top]) /\ ps[top].last >= p - 1 /\ p > ps[top].last
        /\ \A k \in ElementsOf(open) : k \in 1 .. top
    BY <1>1, TopIs DEF BodyDone
  <2>3. /\ WriteCpp(ls) /\ open' = Front(open)
        /\ numPremisesProcessed' = numPremisesProcessed + 1
        /\ UNCHANGED <<module, comments, pc, g, d, p, nameId>>
    BY <1>1, <1>3, <2>2 DEF EndWhile, PostvisitPremise
  <2>4. ps[top].last = p - 1
    <3>1. ps[top].last \in Nat
      BY <2>1, <2>2 DEF WellNested
    <3> HIDE DEF ps, top
    <3> QED
      BY <2>1, <2>2, <3>1
  <2>5. /\ ElementsOf(open') = ElementsOf(open) \ {top}
        /\ Cardinality(EndedBefore(ps, p, ElementsOf(open')))
             = Cardinality(EndedBefore(ps, p, ElementsOf(open))) + 1
    BY <1>1, <2>3, EndedAfterClause
  <2>6. /\ low \in 0 .. top - 1 /\ \A k \in ElementsOf(open') : k \in 1 .. low
    <3>1. (IInv /\ pc = "premise")'
      BY <1>1, <2>3, EndWhileStep
    <3>2. /\ low \in 0 .. p - 1 /\ \A k \in ElementsOf(open') : k \in 1 .. low
          /\ low = 0 \/ low \in ElementsOf(open')
      <4>1. OpenUpToTop'
        BY <3>1, TopBounds, PTL
      <4>2. ElementsOf(open)' = ElementsOf(open') /\ p' = p
        BY <2>3 DEF ElementsOf
      <4> QED
        BY <4>1, <4>2 DEF OpenUpToTop
    <3> HIDE DEF low, top
    <3> QED
      BY <2>2, <2>5, <3>2
  <2>7. NoneEnds(ps, p - 1, low, top - 1)
    <3> SUFFICES ASSUME NEW j \in low + 1 .. top - 1, OpensWhile(ps[j]), ps[j].last = p - 1
                 PROVE  FALSE
      BY DEF NoneEnds
    <3>1. j \in 1 .. top /\ j # top /\ j \notin 1 .. low
      <4> HIDE DEF low, top, ps
      <4> QED
        BY <2>1, <2>2, <2>6
    <3>2. ps[j].last >= p - 1
      <4> HIDE DEF low, top, ps
      <4> QED
        BY <2>1
    <3>3. j \in ElementsOf(open)
      BY <1>1, <3>1, <3>2 DEF OutputInv, NoneClosedAbove
    <3> HIDE DEF low, top, ps
    <3> QED
      BY <2>5, <2>6, <3>1, <3>3
  <2> DEFINE now  == UpTo(module, g, d, p, top, comments)
             then == UpTo(module, g, d, p, low, comments)
             head == ClassTo(module, g, d - 1, comments) \o <<Line("beginMethod", d, 0)>>
  <2>8. then = now \o ls /\ now \in Seq(Lines)
    <3>1. /\ module \in Module /\ g \in DOMAIN module /\ d \in DOMAIN module[g].defns
          /\ ps = module[g].defns[d].premises /\ p \in 1 .. Len(ps) + 1
          /\ top \in 1 .. p - 1 /\ OpensWhile(ps[top]) /\ ps[top].last = p - 1
          /\ low \in 0 .. top - 1 /\ NoneEnds(ps, p - 1, low, top - 1)
      BY <2>1, <2>2, <2>4, <2>6, <2>7
    <3> HIDE DEF top, low, ps
    <3> QED
      BY ONLY <3>1, UpToExit
  <2>9. ls \in Seq(Lines)
    <3>1. top \in Nat
      <4> HIDE DEF top
      <4> QED
        BY <2>1, <2>2
    <3> HIDE DEF top
    <3> QED
      BY <3>1, OneLine DEF PremiseOps
  <2>10. ClassUpTo(module, g, d, p', Top', comments)
           = ClassUpTo(module, g, d, p, Top, comments) \o ls
    <3>1. /\ ClassUpTo(module, g, d, p, Top, comments) = head \o now
          /\ ClassUpTo(module, g, d, p', Top', comments) = head \o then
      BY <2>3 DEF ClassUpTo
    <3>2. head \in Seq(Lines)
      BY <2>1, BeforePremises
    <3> HIDE DEF head, now, then, ls
    <3>3. head \o (now \o ls) = (head \o now) \o ls
      <4>1. now \in Seq(Lines)
        BY <2>8
      <4> QED
        BY ONLY <2>9, <3>2, <4>1, ConcatAssociative, SMTT(30)
    <3> QED
      BY <2>8, <3>1, <3>3
  <2>11. ListsEnd' /\ BadIsDamaged' /\ ClassSoFar' /\ ClassesSoFar'
    <3> HIDE DEF ls
    <3> QED
      BY <1>1, <2>3, <2>10, MethodGrows
  <2>12. Premises' = ps /\ ElementsOf(open)' = ElementsOf(open')
    BY <2>3, SamePlace DEF ElementsOf
  <2>13. NoneClosedAbove'
    <3>1. \A k \in 1 .. low :
            OpensWhile(ps[k]) /\ ps[k].last >= p - 1 => k \in ElementsOf(open')
      <4> SUFFICES ASSUME NEW k \in 1 .. low, OpensWhile(ps[k]), ps[k].last >= p - 1
                   PROVE  k \in ElementsOf(open')
        OBVIOUS
      <4>1. k \in 1 .. top /\ k # top
        <5> HIDE DEF low, top
        <5> QED
          BY <2>1, <2>2, <2>6
      <4>2. k \in ElementsOf(open)
        BY <1>1, <4>1 DEF OutputInv, NoneClosedAbove
      <4> QED
        BY <2>5, <4>1, <4>2
    <3> QED
      BY <2>3, <2>12, <3>1 DEF NoneClosedAbove
  <2>14. PremisesAreNumbered'
    <3>1. EndedBefore(Premises, p, ElementsOf(open))' = EndedBefore(ps, p, ElementsOf(open'))
      BY <2>3, <2>12 DEF EndedBefore
    <3>2. numPremisesProcessed = Cardinality(EndedBefore(ps, p, ElementsOf(open)))
      BY <1>1 DEF OutputInv, PremisesAreNumbered
    <3>3. numPremisesProcessed' = Cardinality(EndedBefore(Premises, p, ElementsOf(open))')
      BY <2>3, <2>5, <3>1, <3>2
    <3> QED
      BY <1>1, <2>3, <3>3 DEF PremisesAreNumbered
  <2>15. TempsAreNumbered'
    <3>1. nameId = TempsBefore(module, g, d, p)
      BY <1>1 DEF OutputInv, TempsAreNumbered
    <3> QED
      BY <1>1, <2>3, <3>1 DEF TempsAreNumbered
  <2> QED
    BY <2>11, <2>13, <2>14, <2>15 DEF OutputInv
<1> QED
  BY <1>2, <1>3

-----------------------------------------------------------------------------
(* The steps between premises.                                             *)

\* What the lemmas about the tree ask of the cursor at a group.
LEMMA InGroup ==
  ASSUME IInv, pc \in {"group", "defn", "premise", "endGroup"}
  PROVE  /\ module \in Module /\ g \in DOMAIN module /\ Group = module[g]
         /\ module[g].defns \in Seq(InferenceDefn)
         /\ DOMAIN module[g].defns = 1 .. Len(module[g].defns)
         /\ Len(module[g].defns) \in Nat /\ g \in Nat /\ d \in Nat \ {0}
         /\ pc \in {"defn", "premise"} => d \in DOMAIN module[g].defns
<1>1. module \in Module /\ g \in DOMAIN module /\ Group = module[g] /\ d \in Nat \ {0}
  BY DEF IInv, TypeOK, CursorOK, Group
<1>2. module[g].defns \in Seq(InferenceDefn) /\ g \in Nat
  BY <1>1, ModuleParts
<1>3. pc \in {"defn", "premise"} => d \in DOMAIN module[g].defns
  BY <1>1 DEF IInv, TypeOK, CursorOK
<1> QED
  BY <1>1, <1>2, <1>3

\* A method begins.
LEMMA PrevisitDefnOutput ==
  ASSUME IInv, OutputInv, PrevisitDefn
  PROVE  OutputInv'
<1> DEFINE h == HeaderPath(Group)
           c == CppPath(Group)
           hs == <<Line("declaration", d, 0)>>
           cs == <<Line("beginMethod", d, 0)>>
<1>1. /\ pc = "defn" /\ WriteBoth(hs, cs) /\ pc' = "premise" /\ p' = 1
      /\ UNCHANGED <<module, comments, g, d, open, numPremisesProcessed, nameId>>
  BY DEF PrevisitDefn, context
<1>2. /\ module \in Module /\ g \in DOMAIN module /\ d \in DOMAIN module[g].defns
      /\ d \in Nat \ {0} /\ d - 1 \in Nat /\ (d - 1) + 1 = d
  BY <1>1, InGroup
<1>3. open = <<>> /\ Top' = 0 /\ ElementsOf(open)' = {}
  <2>1. open = <<>>
    BY <1>1 DEF IInv, NothingLeftOpen
  <2> QED
    BY <1>1, <2>1 DEF Top, ElementsOf
<1>4. /\ \A path \in Paths : path # h /\ path # c => Untouched(path)
      /\ Got(h, hs) /\ Got(c, cs)
      /\ headerFileOfs' = "bad" => h \in damaged'
      /\ cppFileOfs' = "bad" => c \in damaged'
  <2> HIDE DEF hs, cs
  <2> QED
    BY <1>1, BothWritten DEF OutputInv
<1>5. HeaderPath(Group)' = h /\ CppPath(Group)' = c /\ Premises' = Premises
  BY <1>1, SamePlace
<1> DEFINE n == d - 1
           hnow  == HeaderTo(g, n)
           hthen == HeaderTo(g, d)
           cnow  == ClassTo(module, g, n, comments)
           cthen == ClassUpTo(module, g, d, 1, 0, comments)
<1>6. Holds(h, hnow) /\ Holds(c, cnow)
  BY <1>1 DEF OutputInv, ClassSoFar
<1>7. hthen = hnow \o hs
  <2>1. HeaderTo(g, n + 1) = HeaderTo(g, n) \o <<Line("declaration", n + 1, 0)>>
    <3> HIDE DEF n
    <3>1. n \in Nat
      BY <1>2 DEF n
    <3> QED
      BY <1>2, <3>1, HeaderToStep, Zenon
  <2> QED
    BY <1>2, <2>1
<1>8. cthen = cnow \o cs
  BY <1>2, UpToStart
<1>9. ListsEnd' /\ InClass /\ InClass' /\ NoneClosedAbove'
  BY <1>1, <1>3 DEF ListsEnd, InClass, NoneClosedAbove
<1>10. ClassesSoFar'
  BY <1>1, <1>4, <1>9, OthersStay DEF OutputInv
<1>11. ClassSoFar'
  <2>1. /\ HeaderTo(g, d)' = hthen
        /\ ClassUpTo(module, g, d, p, Top, comments)' = cthen
    BY <1>1, <1>3
  <2> HIDE DEF h, c, hs, cs, hnow, hthen, cnow, cthen
  <2>2. /\ h \in damaged' \/ files'[h] = hthen
        /\ c \in damaged' \/ files'[c] = cthen
    BY <1>4, <1>6, <1>7, <1>8 DEF Got, Holds
  <2> QED
    BY <1>1, <1>5, <2>1, <2>2 DEF ClassSoFar, Holds
<1>12. BadIsDamaged'
  <2> HIDE DEF h, c
  <2> QED
    BY <1>4, <1>5 DEF BadIsDamaged
<1>13. PremisesAreNumbered'
  <2>1. EndedBefore(Premises, p, ElementsOf(open))' = {}
    <3>1. \A j \in DOMAIN Premises : ~(j < 1)
      <4>1. Premises \in Seq(Premise)
        BY <1>2, ModuleParts DEF Premises, Defn, Group
      <4> QED
        BY <4>1
    <3> QED
      BY <1>1, <1>5, <3>1 DEF EndedBefore
  <2>2. numPremisesProcessed = 0
    BY <1>1 DEF OutputInv, PremisesAreNumbered
  <2>3. Cardinality(EndedBefore(Premises, p, ElementsOf(open))') = 0
    BY <2>1, FS_EmptySet
  <2>4. numPremisesProcessed' = Cardinality(EndedBefore(Premises, p, ElementsOf(open))')
    BY <1>1, <2>2, <2>3
  <2> QED
    BY <1>1, <2>4 DEF PremisesAreNumbered
<1>14. TempsAreNumbered'
  BY <1>1 DEF OutputInv, TempsAreNumbered
<1> QED
  BY <1>9, <1>10, <1>11, <1>12, <1>13, <1>14 DEF OutputInv

\* A method ends.
LEMMA PostvisitDefnOutput ==
  ASSUME IInv, OutputInv, PostvisitDefn
  PROVE  OutputInv'
<1> DEFINE h == HeaderPath(Group)
           c == CppPath(Group)
           ls == <<Line("return", d, 0), Line("endMethod", d, 0)>>
<1>1. /\ pc = "premise" /\ ~BodyDone /\ p \notin DOMAIN Premises
      /\ WriteCpp(ls) /\ numPremisesProcessed' = 0 /\ VisitDefns(d + 1)
      /\ UNCHANGED <<module, comments, g, p, open, nameId>>
  BY DEF PostvisitDefn
<1>2. open = <<>> /\ Top = 0
  BY <1>1, AllOver DEF Top
<1>3. /\ module \in Module /\ g \in DOMAIN module /\ d \in DOMAIN module[g].defns
      /\ d \in Nat \ {0} /\ (d + 1) - 1 = d /\ Group = module[g]
      /\ DOMAIN module[g].defns = 1 .. Len(module[g].defns)
      /\ Len(module[g].defns) \in Nat
  BY <1>1, InGroup
<1>4. p = Len(module[g].defns[d].premises) + 1
  BY <1>1, InMethod
<1>5. /\ d' = d + 1 /\ pc' \in {"defn", "endGroup"}
      /\ pc' = "endGroup" => d = Len(module[g].defns)
  BY <1>1, <1>3 DEF VisitDefns
<1>6. /\ \A path \in Paths : path # c => Untouched(path)
      /\ Got(c, ls)
      /\ headerFileOfs' = headerFileOfs
      /\ headerFileOfs = "bad" => h \in damaged'
      /\ cppFileOfs' = "bad" => c \in damaged'
  <2> HIDE DEF ls
  <2> QED
    BY <1>1, CppWritten DEF OutputInv
<1>7. HeaderPath(Group)' = h /\ CppPath(Group)' = c /\ h \in Paths /\ h # c
  BY <1>1, SamePlace, AtGroup, FilesDiffer
<1> DEFINE header == HeaderTo(g, d)
           now  == ClassUpTo(module, g, d, p, 0, comments)
           then == ClassTo(module, g, d, comments)
<1>8. Holds(h, header) /\ Holds(c, now)
  BY <1>1, <1>2 DEF OutputInv, ClassSoFar
<1>9. now \o ls = then
  BY <1>3, <1>4, MethodEnds
<1>10. ListsEnd' /\ NoneClosedAbove' /\ InClass /\ InClass'
  <2>1. Group' = Group
    BY <1>1, SamePlace
  <2> QED
    BY <1>1, <1>3, <1>5, <2>1 DEF ListsEnd, NoneClosedAbove, InClass
<1>11. ClassesSoFar'
  BY <1>1, <1>6, <1>10, OthersStay DEF OutputInv
<1>12. ClassSoFar'
  <2>1. HeaderTo(g, d - 1)' = header /\ ClassTo(module, g, d - 1, comments)' = then
    BY <1>1, <1>3, <1>5
  <2> HIDE DEF h, c, ls, header, now, then
  <2>2. /\ h \in damaged' \/ files'[h] = header
        /\ c \in damaged' \/ files'[c] = then
    BY <1>6, <1>7, <1>8, <1>9 DEF Untouched, Got, Holds
  <2> QED
    BY <1>5, <1>7, <2>1, <2>2 DEF ClassSoFar, Holds
<1>13. BadIsDamaged'
  <2> HIDE DEF h, c
  <2> QED
    BY <1>6, <1>7 DEF BadIsDamaged
<1>14. PremisesAreNumbered'
  BY <1>1, <1>5 DEF PremisesAreNumbered
<1>15. TempsAreNumbered'
  <2>1. nameId = TempsBefore(module, g, d, p)
    BY <1>1 DEF OutputInv, TempsAreNumbered
  <2>2. nameId = TempsBefore(module, g, d + 1, 1)
    BY <1>3, <1>4, <2>1, TempsAfterMethod
  <2> QED
    BY <1>1, <1>5, <2>2 DEF TempsAreNumbered
<1> QED
  BY <1>10, <1>11, <1>12, <1>13, <1>14, <1>15 DEF OutputInv

\* The files of a class are opened, or the run fails.
LEMMA PrevisitGroupOutput ==
  ASSUME IInv, OutputInv, PrevisitGroup
  PROVE  OutputInv'
<1> DEFINE h == HeaderPath(Group)
           c == CppPath(Group)
           ls == <<Line("preamble", g, 0)>>
           t1 == Truncated(files, h)
           t2 == Truncated(t1, c)
           t3 == Appended(t2, headerFileOfs', h, ls)
<1>1. pc = "group" /\ UNCHANGED <<module, comments, g, p, open, numPremisesProcessed, nameId>>
  BY DEF PrevisitGroup, context
<1>2. CASE pc' = "failed"
  BY <1>2, Stopped
<1>3. CASE /\ VisitDefns(1)
           /\ headerFileOfs' \in Written("good") /\ cppFileOfs' \in Written("good")
           /\ files' = Appended(t3, cppFileOfs', c, ls)
           /\ damaged' = (damaged \ {h, c})
                           \cup DamagedIf(headerFileOfs', h)
                           \cup DamagedIf(cppFileOfs', c)
  <2>1. /\ module \in Module /\ g \in DOMAIN module /\ Group = module[g]
        /\ DOMAIN module[g].defns = 1 .. Len(module[g].defns)
        /\ Len(module[g].defns) \in Nat /\ g \in Nat
    BY <1>1, InGroup
  <2>2. h \in Paths /\ c \in Paths /\ h # c /\ DOMAIN files = Paths
    BY <1>1, AtGroup, FilesDiffer DEF IInv, TypeOK
  <2>3. HeaderPath(Group)' = h /\ CppPath(Group)' = c /\ Group' = Group
    BY <1>1, SamePlace
  <2>4. ls \in Seq(Lines)
    BY <2>1, OneLine DEF FileOps
  <2>5. /\ d' = 1 /\ pc' \in {"defn", "endGroup"}
        /\ pc' = "endGroup" => Len(module[g].defns) = 0
    BY <1>3, <2>1 DEF VisitDefns
  <2>6. HeaderTo(g, 0) = ls /\ ClassTo(module, g, 0, comments) = ls
    <3>1. 0 \in Nat
      OBVIOUS
    <3>2. HeaderTo(g, 0) = <<Line("preamble", g, 0)>>
      BY <2>1, <3>1, HeaderToStep
    <3>3. ClassTo(module, g, 0, comments) = <<Line("preamble", g, 0)>>
      BY <2>1, <3>1, ClassToStep
    <3> QED
      BY <3>2, <3>3
  <2>7. \A s \in Seq(Lines) : <<>> \o s = s
    BY ConcatEmptySeq, Zenon
  <2>8. headerFileOfs' \in {"good", "bad"} /\ cppFileOfs' \in {"good", "bad"}
    BY <1>3 DEF Written
  <2> HIDE DEF h, c, ls
  <2>9. /\ DOMAIN t2 = Paths /\ t2[h] = <<>> /\ t2[c] = <<>>
        /\ \A path \in Paths : path # h /\ path # c => t2[path] = files[path]
    BY <2>2 DEF Truncated
  <2> HIDE DEF t2
  <2>10. /\ DOMAIN t3 = Paths /\ (headerFileOfs' = "good" => t3[h] = ls) /\ t3[c] = <<>>
         /\ \A path \in Paths : path # h /\ path # c => t3[path] = files[path]
    <3>1. <<>> \o ls = ls
      BY <2>4, <2>7
    <3> QED
      BY ONLY <2>2, <2>9, <3>1 DEF Appended
  <2> HIDE DEF t3
  <2>11. /\ headerFileOfs' = "good" => files'[h] = ls
         /\ cppFileOfs' = "good" => files'[c] = ls
         /\ \A path \in Paths : path # h /\ path # c => files'[path] = files[path]
    <3>1. <<>> \o ls = ls
      BY <2>4, <2>7
    <3> QED
      BY <1>3, <2>2, <2>10, <3>1 DEF Appended
  <2>12. /\ headerFileOfs' = "bad" => h \in damaged'
         /\ cppFileOfs' = "bad" => c \in damaged'
         /\ \A path \in Paths : path # h /\ path # c => Untouched(path)
    BY <1>3, <2>8, <2>11 DEF DamagedIf, Untouched
  <2>13. InClass' /\ ListsEnd' /\ NoneClosedAbove'
    BY <2>1, <2>3, <2>5 DEF InClass, ListsEnd, NoneClosedAbove
  <2>14. ClassesSoFar'
    BY <1>1, <2>12, <2>13, OthersStay DEF OutputInv, h, c
  <2>15. BadIsDamaged'
    BY <2>3, <2>12 DEF BadIsDamaged
  <2>16. ClassSoFar'
    <3>1. /\ HeaderTo(g, d - 1)' = ls
          /\ ClassTo(module, g, d - 1, comments)' = ls
      <4>1. d' - 1 = 0
        BY <2>5
      <4> QED
        BY <1>1, <2>6, <4>1
    <3>2. (h \in damaged' \/ files'[h] = ls) /\ (c \in damaged' \/ files'[c] = ls)
      BY <2>8, <2>11, <2>12
    <3> QED
      BY <2>3, <2>5, <3>1, <3>2 DEF ClassSoFar, Holds
  <2>17. PremisesAreNumbered' /\ TempsAreNumbered'
    BY <1>1, <2>5 DEF OutputInv, PremisesAreNumbered, TempsAreNumbered
  <2> QED
    BY <2>13, <2>14, <2>15, <2>16, <2>17 DEF OutputInv
<1> QED
  BY <1>1, <1>2, <1>3 DEF PrevisitGroup

\* The files of a class are closed.
LEMMA PostvisitGroupOutput ==
  ASSUME IInv, OutputInv, PostvisitGroup
  PROVE  OutputInv'
<1> DEFINE h == HeaderPath(Group)
           c == CppPath(Group)
           ls == <<Line("endClass", g, 0)>>
<1>1. /\ pc = "endGroup" /\ VisitGroups(g + 1)
      /\ UNCHANGED <<module, comments, d, p, open, numPremisesProcessed, nameId>>
  BY DEF PostvisitGroup, context
<1>2. PICK written \in Written(headerFileOfs) :
        /\ files' = Appended(files, written, h, ls)
        /\ \E lost \in SUBSET {h, c} : damaged' = damaged \cup DamagedIf(written, h) \cup lost
  BY DEF PostvisitGroup
<1>3. PICK lost \in SUBSET {h, c} : damaged' = damaged \cup DamagedIf(written, h) \cup lost
  BY <1>2
<1>4. /\ module \in Module /\ g \in DOMAIN module /\ Group = module[g]
      /\ g \in Nat /\ DOMAIN module = 1 .. Len(module) /\ Len(module) \in Nat
      /\ d = Len(module[g].defns) + 1 /\ d - 1 = Len(module[g].defns)
  <2>1. /\ module \in Module /\ g \in DOMAIN module /\ Group = module[g]
        /\ g \in Nat /\ Len(module[g].defns) \in Nat
    BY <1>1, InGroup
  <2>2. d = Len(module[g].defns) + 1
    BY <1>1, <2>1 DEF OutputInv, ListsEnd
  <2> QED
    BY <2>1, <2>2 DEF Module
<1>5. /\ g' = g + 1 /\ pc' \in {"group", "succeeded"}
      /\ pc' = "succeeded" => g = Len(module)
  BY <1>1, <1>4 DEF VisitGroups
<1>6. /\ h \in Paths /\ c \in Paths /\ h # c /\ DOMAIN files = Paths
      /\ headerFileOfs \in {"good", "bad"}
      /\ headerFileOfs = "bad" => h \in damaged
  BY <1>1, AtGroup, FilesDiffer
  DEF IInv, TypeOK, StreamsInv, OutputInv, BadIsDamaged, InClass
<1> HIDE DEF ls, h, c
<1>7. \A path \in Paths : path # h /\ path # c => Untouched(path)
  BY <1>2, <1>3, <1>6 DEF Appended, DamagedIf, Untouched
<1>8. /\ Got(h, ls)
      /\ c \notin damaged' => c \notin damaged /\ files'[c] = files[c]
  BY <1>2, <1>3, <1>6 DEF Appended, DamagedIf, Written, Got
<1> DEFINE hnow  == HeaderTo(g, Len(module[g].defns))
           hthen == ClassHeader(module, g)
           cnow  == ClassCode(module, g, comments)
<1>9. Holds(h, hnow) /\ Holds(c, cnow)
  <2>1. /\ Holds(HeaderPath(Group), HeaderTo(g, d - 1))
        /\ Holds(CppPath(Group), ClassTo(module, g, d - 1, comments))
    BY <1>1 DEF OutputInv, ClassSoFar
  <2>2. ClassTo(module, g, Len(module[g].defns), comments) = ClassCode(module, g, comments)
    <3>1. 0 \in Nat
      OBVIOUS
    <3> QED
      BY <1>4, <3>1, ClassToStep
  <2> QED
    BY <1>4, <2>1, <2>2 DEF h, c
<1>10. hnow \o ls = hthen
  <2>1. 0 \in Nat
    OBVIOUS
  <2> QED
    BY <1>4, <2>1, HeaderToStep DEF ls
<1> HIDE DEF hnow, hthen, cnow
<1>11. (h \in damaged' \/ files'[h] = hthen) /\ (c \in damaged' \/ files'[c] = cnow)
  BY <1>8, <1>9, <1>10 DEF Got, Holds
<1>12. ClassesSoFar'
  <2>1. Begun = g /\ Begun' = g /\ g' - 1 = g
    BY <1>1, <1>4, <1>5 DEF Begun, InClass
  <2>2. \A i : /\ ClassName(i)' = ClassName(i)
               /\ HeaderPath(module[i])' = HeaderPath(module[i])
               /\ CppPath(module[i])' = CppPath(module[i])
               /\ ClassHeader(module, i)' = ClassHeader(module, i)
               /\ ClassCode(module, i, comments)' = ClassCode(module, i, comments)
    BY <1>1 DEF ClassName, HeaderPath, CppPath, EnvDefn
  <2>3. ASSUME NEW i \in 1 .. g, \A j \in i + 1 .. g : ClassName(j) # ClassName(i)
        PROVE  /\ Holds(HeaderPath(module[i]), ClassHeader(module, i))'
               /\ Holds(CppPath(module[i]), ClassCode(module, i, comments))'
    <3>1. CASE i = g
      BY <1>4, <1>11, <2>2, <3>1 DEF Holds, h, c, hthen, cnow
    <3>2. CASE i # g
      <4> DEFINE hi == HeaderPath(module[i])
                 ci == CppPath(module[i])
      <4>1. i \in 1 .. g - 1 /\ i \in DOMAIN module /\ g \in i + 1 .. g
        BY <1>4, <3>2
      <4>2. hi \in Paths /\ ci \in Paths
        BY <1>4, <4>1, GroupFiles DEF IInv
      <4>3. EnvDefn(module[i].env, "ClassName") # EnvDefn(Group.env, "ClassName")
        BY <1>4, <2>3, <4>1 DEF ClassName
      <4>4. hi # h /\ ci # c /\ hi # c /\ ci # h
        BY <4>3, FilesDiffer DEF h, c
      <4>5. Holds(hi, ClassHeader(module, i)) /\ Holds(ci, ClassCode(module, i, comments))
        BY <1>1, <2>1, <2>3, <4>1 DEF OutputInv, ClassesSoFar, InClass
      <4>6. Untouched(hi) /\ Untouched(ci)
        <5> HIDE DEF hi, ci
        <5> QED
          BY <1>7, <4>2, <4>4
      <4>7. /\ hi \in damaged' \/ files'[hi] = ClassHeader(module, i)
            /\ ci \in damaged' \/ files'[ci] = ClassCode(module, i, comments)
        <5> HIDE DEF hi, ci
        <5> QED
          BY <4>5, <4>6 DEF Untouched, Holds
      <4> QED
        BY <2>2, <4>7 DEF Holds
    <3> QED
      BY <3>1, <3>2
  <2> QED
    BY <2>1, <2>2, <2>3 DEF ClassesSoFar
<1>13. ListsEnd' /\ NoneClosedAbove' /\ BadIsDamaged' /\ ClassSoFar'
  BY <1>1, <1>4, <1>5 DEF ListsEnd, NoneClosedAbove, BadIsDamaged, ClassSoFar, InClass
<1>14. PremisesAreNumbered'
  BY <1>1, <1>5 DEF OutputInv, PremisesAreNumbered
<1>15. TempsAreNumbered'
  <2>1. nameId = TempsBefore(module, g, d, 1)
    BY <1>1 DEF OutputInv, TempsAreNumbered
  <2>2. nameId = TempsBefore(module, g + 1, 1, 1)
    BY <1>4, <2>1, TempsAfterGroup
  <2> QED
    BY <1>1, <1>5, <2>2 DEF TempsAreNumbered
<1> QED
  BY <1>12, <1>13, <1>14, <1>15 DEF OutputInv

\* The files of the error codes come before the first class.
LEMMA SynthesizeErrorCodeFilesOutput ==
  ASSUME IInv, OutputInv, SynthesizeErrorCodeFiles
  PROVE  OutputInv'
<1>1. pc = "errorCodes" /\ UNCHANGED <<module, numPremisesProcessed, nameId>>
  BY DEF SynthesizeErrorCodeFiles, context
<1>2. CASE pc' = "failed"
  BY <1>2, Stopped
<1>3. CASE VisitGroups(1)
  <2>1. module \in Module /\ DOMAIN module = 1 .. Len(module) /\ Len(module) \in Nat
    BY DEF IInv, TypeOK, Module
  <2>2. /\ g' = 1 /\ pc' \in {"group", "succeeded"}
        /\ pc' = "succeeded" => Len(module) = 0
    BY <1>3, <2>1 DEF VisitGroups
  <2>3. ListsEnd' /\ NoneClosedAbove' /\ BadIsDamaged' /\ ClassSoFar'
    BY <1>1, <2>2 DEF ListsEnd, NoneClosedAbove, BadIsDamaged, ClassSoFar, InClass
  <2>4. PremisesAreNumbered'
    BY <1>1, <2>2 DEF OutputInv, PremisesAreNumbered
  <2>5. TempsAreNumbered'
    <3>1. nameId = 0
      BY <1>1 DEF OutputInv, TempsAreNumbered
    <3>2. TempsBefore(module, 1, 1, 1) = 0
      BY <2>1, TempsAtStart
    <3> QED
      BY <1>1, <2>2, <3>1, <3>2 DEF TempsAreNumbered
  <2>6. ClassesSoFar'
    <3>1. 1 .. g' - 1 = {}
      BY <2>2
    <3> QED
      BY <3>1 DEF ClassesSoFar
  <2> QED
    BY <2>3, <2>4, <2>5, <2>6 DEF OutputInv
<1> QED
  BY <1>1, <1>2, <1>3 DEF SynthesizeErrorCodeFiles

\* Before synthesis no class is finished.
LEMMA InitOutput ==
  ASSUME Init
  PROVE  OutputInv
BY DEF Init, OutputInv, ListsEnd, NoneClosedAbove, PremisesAreNumbered, TempsAreNumbered,
       BadIsDamaged, ClassSoFar, ClassesSoFar, InClass

\* Stuttering changes nothing.
LEMMA StutterOutput ==
  ASSUME OutputInv, UNCHANGED vars
  PROVE  OutputInv'
<1>1. UNCHANGED <<module, comments, pc, g, d, p, open, numPremisesProcessed, nameId,
                  headerFileOfs, cppFileOfs, files, damaged>>
  BY DEF vars, cursor, context, output
<1>2. /\ Group' = Group /\ Premises' = Premises
      /\ HeaderPath(Group)' = HeaderPath(Group) /\ CppPath(Group)' = CppPath(Group)
  BY <1>1, SamePlace
<1>3. Top' = Top /\ InClass' = InClass /\ ElementsOf(open)' = ElementsOf(open)
  BY <1>1 DEF Top, InClass, ElementsOf
<1>4. ListsEnd' /\ NoneClosedAbove' /\ BadIsDamaged'
  BY <1>1, <1>2, <1>3 DEF OutputInv, ListsEnd, NoneClosedAbove, BadIsDamaged
<1>5. PremisesAreNumbered'
  <2>1. EndedBefore(Premises, p, ElementsOf(open))'
          = EndedBefore(Premises, p, ElementsOf(open))
    BY <1>1, <1>2, <1>3 DEF EndedBefore
  <2> QED
    BY <1>1, <2>1 DEF OutputInv, PremisesAreNumbered
<1>6. TempsAreNumbered'
  BY <1>1 DEF OutputInv, TempsAreNumbered
<1>7. ClassSoFar'
  BY <1>1, <1>2, <1>3 DEF OutputInv, ClassSoFar, Holds
<1>8. ClassesSoFar'
  <2>1. Begun' = Begun
    BY <1>1, <1>3 DEF Begun
  <2>2. \A i : /\ ClassName(i)' = ClassName(i)
               /\ HeaderPath(module[i])' = HeaderPath(module[i])
               /\ CppPath(module[i])' = CppPath(module[i])
    BY <1>1 DEF ClassName, HeaderPath, CppPath, EnvDefn
  <2> QED
    BY <1>1, <1>3, <2>1, <2>2 DEF OutputInv, ClassesSoFar, Holds
<1> QED
  BY <1>4, <1>5, <1>6, <1>7, <1>8 DEF OutputInv

-----------------------------------------------------------------------------
(* The theorems.                                                           *)

\* No step breaks what is said of the output.
LEMMA OutputStep ==
  ASSUME IInv, OutputInv, [Next]_vars
  PROVE  OutputInv'
<1>1. CASE SynthesizeErrorCodeFiles
  BY <1>1, SynthesizeErrorCodeFilesOutput
<1>2. CASE PrevisitGroup
  BY <1>2, PrevisitGroupOutput
<1>3. CASE PrevisitDefn
  BY <1>3, PrevisitDefnOutput
<1>4. CASE BeginWhile
  BY <1>4, BeginWhileOutput
<1>5. CASE EndWhile
  BY <1>5, EndWhileOutput
<1>6. CASE DeduceComputed
  BY <1>6, DeduceComputedOutput
<1>7. CASE Declare
  BY <1>7, DeclareOutput
<1>8. CASE PrevisitEquality
  BY <1>8, PrevisitEqualityOutput
<1>9. CASE PostvisitDefn
  BY <1>9, PostvisitDefnOutput
<1>10. CASE PostvisitGroup
  BY <1>10, PostvisitGroupOutput
<1>11. CASE UNCHANGED vars
  BY <1>11, StutterOutput
<1> QED
  BY <1>1, <1>2, <1>3, <1>4, <1>5, <1>6, <1>7, <1>8, <1>9, <1>10, <1>11
  DEF Next, Terminating

\* At the end the files that no later class has taken over hold their class.
LEMMA OutputAtTheEnd ==
  ASSUME IInv, OutputInv
  PROVE  OutputIsTheCode
<1> SUFFICES ASSUME pc = "succeeded",
                    NEW i \in DOMAIN module, NEW name \in Names, Owns(i, name)
             PROVE  /\ <<name, ".h">> \in damaged
                         \/ files[<<name, ".h">>] = ClassHeader(module, i)
                    /\ <<name, ".cpp">> \in damaged
                         \/ files[<<name, ".cpp">>] = ClassCode(module, i, comments)
  BY DEF OutputIsTheCode
<1>1. DOMAIN module = 1 .. Len(module) /\ Len(module) \in Nat
  BY DEF IInv, TypeOK, Module
<1>2. g = Len(module) + 1 /\ Begun = Len(module) /\ i \in 1 .. g - 1
  BY <1>1 DEF OutputInv, ListsEnd, Begun, InClass
<1>3. \A j \in i + 1 .. Begun : ClassName(j) # ClassName(i)
  BY <1>2 DEF Owns, ClassName
<1>4. /\ Holds(HeaderPath(module[i]), ClassHeader(module, i))
      /\ Holds(CppPath(module[i]), ClassCode(module, i, comments))
  BY <1>2, <1>3 DEF OutputInv, ClassesSoFar
<1>5. HeaderPath(module[i]) = <<name, ".h">> /\ CppPath(module[i]) = <<name, ".cpp">>
  BY DEF HeaderPath, CppPath, Owns
<1> QED
  BY <1>4, <1>5 DEF Holds

\* In every state, whatever has failed: what is in a file that misses nothing
\* is the code the module stands for, as far as the traversal has come.
THEOREM OutputSoFar == Spec => []OutputInv
BY InitOutput, OutputStep, InductiveInvariant, PTL DEF Spec

\* A successful run leaves in every file it did not lose part of exactly the
\* code the module stands for, with nothing of an earlier class or compilation.
THEOREM OutputIsWritten == Spec => []OutputIsTheCode
BY OutputAtTheEnd, InductiveInvariant, OutputSoFar, PTL

=============================================================================
