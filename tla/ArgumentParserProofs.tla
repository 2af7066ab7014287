------------------------ MODULE ArgumentParserProofs ------------------------
(***************************************************************************)
(* Proofs about ArgumentParser, for any keys, letters, options and lines:  *)
(* its types, that the walk stays inside the line, that the check of the   *)
(* shorthands establishes that no two options share one, and that the walk *)
(* token by token implements ArgumentParsing, which reads the whole line   *)
(* in one step.                                                            *)
(***************************************************************************)
EXTENDS ArgumentParser, BasicLemmas, FiniteSetTheorems

\* A registered key holds an option, any other key holds nothing.
LEMMA RegisteredOptions ==
  ASSUME NEW m \in OptionMap, NEW k \in Registered(m)
  PROVE  k \in Keys /\ m[k] \in Option
BY CommandLineAssumption DEF Registered, OptionMap

\* What __registerCmdlOption and the end of the iteration leave behind.
LEMMA RegisterStep ==
  ASSUME IInv, NEW key, pc = "scan", argc # 0, RegisterCmdlOption(key)
  PROVE  /\ opts' \in OptionMap
         /\ pc' \in {"idle", "scan"}
         /\ result' \in {"none", "true", "false"}
         /\ argv' = argv /\ at' \in Nat \ {0} /\ argc' \in Int
         /\ argc' >= 0 /\ argc' = Len(argv) + 1 - at'
<1> USE DEF IInv, TypeOK, ScanStaysInside
<1>1. CASE key \notin Registered(opts)
  BY <1>1 DEF RegisterCmdlOption, Return, cursor
<1>2. ASSUME key \in Registered(opts), NEW v \in Value
      PROVE  [opts EXCEPT ![key].value = v] \in OptionMap
  <2>1. key \in Keys /\ opts[key] \in Option
    BY <1>2, RegisteredOptions
  <2>2. [opts[key] EXCEPT !.value = v] \in Option
    BY <2>1, <1>2 DEF Option
  <2> QED
    BY <2>1, <2>2 DEF OptionMap
<1>3. CASE key \in Registered(opts) /\ opts[key].kind = "boolean"
  <2>1. opts' \in OptionMap
    BY <1>2, <1>3 DEF RegisterCmdlOption, Value
  <2>2. at' = at + 1 /\ argc' = argc - 1 /\ UNCHANGED <<argv, pc, result>>
    BY <1>3 DEF RegisterCmdlOption, AdvanceArgv
  <2> QED
    BY <2>1, <2>2
<1>4. CASE /\ key \in Registered(opts) /\ opts[key].kind # "boolean"
           /\ argc - 1 < 1
  BY <1>4 DEF RegisterCmdlOption, Return, cursor
<1>5. CASE /\ key \in Registered(opts) /\ opts[key].kind # "boolean"
           /\ ~(argc - 1 < 1)
  <2>1. at + 1 \in DOMAIN argv
    BY <1>5
  <2>2. Arg(at + 1) \in Token
    BY <2>1 DEF Arg
  <2>3. Cast(opts[key], Arg(at + 1)) \subseteq Value
    BY <2>2, ExtractedAssumption DEF Cast, Value
  <2>4. opts' \in OptionMap
    BY <1>2, <1>5, <2>3 DEF RegisterCmdlOption
  <2>5. at' = at + 2 /\ argc' = argc - 2 /\ UNCHANGED <<argv, pc, result>>
    BY <1>5 DEF RegisterCmdlOption, AdvanceArgv
  <2> QED
    BY <1>5, <2>4, <2>5
<1> QED
  BY <1>1, <1>3, <1>4, <1>5

\* Every step of the program preserves the invariant.
LEMMA StepInv == IInv /\ [Next]_vars => IInv'
<1> SUFFICES ASSUME IInv, [Next]_vars PROVE IInv'
  OBVIOUS
<1> USE DEF IInv, TypeOK, ScanStaysInside, settings, cursor
<1>1. CASE AddParameter
  <2>1. PICK r \in Registrations :
          /\ shorthandMap' = [shorthandMap EXCEPT ![r.option.letter] = r.key]
          /\ opts' = [opts EXCEPT ![r.key] = WithValue(r.option, NoValue)]
    BY <1>1 DEF AddParameter
  <2>2. r.key \in Keys /\ r.option \in Parameter
    BY ParserAssumption
  <2>3. WithValue(r.option, NoValue) \in Option
    BY <2>2 DEF WithValue, Parameter, Option
  <2>4. opts' \in OptionMap /\ shorthandMap' \in ShortHandMap
    BY <2>1, <2>2, <2>3 DEF OptionMap, ShortHandMap, Parameter
  <2>5. registrations' \in 0 .. MaxRegistrations
    BY <1>1, ParserAssumption DEF AddParameter
  <2> QED
    BY <1>1, <2>4, <2>5 DEF AddParameter, CheckedInv
<1>2. CASE SetMinimumPositionalArgsRequired
  BY <1>2, ParserAssumption DEF SetMinimumPositionalArgsRequired, CheckedInv
<1>3. CASE ParseArgs
  <2>1. PICK line \in CommandLines[parses + 1] :
          argv' = line /\ at' = 1 /\ argc' = Len(line)
    BY <1>3 DEF ParseArgs
  <2>2. parses + 1 \in 1 .. Len(CommandLines)
    BY <1>3, ParserAssumption DEF ParseArgs
  <2>3. line \in Seq(Token)
    BY <2>2, ParserAssumption
  <2>4. entry' \in [opts: OptionMap, positionalArgs: Seq(Token)]
    BY <1>3 DEF ParseArgs
  <2> QED
    BY <1>3, <2>1, <2>2, <2>3, <2>4 DEF ParseArgs, CheckedInv
<1>4. CASE SkipProgramName
  <2>1. CASE argc < 1
    BY <1>4, <2>1 DEF SkipProgramName, Return, CheckedInv
  <2>2. CASE ~(argc < 1)
    <3>1. at' = at + 1 /\ argc' = argc - 1
      BY <1>4, <2>2 DEF SkipProgramName, AdvanceArgv
    <3>2. pc' = "scan" /\ UNCHANGED <<argv, result>>
      BY <1>4, <2>2 DEF SkipProgramName
    <3>3. UNCHANGED <<opts, shorthandMap, positionalArgs, minPositional, dst,
                      registrations, parses, entry>>
      BY <1>4 DEF SkipProgramName
    <3> QED
      BY <2>2, <3>1, <3>2, <3>3 DEF CheckedInv
  <2> QED
    BY <2>1, <2>2
<1>5. CASE ScanLongOption
  BY <1>5, RegisterStep DEF ScanLongOption, Scanning, CheckedInv
<1>6. CASE ScanShortOption
  BY <1>6, RegisterStep DEF ScanShortOption, Scanning, CheckedInv
<1>7. CASE ScanIllFormed
  BY <1>7 DEF ScanIllFormed, Return, CheckedInv
<1>8. CASE ScanPositional
  <2>1. pc = "scan" /\ argc # 0 /\ at' = at + 1 /\ argc' = argc - 1
    BY <1>8 DEF ScanPositional, Scanning, AdvanceArgv
  <2>2. Arg(at) \in Token
    BY <2>1 DEF Arg
  <2>3. positionalArgs' \in Seq(Token)
    BY <1>8, <2>2 DEF ScanPositional
  <2> QED
    BY <1>8, <2>1, <2>3 DEF ScanPositional, CheckedInv
<1>9. CASE EndOfLine
  BY <1>9 DEF EndOfLine, CheckedInv
<1>10. CASE CheckParameters
  BY <1>10 DEF CheckParameters, Return, CheckedInv, ShorthandsOK, RequiredGiven
<1>11. CASE AssignValues
  <2>1. ASSUME NEW k \in Registered(opts) PROVE Outcome(opts[k]) \in Value
    BY <2>1, RegisteredOptions DEF Outcome, Option
  <2>2. dst' \in Memory
    BY <1>11, <2>1 DEF AssignValues, Memory
  <2> QED
    BY <1>11, <2>2 DEF AssignValues, Return, CheckedInv
<1>12. CASE Finished \/ UNCHANGED vars
  BY <1>12 DEF Finished, vars, CheckedInv, ShorthandsOK, RequiredGiven
<1> QED
  BY <1>1, <1>2, <1>3, <1>4, <1>5, <1>6, <1>7, <1>8, <1>9, <1>10, <1>11, <1>12
  DEF Next, Parsing

\* The walk over a line keeps argc and argv together and never goes past its
\* end, and values are only assigned after all checks of __checkParameters.
THEOREM InductiveInvariant == Spec => []IInv
<1>1. Init => IInv
  BY ParserAssumption
  DEF Init, IInv, TypeOK, ScanStaysInside, CheckedInv, OptionMap, ShortHandMap, Memory
<1> QED
  BY <1>1, StepInv, PTL DEF Spec

\* As many letters as options and a letter of its own for each letter's option
\* leave only one-to-one correspondence.
LEMMA ShorthandsCorrespond ==
  ASSUME opts \in OptionMap, shorthandMap \in ShortHandMap, ShorthandsOK,
         NEW l \in Letters, NEW k \in Keys
  PROVE  shorthandMap[l] = k <=> k \in Registered(opts) /\ opts[k].letter = l
<1> DEFINE used == {m \in Letters : shorthandMap[m] # NoKey}
           f == [m \in used |-> shorthandMap[m]]
<1>1. /\ Cardinality(used) = Cardinality(Registered(opts))
      /\ \A m \in used : /\ shorthandMap[m] \in Registered(opts)
                         /\ opts[shorthandMap[m]].letter = m
  BY DEF ShorthandsOK
<1>2. IsFiniteSet(Registered(opts))
  BY CommandLineAssumption, FS_Subset DEF Registered
<1>3. f \in Injection(used, Registered(opts))
  BY <1>1 DEF Injection, IsInjective
<1>4. f \in Surjection(used, Registered(opts))
  BY <1>1, <1>2, <1>3, FS_Injection
<1>5. ASSUME k \in Registered(opts), opts[k].letter = l PROVE shorthandMap[l] = k
  <2>1. PICK m \in used : f[m] = k
    BY <1>4, <1>5 DEF Surjection
  <2> QED
    BY <1>1, <1>5, <2>1
<1>6. ASSUME shorthandMap[l] = k
      PROVE  k \in Registered(opts) /\ opts[k].letter = l
  BY <1>1, <1>6, CommandLineAssumption
<1> QED
  BY <1>5, <1>6

\* Whenever values are assigned, every letter stands for exactly one option.
THEOREM ShorthandUniqueness == Spec => []LettersAreUnique
<1>1. IInv => LettersAreUnique
  BY ShorthandsCorrespond DEF IInv, TypeOK, CheckedInv, LettersAreUnique
<1> QED
  BY <1>1, InductiveInvariant, PTL


-----------------------------------------------------------------------------
(* How the whole line is read: recursive definitions and their equations.  *)

\* f is the function that OwnedIn defines, on the first n positions.
IsOwned(f, tokens, valued, n) ==
  f = [i \in 0 .. n |-> i > 2 /\ ~f[i - 1] /\ tokens[i - 1] \in valued]

\* There is such a function: without one there would be a least n without one,
\* and the function for n - 1 could be continued.
LEMMA OwnedExists ==
  ASSUME NEW tokens, NEW valued, NEW n \in Nat
  PROVE  \E f : IsOwned(f, tokens, valued, n)
<1> DEFINE wrong == {m \in Nat : ~ \E f : IsOwned(f, tokens, valued, m)}
<1> SUFFICES ASSUME wrong # {} PROVE FALSE
  OBVIOUS
<1>1. PICK m \in wrong : \A k \in wrong : m <= k
  <2>1. wrong \in SUBSET Nat
    OBVIOUS
  <2> HIDE DEF wrong
  <2> QED
    BY <2>1, HasLeast
<1>2. m \in Nat /\ ~ \E f : IsOwned(f, tokens, valued, m)
  BY <1>1
<1>3. CASE m = 0
  <2> DEFINE h == [i \in 0 .. 0 |-> FALSE]
  <2>1. IsOwned(h, tokens, valued, 0)
    <3>1. \A i \in 0 .. 0 : h[i] = (i > 2 /\ ~h[i - 1] /\ tokens[i - 1] \in valued)
      <4>1. \A i \in 0 .. 0 : i = 0
        OBVIOUS
      <4>2. h[0] = FALSE /\ ~(0 > 2)
        OBVIOUS
      <4> QED
        BY <4>1, <4>2, Zenon
    <3>2. h = [i \in 0 .. 0 |-> h[i]]
      OBVIOUS
    <3> HIDE DEF h
    <3> QED
      BY <3>1, <3>2 DEF IsOwned
  <2> QED
    BY <1>2, <1>3, <2>1
<1>4. CASE m > 0
  <2>1. m - 1 \in Nat /\ m - 1 \notin wrong
    <3>1. m - 1 \in Nat /\ ~(m <= m - 1)
      BY <1>2, <1>4
    <3> HIDE DEF wrong
    <3> QED
      BY <1>1, <3>1
  <2>2. PICK f : IsOwned(f, tokens, valued, m - 1)
    BY <2>1
  <2> DEFINE h == [i \in 0 .. m |-> IF i < m THEN f[i]
                                    ELSE i > 2 /\ ~f[i - 1] /\ tokens[i - 1] \in valued]
  <2>3. \A i \in 0 .. m : h[i] = (i > 2 /\ ~h[i - 1] /\ tokens[i - 1] \in valued)
    <3> TAKE i \in 0 .. m
    <3>1. CASE i < m
      <4>1. i \in 0 .. m - 1 /\ (i > 2 => i - 1 \in 0 .. m /\ i - 1 < m)
        BY <1>2, <3>1
      <4>2. f[i] = (i > 2 /\ ~f[i - 1] /\ tokens[i - 1] \in valued)
        BY <2>2, <4>1 DEF IsOwned
      <4> QED
        BY <3>1, <4>1, <4>2
    <3>2. CASE ~(i < m)
      <4>1. i > 2 => i - 1 \in 0 .. m /\ i - 1 < m
        BY <1>2
      <4> QED
        BY <3>2, <4>1
    <3> QED
      BY <3>1, <3>2
  <2>4. IsOwned(h, tokens, valued, m)
    <3>1. h = [i \in 0 .. m |-> h[i]]
      OBVIOUS
    <3> HIDE DEF h
    <3> QED
      BY <2>3, <3>1 DEF IsOwned
  <2> QED
    BY <1>2, <2>4
<1> QED
  BY <1>2, <1>3, <1>4

\* OwnedIn satisfies its recursive equation.
LEMMA OwnedUnfolds ==
  ASSUME NEW tokens \in Seq(Token), NEW valued, NEW i \in 0 .. Len(tokens)
  PROVE  Meaning!OwnedIn(tokens, valued)[i] =
           (i > 2 /\ ~Meaning!OwnedIn(tokens, valued)[i - 1] /\ tokens[i - 1] \in valued)
<1>1. PICK f : IsOwned(f, tokens, valued, Len(tokens))
  <2>1. Len(tokens) \in Nat
    OBVIOUS
  <2> QED
    BY <2>1, OwnedExists
<1>2. IsOwned(Meaning!OwnedIn(tokens, valued), tokens, valued, Len(tokens))
  BY <1>1 DEF Meaning!OwnedIn, IsOwned
<1> QED
  BY <1>2 DEF IsOwned

\* The same for PlacedIn.
IsPlaced(f, tokens, places, n) ==
  f = [i \in 0 .. n |->
        IF i = 0 THEN <<>>
        ELSE IF i \in places THEN Append(f[i - 1], tokens[i]) ELSE f[i - 1]]

\* There is such a function, by the same argument.
LEMMA PlacedExists ==
  ASSUME NEW tokens, NEW places, NEW n \in Nat
  PROVE  \E f : IsPlaced(f, tokens, places, n)
<1> DEFINE wrong == {m \in Nat : ~ \E f : IsPlaced(f, tokens, places, m)}
<1> SUFFICES ASSUME wrong # {} PROVE FALSE
  OBVIOUS
<1>1. PICK m \in wrong : \A k \in wrong : m <= k
  <2>1. wrong \in SUBSET Nat
    OBVIOUS
  <2> HIDE DEF wrong
  <2> QED
    BY <2>1, HasLeast
<1>2. m \in Nat /\ ~ \E f : IsPlaced(f, tokens, places, m)
  BY <1>1
<1>3. CASE m = 0
  <2>1. IsPlaced([i \in 0 .. 0 |-> <<>>], tokens, places, 0)
    BY DEF IsPlaced
  <2> QED
    BY <1>2, <1>3, <2>1
<1>4. CASE m > 0
  <2>1. m - 1 \in Nat /\ m - 1 \notin wrong
    <3>1. m - 1 \in Nat /\ ~(m <= m - 1)
      BY <1>2, <1>4
    <3> HIDE DEF wrong
    <3> QED
      BY <1>1, <3>1
  <2>2. PICK f : IsPlaced(f, tokens, places, m - 1)
    BY <2>1
  <2> DEFINE last == IF m \in places THEN Append(f[m - 1], tokens[m]) ELSE f[m - 1]
             h == [i \in 0 .. m |-> IF i < m THEN f[i] ELSE last]
  <2>3. \A i \in 0 .. m :
          h[i] = IF i = 0 THEN <<>>
                 ELSE IF i \in places THEN Append(h[i - 1], tokens[i]) ELSE h[i - 1]
    <3> TAKE i \in 0 .. m
    <3>0. i # 0 => i - 1 \in 0 .. m /\ i - 1 < m
      BY <1>2
    <3>1. CASE i < m
      <4>1. i \in 0 .. m - 1
        BY <1>2, <3>1
      <4>2. f[i] = IF i = 0 THEN <<>>
                   ELSE IF i \in places THEN Append(f[i - 1], tokens[i]) ELSE f[i - 1]
        BY <2>2, <4>1 DEF IsPlaced
      <4> QED
        BY <3>0, <3>1, <4>1, <4>2
    <3>2. CASE ~(i < m)
      <4>1. i = m /\ i # 0
        BY <1>2, <1>4, <3>2
      <4> QED
        BY <3>0, <4>1
    <3> QED
      BY <3>1, <3>2
  <2>4. IsPlaced(h, tokens, places, m)
    <3>1. h = [i \in 0 .. m |-> h[i]]
      OBVIOUS
    <3> HIDE DEF h
    <3> QED
      BY <2>3, <3>1 DEF IsPlaced
  <2> QED
    BY <1>2, <2>4
<1> QED
  BY <1>2, <1>3, <1>4

\* PlacedIn satisfies its recursive equation.
LEMMA PlacedUnfolds ==
  ASSUME NEW tokens \in Seq(Token), NEW places, NEW i \in 0 .. Len(tokens)
  PROVE  Meaning!PlacedIn(tokens, places)[i] =
           IF i = 0 THEN <<>>
           ELSE IF i \in places THEN Append(Meaning!PlacedIn(tokens, places)[i - 1], tokens[i])
           ELSE Meaning!PlacedIn(tokens, places)[i - 1]
<1>1. PICK f : IsPlaced(f, tokens, places, Len(tokens))
  <2>1. Len(tokens) \in Nat
    OBVIOUS
  <2> QED
    BY <2>1, PlacedExists
<1>2. IsPlaced(Meaning!PlacedIn(tokens, places), tokens, places, Len(tokens))
  BY <1>1 DEF Meaning!PlacedIn, IsPlaced
<1> QED
  BY <1>2 DEF IsPlaced

\* What the proofs need of joining sequences of tokens.
LEMMA Joined ==
  /\ <<>> \in Seq(Token)
  /\ \A s \in Seq(Token) : s \o <<>> = s
  /\ \A s \in Seq(Token), t \in Token : Append(s, t) = s \o <<t>> /\ <<t>> \in Seq(Token)
  /\ \A s, t \in Seq(Token) : s \o t \in Seq(Token)
  /\ \A s, t, u \in Seq(Token) : (s \o t) \o u = s \o (t \o u)
<1>1. \A s \in Seq(Token) : s \o <<>> = s
  BY ConcatEmptySeq, Zenon
<1>2. \A s \in Seq(Token), t \in Token : Append(s, t) = s \o <<t>>
  BY AppendIsConcat, Zenon
<1>3. \A t \in Token : <<t>> \in Seq(Token)
  OBVIOUS
<1>4. \A s, t \in Seq(Token) : s \o t \in Seq(Token)
  BY ConcatProperties
<1>5. \A s, t, u \in Seq(Token) : (s \o t) \o u = s \o (t \o u)
  <2> SUFFICES ASSUME NEW s \in Seq(Token), NEW t \in Seq(Token), NEW u \in Seq(Token)
               PROVE  (s \o t) \o u = s \o (t \o u)
    BY Zenon
  <2> QED
    BY ONLY ConcatAssociative, s \in Seq(Token), t \in Seq(Token), u \in Seq(Token)
<1>6. <<>> \in Seq(Token)
  OBVIOUS
<1> QED
  BY <1>1, <1>2, <1>3, <1>4, <1>5, <1>6, Zenon

\* t is s with something after it.
Begins(s, t) == \E rest \in Seq(Token) : t = s \o rest

\* What was placed up to i stays in front of what comes later.
LEMMA PlacedGrows ==
  ASSUME NEW tokens \in Seq(Token), NEW places, NEW i \in 0 .. Len(tokens)
  PROVE  /\ Meaning!PlacedIn(tokens, places)[i] \in Seq(Token)
         /\ \A j \in 0 .. i : Begins(Meaning!PlacedIn(tokens, places)[j],
                                    Meaning!PlacedIn(tokens, places)[i])
<1> DEFINE n == Len(tokens)
           upTo == Meaning!PlacedIn(tokens, places)
           grows(m) == /\ upTo[m] \in Seq(Token)
                       /\ \A j \in 0 .. m : Begins(upTo[j], upTo[m])
           wrong == {m \in 0 .. n : ~grows(m)}
<1>0. n \in Nat
  OBVIOUS
<1> SUFFICES ASSUME wrong # {} PROVE FALSE
  OBVIOUS
<1>1. PICK m \in wrong : \A k \in wrong : m <= k
  <2>1. wrong \in SUBSET Nat
    BY <1>0
  <2> HIDE DEF wrong
  <2> QED
    BY <2>1, HasLeast
<1>2. m \in 0 .. n /\ ~grows(m)
  BY <1>1
<1>3. upTo[m] = IF m = 0 THEN <<>>
                ELSE IF m \in places THEN Append(upTo[m - 1], tokens[m]) ELSE upTo[m - 1]
  BY <1>2, PlacedUnfolds
<1> HIDE DEF upTo
<1>4. CASE m = 0
  <2>1. upTo[0] = <<>>
    BY <1>3, <1>4
  <2>2. <<>> \in Seq(Token) /\ <<>> = <<>> \o <<>> /\ \A j \in 0 .. 0 : j = 0
    OBVIOUS
  <2> QED
    BY <1>2, <1>4, <2>1, <2>2 DEF Begins
<1>5. CASE m > 0
  <2>1. m - 1 \in 0 .. n /\ m - 1 \notin wrong
    <3>1. m - 1 \in 0 .. n /\ ~(m <= m - 1)
      BY <1>0, <1>2, <1>5
    <3> HIDE DEF wrong
    <3> QED
      BY <1>1, <3>1
  <2>2. grows(m - 1)
    BY <2>1
  <2>3. tokens[m] \in Token
    BY <1>2, <1>5
  <2>4. PICK more \in Seq(Token) : upTo[m] = upTo[m - 1] \o more
    <3>1. CASE m \in places
      <4>0. upTo[m] = Append(upTo[m - 1], tokens[m]) /\ upTo[m - 1] \in Seq(Token)
        BY <1>3, <1>5, <2>2, <3>1
      <4>1. upTo[m] = upTo[m - 1] \o <<tokens[m]>>
        BY <4>0, <2>3, Joined, Zenon
      <4> HIDE DEF wrong, grows
      <4> QED
        BY <2>3, <4>1, Joined
    <3>2. CASE m \notin places
      <4>1. upTo[m] = upTo[m - 1] \o <<>>
        BY <1>3, <1>5, <2>2, <3>2, Joined
      <4> HIDE DEF wrong, grows
      <4> QED
        BY <4>1, Joined
    <3> QED
      BY <3>1, <3>2
  <2>5. upTo[m] \in Seq(Token)
    BY <2>2, <2>4, Joined
  <2>6. ASSUME NEW j \in 0 .. m
        PROVE  Begins(upTo[j], upTo[m])
    <3>1. CASE j = m
      <4>1. upTo[m] = upTo[m] \o <<>>
        BY <2>5, Joined
      <4> HIDE DEF wrong, grows
      <4> QED
        BY <3>1, <4>1, Joined DEF Begins
    <3>2. CASE j # m
      <4>1. j \in 0 .. m - 1
        BY <1>2, <3>2
      <4>2. PICK rest \in Seq(Token) : upTo[m - 1] = upTo[j] \o rest
        BY <2>2, <4>1 DEF Begins
      <4>3. j \in 0 .. n /\ j \notin wrong
        <5>1. j \in 0 .. n /\ ~(m <= j)
          BY <1>0, <1>2, <4>1
        <5> HIDE DEF wrong
        <5> QED
          BY <1>1, <5>1
      <4>4. upTo[j] \in Seq(Token)
        BY <4>3
      <4>5. rest \o more \in Seq(Token)
        BY Joined
      <4>6. upTo[m] = (upTo[j] \o rest) \o more
        BY <2>4, <4>2
      <4>7. upTo[m] = upTo[j] \o (rest \o more)
        <5> DEFINE start == upTo[j]
        <5>1. start \in Seq(Token) /\ rest \in Seq(Token) /\ more \in Seq(Token)
          BY <4>2, <4>4
        <5> HIDE DEF wrong, grows, start
        <5>2. (start \o rest) \o more = start \o (rest \o more)
          BY ONLY <5>1, Joined, Zenon
        <5> QED
          BY <4>6, <5>2 DEF start
      <4> HIDE DEF wrong, grows
      <4> QED
        BY <4>5, <4>7 DEF Begins
    <3> QED
      BY <3>1, <3>2
  <2> QED
    BY <1>2, <2>5, <2>6
<1> QED
  BY <1>0, <1>2, <1>4, <1>5

-----------------------------------------------------------------------------
(* What was read at some place of the line.                                *)

\* The option of key k after the positions below n: the last mention counts, and
\* without one it is what it was when the call began.
OptionRead(k, n, option) ==
  LET before == {i \in Meaning!Mentions(k) : i < n}
  IN  IF before = {} THEN option = entry.opts[k]
      ELSE \E i \in before : /\ \A j \in before : j <= i
                             /\ Meaning!ReadAt(k, i, option)

\* Everything below position n is read.  n is where the next token begins, all
\* options before it are known and have their values.
ReadUpTo(n, options, positionals) ==
  /\ n >= 2
  /\ n <= Len(argv) => ~Meaning!Owned[n]
  /\ \A i \in Meaning!Heads :
       i < n => Meaning!Complete(i) /\ \E k \in Keys : Meaning!Names(argv[i], k)
  /\ \A k \in Keys : OptionRead(k, n, options[k])
  /\ positionals = entry.positionalArgs \o Meaning!Placed[n - 1]

\* The inductive invariant of the refinement: what parseArgs has done when it is
\* at some token is what the tokens before it mean.
ReadInv ==
  /\ pc = "begin" => /\ at = 1 /\ opts = entry.opts
                     /\ positionalArgs = entry.positionalArgs
  /\ pc \in {"scan", "check", "assign"} => ReadUpTo(at, opts, positionalArgs)

\* The abstract parser during a call, in terms of the concrete one.
LEMMA InCall ==
  ASSUME pc # "idle"
  PROVE  /\ \A token, k : Meaning!Names(token, k) <=>
              k \in Registered(entry.opts) /\ KeyOf(token, shorthandMap) = k
         /\ \A token : Meaning!TakesValue(token) <=>
              \E k \in Keys : Meaning!Names(token, k) /\ entry.opts[k].kind # "boolean"
         /\ \A k, i, option : Meaning!ReadAt(k, i, option) <=>
              \E v \in IF entry.opts[k].kind = "boolean" THEN {True}
                       ELSE Cast(entry.opts[k], argv[i + 1]) :
                option = [entry.opts[k] EXCEPT !.value = v]
<1>1. \A token, k : Meaning!Names(token, k) <=>
              k \in Registered(entry.opts) /\ KeyOf(token, shorthandMap) = k
  BY DEF Meaning!Names, Meaning!Registered, Registered, Meaning!KeyOf, KeyOf
<1>2. \A token : Meaning!TakesValue(token) <=>
              \E k \in Keys : Meaning!Names(token, k) /\ entry.opts[k].kind # "boolean"
  BY DEF Meaning!TakesValue
<1>3. \A k, i, option : Meaning!ReadAt(k, i, option) <=>
              \E v \in IF entry.opts[k].kind = "boolean" THEN {True}
                       ELSE Cast(entry.opts[k], argv[i + 1]) :
                option = [entry.opts[k] EXCEPT !.value = v]
  BY DEF Meaning!ReadAt, Meaning!Cast, Cast
<1> QED
  BY <1>1, <1>2, <1>3

\* What was read does not depend on where the walk is.
LEMMA SameReading ==
  ASSUME pc # "idle", pc' # "idle", UNCHANGED <<entry, argv, shorthandMap>>
  PROVE  \A n, options, positionals :
           ReadUpTo(n, options, positionals)' <=> ReadUpTo(n, options, positionals)
<1>1. \A token, k : Meaning!Names(token, k)' <=> Meaning!Names(token, k)
  BY DEF Meaning!Names
<1>2. Meaning!Valued' = Meaning!Valued
  BY DEF Meaning!Valued, Meaning!TakesValue, Meaning!Names
<1>3. Meaning!Owned' = Meaning!Owned
  BY <1>2 DEF Meaning!Owned
<1>4. Meaning!Free' = Meaning!Free /\ Meaning!Heads' = Meaning!Heads
  BY <1>3 DEF Meaning!Free, Meaning!Heads
<1>5. Meaning!Placed' = Meaning!Placed
  BY <1>4 DEF Meaning!Placed
<1>6. \A i : Meaning!Complete(i)' <=> Meaning!Complete(i)
  BY DEF Meaning!Complete, Meaning!TakesValue, Meaning!Names
<1>7. \A k : Meaning!Mentions(k)' = Meaning!Mentions(k)
  BY <1>1, <1>4 DEF Meaning!Mentions
<1>8. \A k, i, option : Meaning!ReadAt(k, i, option)' <=> Meaning!ReadAt(k, i, option)
  BY DEF Meaning!ReadAt
<1>9. \A k, n, option : OptionRead(k, n, option)' <=> OptionRead(k, n, option)
  BY <1>7, <1>8 DEF OptionRead
<1> QED
  BY <1>1, <1>3, <1>4, <1>5, <1>6, <1>9 DEF ReadUpTo

\* What the options and the tokens are in the middle of a call.
LEMMA ReadOptions ==
  ASSUME IInv, pc \in {"scan", "check", "assign"}, ReadUpTo(at, opts, positionalArgs),
         NEW k \in Keys
  PROVE  /\ k \in Registered(opts) <=> k \in Registered(entry.opts)
         /\ k \in Registered(opts) =>
              /\ opts[k] \in Option /\ entry.opts[k] \in Option
              /\ opts[k].kind = entry.opts[k].kind
              /\ opts[k].required = entry.opts[k].required
              /\ opts[k].bound = entry.opts[k].bound
              /\ opts[k].letter = entry.opts[k].letter
              /\ \A v : [opts[k] EXCEPT !.value = v] = [entry.opts[k] EXCEPT !.value = v]
<1>1. ASSUME opts[k] # entry.opts[k]
      PROVE  /\ k \in Registered(entry.opts)
             /\ \E v \in Value : opts[k] = [entry.opts[k] EXCEPT !.value = v]
  <2>1. OptionRead(k, at, opts[k])
    BY DEF ReadUpTo
  <2>2. PICK i \in Meaning!Mentions(k) : i < at /\ Meaning!ReadAt(k, i, opts[k])
    BY <1>1, <2>1 DEF OptionRead
  <2>3. /\ i \in Meaning!Heads /\ Meaning!Names(argv[i], k)
        /\ k \in Registered(entry.opts)
    BY <2>2, InCall DEF Meaning!Mentions
  <2>4. Meaning!Complete(i)
    BY <2>2, <2>3 DEF ReadUpTo
  <2>5. PICK v \in IF entry.opts[k].kind = "boolean" THEN {True}
                   ELSE Cast(entry.opts[k], argv[i + 1]) :
          opts[k] = [entry.opts[k] EXCEPT !.value = v]
    BY <2>2, InCall
  <2>6. v \in Value
    <3>1. CASE entry.opts[k].kind = "boolean"
      BY <2>5, <3>1 DEF Value
    <3>2. CASE entry.opts[k].kind # "boolean"
      <4>1. Meaning!TakesValue(argv[i])
        BY <2>3, <3>2, InCall
      <4>2. i \in 2 .. Len(argv) /\ i < Len(argv) /\ Len(argv) \in Nat
        BY <2>3, <2>4, <4>1 DEF Meaning!Complete, Meaning!Heads, Meaning!Free, IInv, TypeOK
      <4>3. argv[i + 1] \in Token
        BY <4>2 DEF IInv, TypeOK
      <4> QED
        BY <2>5, <3>2, <4>3, ExtractedAssumption DEF Cast, Value
    <3> QED
      BY <3>1, <3>2
  <2> QED
    BY <2>3, <2>5, <2>6
<1>2. opts \in OptionMap /\ entry.opts \in OptionMap
  BY DEF IInv, TypeOK
<1>3. CASE opts[k] = entry.opts[k]
  <2>1. k \in Registered(opts) <=> k \in Registered(entry.opts)
    BY <1>3 DEF Registered
  <2> QED
    BY <1>2, <1>3, <2>1, RegisteredOptions
<1>4. ASSUME k \in Registered(entry.opts), NEW v \in Value,
             opts[k] = [entry.opts[k] EXCEPT !.value = v]
      PROVE  /\ k \in Registered(opts)
             /\ opts[k] \in Option /\ entry.opts[k] \in Option
             /\ opts[k].kind = entry.opts[k].kind
             /\ opts[k].required = entry.opts[k].required
             /\ opts[k].bound = entry.opts[k].bound
             /\ opts[k].letter = entry.opts[k].letter
             /\ \A w : [opts[k] EXCEPT !.value = w] = [entry.opts[k] EXCEPT !.value = w]
  <2>1. entry.opts[k] \in Option
    BY <1>2, <1>4, RegisteredOptions
  <2>2. opts[k] \in Option /\ k \in Registered(opts)
    <3>1. opts[k] \in Option
      BY <1>4, <2>1 DEF Option
    <3> QED
      BY <3>1, CommandLineAssumption DEF Registered
  <2>3. /\ opts[k].kind = entry.opts[k].kind
        /\ opts[k].required = entry.opts[k].required
        /\ opts[k].bound = entry.opts[k].bound
        /\ opts[k].letter = entry.opts[k].letter
        /\ \A w : [opts[k] EXCEPT !.value = w] = [entry.opts[k] EXCEPT !.value = w]
    BY <1>4, <2>1 DEF Option
  <2> QED
    BY <1>4, <2>1, <2>2, <2>3
<1> QED
  BY <1>1, <1>3, <1>4

\* The token the walk is at.
LEMMA AtToken ==
  ASSUME IInv, pc = "scan", argc # 0, ReadUpTo(at, opts, positionalArgs)
  PROVE  /\ Len(argv) \in Nat /\ at \in 2 .. Len(argv) /\ argc = Len(argv) + 1 - at
         /\ Arg(at) = argv[at] /\ argv[at] \in Token
         /\ at \in Meaning!Free
         /\ argv[at].form # "positional" <=> at \in Meaning!Heads
<1>1. Len(argv) \in Nat /\ at \in 2 .. Len(argv) /\ argc = Len(argv) + 1 - at
  BY DEF IInv, TypeOK, ScanStaysInside, ReadUpTo
<1>2. at \in DOMAIN argv
  BY <1>1 DEF IInv, TypeOK
<1>3. Arg(at) = argv[at] /\ argv[at] \in Token
  BY <1>2 DEF Arg, IInv, TypeOK
<1>4. at \in Meaning!Free
  BY <1>1 DEF Meaning!Free, ReadUpTo
<1> QED
  BY <1>1, <1>3, <1>4 DEF Meaning!Heads

\* Owned and placed, one position further on.
LEMMA NextOwned ==
  ASSUME IInv, pc # "idle", NEW i \in 2 .. Len(argv)
  PROVE  /\ i + 1 <= Len(argv) =>
              (Meaning!Owned[i + 1] <=> ~Meaning!Owned[i] /\ Meaning!TakesValue(argv[i]))
         /\ Meaning!Placed[i] = IF i \in Meaning!Free \ Meaning!Heads
                                THEN Append(Meaning!Placed[i - 1], argv[i])
                                ELSE Meaning!Placed[i - 1]
         /\ Meaning!Placed[i - 1] \in Seq(Token)
<1>1. argv \in Seq(Token) /\ i \in 0 .. Len(argv) /\ argv[i] \in Token /\ Len(argv) \in Nat
  BY DEF IInv, TypeOK
<1>2. argv[i] \in Meaning!Valued <=> Meaning!TakesValue(argv[i])
  BY <1>1 DEF Meaning!Valued, Meaning!Token, Token
<1>3. ASSUME i + 1 <= Len(argv)
      PROVE  Meaning!Owned[i + 1] <=> ~Meaning!Owned[i] /\ Meaning!TakesValue(argv[i])
  <2>1. i + 1 \in 0 .. Len(argv) /\ i + 1 > 2 /\ (i + 1) - 1 = i
    BY <1>1, <1>3
  <2>2. Meaning!Owned[i + 1] =
          (i + 1 > 2 /\ ~Meaning!Owned[(i + 1) - 1] /\ argv[(i + 1) - 1] \in Meaning!Valued)
    BY <1>1, <2>1, OwnedUnfolds DEF Meaning!Owned
  <2> QED
    BY <1>2, <2>1, <2>2
<1>4. Meaning!Placed[i] = IF i = 0 THEN <<>>
           ELSE IF i \in Meaning!Free \ Meaning!Heads
           THEN Append(Meaning!Placed[i - 1], argv[i]) ELSE Meaning!Placed[i - 1]
  BY <1>1, PlacedUnfolds DEF Meaning!Placed
<1>5. Meaning!Placed[i - 1] \in Seq(Token)
  <2>1. i - 1 \in 0 .. Len(argv)
    BY <1>1
  <2> QED
    BY <1>1, <2>1, PlacedGrows DEF Meaning!Placed
<1> QED
  BY <1>3, <1>4, <1>5

\* One token, or two, taken for an option.
LEMMA TakeOption ==
  ASSUME IInv, pc = "scan", argc # 0, ReadUpTo(at, opts, positionalArgs),
         argv[at].form # "positional",
         NEW key \in Registered(opts), KeyOf(argv[at], shorthandMap) = key,
         NEW next \in Nat,
         next = IF opts[key].kind = "boolean" THEN at + 1 ELSE at + 2,
         next <= Len(argv) + 1,
         NEW v \in IF opts[key].kind = "boolean" THEN {True} ELSE Cast(opts[key], argv[at + 1])
  PROVE  ReadUpTo(next, [opts EXCEPT ![key].value = v], positionalArgs)
<1> DEFINE new == [opts EXCEPT ![key].value = v]
<1>1. /\ Len(argv) \in Nat /\ at \in 2 .. Len(argv) /\ at \in Meaning!Heads
      /\ at \in Meaning!Free /\ argv[at] \in Token
  BY AtToken
<1>2. key \in Keys /\ key \in Registered(entry.opts)
      /\ opts[key].kind = entry.opts[key].kind
      /\ [opts[key] EXCEPT !.value = v] = [entry.opts[key] EXCEPT !.value = v]
  BY ReadOptions DEF Registered
<1>3. \A k : Meaning!Names(argv[at], k) <=> k = key
  BY <1>2, InCall
<1>4. Meaning!TakesValue(argv[at]) <=> opts[key].kind # "boolean"
  BY <1>2, <1>3, InCall
<1>5. ~Meaning!Owned[at] /\ next >= 2
  BY <1>1 DEF ReadUpTo
<1>6. \A i \in Meaning!Free : i < next => i < at \/ i = at
  <2>1. \A i \in Meaning!Free : i \in Nat /\ i <= Len(argv)
    BY <1>1 DEF Meaning!Free
  <2>2. next = at + 2 /\ at + 1 <= Len(argv) => at + 1 \notin Meaning!Free
    <3>1. next = at + 2 => opts[key].kind # "boolean"
      BY <1>1
    <3> QED
      BY <1>1, <1>4, <1>5, <3>1, NextOwned DEF Meaning!Free
  <2> QED
    BY <1>1, <2>1, <2>2
<1>7. next <= Len(argv) => ~Meaning!Owned[next]
  <2>1. CASE opts[key].kind = "boolean"
    BY <1>1, <1>4, <2>1, NextOwned
  <2>2. CASE opts[key].kind # "boolean"
    <3> SUFFICES ASSUME next <= Len(argv) PROVE ~Meaning!Owned[next]
      OBVIOUS
    <3>1. at + 1 \in 2 .. Len(argv) /\ (at + 1) + 1 <= Len(argv) /\ next = (at + 1) + 1
      BY <1>1, <2>2
    <3>2. Meaning!Owned[at + 1]
      BY <1>1, <1>4, <1>5, <2>2, <3>1, NextOwned
    <3>3. Meaning!Owned[(at + 1) + 1] <=> ~Meaning!Owned[at + 1] /\ Meaning!TakesValue(argv[at + 1])
      BY <3>1, NextOwned
    <3> QED
      BY <3>1, <3>2, <3>3
  <2> QED
    BY <2>1, <2>2
<1>8. Meaning!Complete(at)
  BY <1>1, <1>4 DEF Meaning!Complete
<1>9. \A i \in Meaning!Heads :
        i < next => Meaning!Complete(i) /\ \E k \in Keys : Meaning!Names(argv[i], k)
  <2>1. \A i \in Meaning!Heads : i < next => i < at \/ i = at
    BY <1>6 DEF Meaning!Heads
  <2> QED
    BY <1>2, <1>3, <1>8, <2>1 DEF ReadUpTo
<1>10. Meaning!Placed[next - 1] = Meaning!Placed[at - 1]
  <2>1. Meaning!Placed[at] = Meaning!Placed[at - 1]
    BY <1>1, NextOwned
  <2>2. CASE opts[key].kind = "boolean"
    BY <1>1, <2>1, <2>2
  <2>3. CASE opts[key].kind # "boolean"
    <3>1. at + 1 \in 2 .. Len(argv) /\ (at + 1) - 1 = at /\ next - 1 = at + 1
      BY <1>1, <2>3
    <3>2. at + 1 \notin Meaning!Free
      BY <1>1, <1>6, <3>1
    <3>3. Meaning!Placed[at + 1] = Meaning!Placed[(at + 1) - 1]
      BY <3>1, <3>2, NextOwned
    <3> QED
      BY <2>1, <3>1, <3>3
  <2> QED
    BY <2>2, <2>3
<1>11. ASSUME NEW k \in Keys
       PROVE  OptionRead(k, next, new[k])
  <2>0. \A i \in Meaning!Mentions(k) : i \in Nat /\ (i < next => i < at \/ i = at) /\ (i < at => i < next)
    BY <1>1, <1>6 DEF Meaning!Mentions, Meaning!Heads, Meaning!Free
  <2>1. CASE k = key
    <3>1. at \in Meaning!Mentions(k) /\ at < next
      BY <1>1, <1>3, <2>1 DEF Meaning!Mentions
    <3>2. new[k] = [entry.opts[k] EXCEPT !.value = v]
      BY <1>2, <2>1 DEF IInv, TypeOK, OptionMap
    <3>3. v \in IF entry.opts[k].kind = "boolean" THEN {True}
               ELSE Cast(entry.opts[k], argv[at + 1])
      BY <1>2, <2>1 DEF Cast
    <3>5. Meaning!ReadAt(k, at, new[k])
      <4> HIDE DEF new
      <4>1. pc # "idle"
        OBVIOUS
      <4>2. \E w \in IF entry.opts[k].kind = "boolean" THEN {True}
                    ELSE Cast(entry.opts[k], argv[at + 1]) :
              new[k] = [entry.opts[k] EXCEPT !.value = w]
        BY <3>2, <3>3
      <4> QED
        BY <4>1, <4>2, InCall, Zenon
    <3>4. \A j \in Meaning!Mentions(k) : j < next => j <= at
      BY <1>1, <2>0
    <3> HIDE DEF new
    <3> QED
      BY <3>1, <3>4, <3>5 DEF OptionRead
  <2>2. CASE k # key
    <3>1. new[k] = opts[k]
      BY <2>2 DEF IInv, TypeOK, OptionMap
    <3>2. at \notin Meaning!Mentions(k)
      BY <1>3, <2>2 DEF Meaning!Mentions
    <3>3. {i \in Meaning!Mentions(k) : i < next} = {i \in Meaning!Mentions(k) : i < at}
      BY <2>0, <3>2
    <3>4. OptionRead(k, at, opts[k])
      BY DEF ReadUpTo
    <3> HIDE DEF new
    <3> QED
      BY <3>1, <3>3, <3>4 DEF OptionRead
  <2> QED
    BY <2>1, <2>2
<1>12. positionalArgs = entry.positionalArgs \o Meaning!Placed[next - 1]
  BY <1>10 DEF ReadUpTo
<1> HIDE DEF new
<1>13. ReadUpTo(next, new, positionalArgs)
  BY <1>5, <1>7, <1>9, <1>11, <1>12, Zenon DEF ReadUpTo
<1> QED
  BY <1>13 DEF new

\* One token taken for a positional argument.
LEMMA TakePositional ==
  ASSUME IInv, pc = "scan", argc # 0, ReadUpTo(at, opts, positionalArgs),
         argv[at].form = "positional"
  PROVE  ReadUpTo(at + 1, opts, Append(positionalArgs, argv[at]))
<1>1. /\ Len(argv) \in Nat /\ at \in 2 .. Len(argv) /\ at \notin Meaning!Heads
      /\ at \in Meaning!Free /\ argv[at] \in Token
  BY AtToken
<1>2. \A k \in Keys : ~Meaning!Names(argv[at], k)
  BY InCall, CommandLineAssumption DEF KeyOf
<1>3. ~Meaning!TakesValue(argv[at])
  BY <1>2, InCall
<1>4. at + 1 <= Len(argv) => ~Meaning!Owned[at + 1]
  BY <1>1, <1>3, NextOwned
<1>5. \A i \in Meaning!Heads : i \in Nat /\ (i < at + 1 <=> i < at)
  BY <1>1 DEF Meaning!Heads, Meaning!Free
<1>6. \A i \in Meaning!Heads :
        i < at + 1 => Meaning!Complete(i) /\ \E k \in Keys : Meaning!Names(argv[i], k)
  BY <1>5 DEF ReadUpTo
<1>7. \A k \in Keys : OptionRead(k, at + 1, opts[k])
  <2> TAKE k \in Keys
  <2>1. {i \in Meaning!Mentions(k) : i < at + 1} = {i \in Meaning!Mentions(k) : i < at}
    BY <1>5 DEF Meaning!Mentions
  <2>2. OptionRead(k, at, opts[k])
    BY DEF ReadUpTo
  <2> QED
    BY <2>1, <2>2 DEF OptionRead
<1>8. Append(positionalArgs, argv[at]) = entry.positionalArgs \o Meaning!Placed[(at + 1) - 1]
  <2> DEFINE before == Meaning!Placed[at - 1]
             token  == argv[at]
  <2>1. Meaning!Placed[at] = Append(before, token) /\ before \in Seq(Token) /\ token \in Token
    BY <1>1, NextOwned
  <2>2. (at + 1) - 1 = at
    BY <1>1
  <2>3. positionalArgs = entry.positionalArgs \o before
    BY DEF ReadUpTo
  <2>4. entry.positionalArgs \in Seq(Token) /\ positionalArgs \in Seq(Token)
    BY DEF IInv, TypeOK
  <2> HIDE DEF before, token
  <2>5. Append(positionalArgs, token) = (entry.positionalArgs \o before) \o <<token>>
    BY <2>1, <2>3, <2>4, Joined, Zenon
  <2>6. Append(before, token) = before \o <<token>> /\ <<token>> \in Seq(Token)
    BY <2>1, Joined, Zenon
  <2>7. (entry.positionalArgs \o before) \o <<token>> = entry.positionalArgs \o (before \o <<token>>)
    <3>1. before \in Seq(Token) /\ <<token>> \in Seq(Token)
      BY <2>1, <2>6
    <3> QED
      BY ONLY <2>4, <3>1, Joined, Zenon
  <2>8. Append(positionalArgs, token) = entry.positionalArgs \o Meaning!Placed[at]
    BY <2>1, <2>5, <2>6, <2>7, Zenon
  <2> QED
    BY <2>2, <2>8 DEF token
<1>9. at + 1 >= 2
  BY <1>1
<1> QED
  BY <1>4, <1>6, <1>7, <1>8, <1>9, Zenon DEF ReadUpTo

\* After the program name nothing is read yet.
LEMMA TakeProgramName ==
  ASSUME IInv, pc = "begin", argc >= 1
  PROVE  ReadUpTo(2, entry.opts, entry.positionalArgs)
<1>1. /\ argv \in Seq(Token) /\ Len(argv) \in Nat /\ entry.positionalArgs \in Seq(Token)
  BY DEF IInv, TypeOK
<1>2. Len(argv) >= 1
  BY <1>1 DEF IInv, TypeOK, ScanStaysInside
<1>3. 2 <= Len(argv) => ~Meaning!Owned[2]
  <2> SUFFICES ASSUME 2 <= Len(argv) PROVE ~Meaning!Owned[2]
    OBVIOUS
  <2>1. 2 \in 0 .. Len(argv) /\ ~(2 > 2)
    BY <1>1
  <2>2. Meaning!Owned[2] = (2 > 2 /\ ~Meaning!Owned[2 - 1] /\ argv[2 - 1] \in Meaning!Valued)
    BY <1>1, <2>1, OwnedUnfolds DEF Meaning!Owned
  <2> QED
    BY <2>1, <2>2, Zenon
<1>4. \A i \in Meaning!Heads : ~(i < 2)
  BY <1>1 DEF Meaning!Heads, Meaning!Free
<1>5. \A k \in Keys : OptionRead(k, 2, entry.opts[k])
  BY <1>4 DEF OptionRead, Meaning!Mentions
<1>6. entry.positionalArgs = entry.positionalArgs \o Meaning!Placed[2 - 1]
  <2>1. 0 \in 0 .. Len(argv) /\ 1 \in 0 .. Len(argv) /\ 1 - 1 = 0 /\ 2 - 1 = 1 /\ 1 # 0
    BY <1>1, <1>2
  <2>2. 1 \notin Meaning!Free
    BY DEF Meaning!Free
  <2>3. Meaning!Placed[0] = <<>>
    BY <1>1, <2>1, PlacedUnfolds DEF Meaning!Placed
  <2>4. Meaning!Placed[1] = Meaning!Placed[1 - 1]
    BY <1>1, <2>1, <2>2, PlacedUnfolds DEF Meaning!Placed
  <2>5. Meaning!Placed[2 - 1] = <<>>
    BY <2>1, <2>3, <2>4
  <2>6. entry.positionalArgs \o <<>> = entry.positionalArgs
    BY <1>1, Joined, Zenon
  <2> QED
    BY <2>5, <2>6
<1>7. 2 >= 2
  OBVIOUS
<1> QED
  BY <1>3, <1>4, <1>5, <1>6, <1>7, Zenon DEF ReadUpTo

\* A step of the walk that goes on: what is carried over.
LEMMA CarryOver ==
  ASSUME pc # "idle", pc' # "idle", pc' # "begin", UNCHANGED <<entry, argv, shorthandMap>>,
         ReadUpTo(at', opts', positionalArgs')
  PROVE  ReadInv'
<1>1. ReadUpTo(at, opts, positionalArgs)'
  BY SameReading
<1> QED
  BY <1>1 DEF ReadInv

\* __registerCmdlOption, when it succeeds, reads on.
LEMMA TokenRead ==
  ASSUME IInv, ReadInv, NEW key, pc = "scan", argc # 0, RegisterCmdlOption(key),
         argv[at].form # "positional", key = KeyOf(argv[at], shorthandMap),
         pc' # "idle"
  PROVE  ReadUpTo(at', opts', positionalArgs)
<1>1. ReadUpTo(at, opts, positionalArgs)
  BY DEF ReadInv
<1>2. Len(argv) \in Nat /\ at \in 2 .. Len(argv) /\ argc = Len(argv) + 1 - at
  BY <1>1, AtToken
<1>3. key \in Registered(opts)
  BY DEF RegisterCmdlOption, Return
<1>4. CASE opts[key].kind = "boolean"
  <2>1. opts' = [opts EXCEPT ![key].value = True] /\ at' = at + 1
    BY <1>3, <1>4 DEF RegisterCmdlOption, AdvanceArgv
  <2>2. at + 1 \in Nat /\ at + 1 <= Len(argv) + 1
    BY <1>2
  <2>3. ReadUpTo(at + 1, [opts EXCEPT ![key].value = True], positionalArgs)
    <3>1. True \in IF opts[key].kind = "boolean" THEN {True} ELSE Cast(opts[key], argv[at + 1])
      BY <1>4
    <3>2. at + 1 = IF opts[key].kind = "boolean" THEN at + 1 ELSE at + 2
      BY <1>4
    <3> QED
      BY <1>1, <1>3, <2>2, <3>1, <3>2, TakeOption
  <2> QED
    BY <2>1, <2>3
<1>5. CASE opts[key].kind # "boolean"
  <2>1. ~(argc - 1 < 1) /\ at' = at + 2
    BY <1>3, <1>5 DEF RegisterCmdlOption, AdvanceArgv, Return
  <2>2. at + 2 \in Nat /\ at + 2 <= Len(argv) + 1 /\ at + 1 \in DOMAIN argv
    BY <1>2, <2>1 DEF IInv, TypeOK
  <2>3. PICK v \in Cast(opts[key], argv[at + 1]) : opts' = [opts EXCEPT ![key].value = v]
    BY <1>3, <1>5, <2>1, <2>2 DEF RegisterCmdlOption, Arg
  <2>4. ReadUpTo(at + 2, [opts EXCEPT ![key].value = v], positionalArgs)
    <3>1. v \in IF opts[key].kind = "boolean" THEN {True} ELSE Cast(opts[key], argv[at + 1])
      BY <1>5, <2>3
    <3>2. at + 2 = IF opts[key].kind = "boolean" THEN at + 1 ELSE at + 2
      BY <1>5
    <3> QED
      BY <1>1, <1>3, <2>2, <3>1, <3>2, TakeOption
  <2> QED
    BY <2>1, <2>3, <2>4
<1> QED
  BY <1>4, <1>5

\* Every step of the program preserves ReadInv.
LEMMA StepReads == IInv /\ ReadInv /\ [Next]_vars => ReadInv'
<1> SUFFICES ASSUME IInv, ReadInv, [Next]_vars, pc' # "idle" PROVE ReadInv'
  BY DEF ReadInv
<1>1. CASE AddParameter \/ SetMinimumPositionalArgsRequired \/ Finished \/ AssignValues
           \/ ScanIllFormed
  BY <1>1 DEF AddParameter, SetMinimumPositionalArgsRequired, Finished, AssignValues,
              ScanIllFormed, Return, vars
<1>2. CASE ParseArgs
  <2>1. pc' = "begin" /\ at' = 1 /\ opts' = entry'.opts
        /\ positionalArgs' = entry'.positionalArgs
    BY <1>2 DEF ParseArgs
  <2> QED
    BY <2>1 DEF ReadInv
<1>3. CASE SkipProgramName
  <2>1. /\ pc = "begin" /\ argc >= 1 /\ at' = at + 1 /\ pc' = "scan"
        /\ UNCHANGED <<opts, positionalArgs, shorthandMap, entry, argv>>
    BY <1>3 DEF SkipProgramName, AdvanceArgv, Return, IInv, TypeOK
  <2>2. at' = 2 /\ opts' = entry.opts /\ positionalArgs' = entry.positionalArgs
    BY <2>1 DEF ReadInv
  <2>3. ReadUpTo(at', opts', positionalArgs')
    BY <2>1, <2>2, TakeProgramName
  <2> QED
    BY <2>1, <2>3, CarryOver
<1>4. ASSUME NEW key, pc = "scan", argc # 0, RegisterCmdlOption(key),
             Arg(at).form # "positional", key = KeyOf(Arg(at), shorthandMap),
             UNCHANGED <<positionalArgs, shorthandMap, entry>>
      PROVE  ReadInv'
  <2>1. pc' = "scan" /\ UNCHANGED argv
    BY <1>4, RegisterStep DEF RegisterCmdlOption, Return
  <2>2. Arg(at) = argv[at]
    BY <1>4, AtToken DEF ReadInv
  <2>3. ReadUpTo(at', opts', positionalArgs')
    BY <1>4, <2>2, TokenRead
  <2> QED
    BY <1>4, <2>1, <2>3, CarryOver
<1>5. CASE ScanLongOption
  BY <1>4, <1>5 DEF ScanLongOption, Scanning, KeyOf, settings
<1>6. CASE ScanShortOption
  BY <1>4, <1>6 DEF ScanShortOption, Scanning, KeyOf, settings
<1>7. CASE ScanPositional
  <2>1. /\ pc = "scan" /\ argc # 0 /\ at' = at + 1 /\ pc' = "scan"
        /\ positionalArgs' = Append(positionalArgs, Arg(at)) /\ Arg(at).form = "positional"
        /\ UNCHANGED <<opts, shorthandMap, entry, argv>>
    BY <1>7 DEF ScanPositional, Scanning, AdvanceArgv
  <2>2. ReadUpTo(at, opts, positionalArgs) /\ Arg(at) = argv[at]
    BY <2>1, AtToken DEF ReadInv
  <2>3. ReadUpTo(at', opts', positionalArgs')
    BY <2>1, <2>2, TakePositional
  <2> QED
    BY <2>1, <2>3, CarryOver
<1>8. CASE EndOfLine \/ CheckParameters
  <2>1. /\ pc \in {"scan", "check"} /\ pc' \in {"check", "assign"}
        /\ UNCHANGED <<at, opts, positionalArgs, shorthandMap, entry, argv>>
    BY <1>8 DEF EndOfLine, CheckParameters, Return, cursor
  <2>2. ReadUpTo(at', opts', positionalArgs')
    BY <2>1 DEF ReadInv
  <2> QED
    BY <2>1, <2>2, CarryOver
<1>9. CASE UNCHANGED vars
  <2>1. UNCHANGED <<pc, at, opts, positionalArgs, shorthandMap, entry, argv>>
    BY <1>9 DEF vars, cursor
  <2>2. CASE pc = "begin"
    BY <2>1, <2>2 DEF ReadInv
  <2>3. CASE pc # "begin"
    <3>1. ReadUpTo(at', opts', positionalArgs')
      BY <2>1, <2>3 DEF ReadInv, IInv, TypeOK
    <3> QED
      BY <2>1, <2>3, <3>1, CarryOver
  <2> QED
    BY <2>2, <2>3
<1> QED
  BY <1>1, <1>2, <1>3, <1>5, <1>6, <1>7, <1>8, <1>9 DEF Next, Parsing

\* Wherever parseArgs is in a line, options and positional arguments are what
\* the tokens before it say, and nothing else.
THEOREM LineIsReadInOrder == Spec => []ReadInv
<1>1. Init => ReadInv
  BY DEF Init, ReadInv
<1>2. IInv /\ ReadInv /\ [Next]_vars => ReadInv'
  BY StepReads
<1> QED
  BY <1>1, <1>2, InductiveInvariant, PTL DEF Spec

-----------------------------------------------------------------------------
(* The steps of the parser as steps of ArgumentParsing.                    *)

\* The front of a joined sequence is a prefix of it.
LEMMA FrontIsPrefix ==
  ASSUME NEW s \in Seq(Token), NEW u \in Seq(Token)
  PROVE  Meaning!IsPrefix(s, s \o u)
<1>1. Len(s) \in Nat /\ Len(u) \in Nat
  OBVIOUS
<1>2. Len(s \o u) = Len(s) + Len(u)
  BY ConcatProperties
<1>3. SubSeq(s, 1, Len(s)) = SubSeq(s \o u, 1, Len(s))
  <2>1. CASE Len(s) = 0
    <3>1. 1 \in Int /\ 0 \in Int /\ 0 < 1
      OBVIOUS
    <3> QED
      BY <2>1, <3>1, SubSeqEmpty
  <2>2. CASE Len(s) # 0
    <3>1. 1 \in 1 .. Len(s) /\ Len(s) \in 1 .. Len(s)
      BY <1>1, <2>2
    <3> QED
      BY <3>1, SubSeqOfConcat1
  <2> QED
    BY <2>1, <2>2
<1> QED
  BY <1>1, <1>2, <1>3 DEF Meaning!IsPrefix

\* The letters are in order as the code checks it iff they are as it is meant.
LEMMA LettersInOrder ==
  ASSUME opts \in OptionMap, shorthandMap \in ShortHandMap
  PROVE  ShorthandsOK <=>
           \A l \in Letters, k \in Keys :
             shorthandMap[l] = k <=> k \in Registered(opts) /\ opts[k].letter = l
<1>1. ShorthandsOK => \A l \in Letters, k \in Keys :
             shorthandMap[l] = k <=> k \in Registered(opts) /\ opts[k].letter = l
  BY ShorthandsCorrespond
<1>2. ASSUME \A l \in Letters, k \in Keys :
               shorthandMap[l] = k <=> k \in Registered(opts) /\ opts[k].letter = l
      PROVE  ShorthandsOK
  <2> DEFINE used == {l \in Letters : shorthandMap[l] # NoKey}
             f == [m \in used |-> shorthandMap[m]]
  <2>1. \A l \in used : shorthandMap[l] \in Keys
    BY DEF ShortHandMap
  <2>2. \A l \in used : /\ shorthandMap[l] \in Registered(opts)
                        /\ opts[shorthandMap[l]].letter = l
    BY <1>2, <2>1
  <2>3. f \in Injection(used, Registered(opts))
    BY <2>2 DEF Injection, IsInjective
  <2>4. f \in Surjection(used, Registered(opts))
    <3>1. f \in [used -> Registered(opts)]
      BY <2>2
    <3>2. ASSUME NEW k \in Registered(opts) PROVE \E m \in used : f[m] = k
      <4>1. k \in Keys /\ opts[k].letter \in Letters
        BY RegisteredOptions DEF Option
      <4>2. shorthandMap[opts[k].letter] = k
        BY <1>2, <4>1
      <4> QED
        BY <4>1, <4>2, CommandLineAssumption
    <3> HIDE DEF f
    <3> QED
      BY <3>1, <3>2 DEF Surjection
  <2>5. IsFiniteSet(used)
    BY CommandLineAssumption, FS_Subset
  <2>6. Cardinality(Registered(opts)) = Cardinality(used)
    <3> HIDE DEF f, used
    <3>1. ExistsBijection(used, Registered(opts))
      BY <2>3, <2>4 DEF ExistsBijection, Bijection
    <3> QED
      BY <2>5, <3>1, FS_Bijection
  <2> QED
    BY <2>2, <2>6 DEF ShorthandsOK
<1> QED
  BY <1>1, <1>2

\* A new parser is a new abstract parser.
LEMMA InitMeans == Init => Meaning!Init
BY DEF Init, Meaning!Init

\* addParameter and setMinimumPositionalArgsRequired are what they seem.
LEMMA RegistrationMeans ==
  ASSUME IInv, AddParameter \/ SetMinimumPositionalArgsRequired
  PROVE  Meaning!AddParameter \/ Meaning!SetMinimum
<1>1. CASE AddParameter
  <2>1. PICK r \in Registrations :
          /\ shorthandMap' = [shorthandMap EXCEPT ![r.option.letter] = r.key]
          /\ opts' = [opts EXCEPT ![r.key] = WithValue(r.option, NoValue)]
    BY <1>1 DEF AddParameter
  <2>2. r.key \in Keys /\ r.option \in Parameter
    BY ParserAssumption
  <2>3. opts' = [opts EXCEPT ![r.key] = opts'[r.key]]
        /\ opts'[r.key] = WithValue(r.option, NoValue)
    BY <2>1, <2>2 DEF IInv, TypeOK, OptionMap
  <2>4. opts'[r.key] \in Option /\ opts'[r.key].value = NoValue
        /\ opts'[r.key].letter = r.option.letter
    BY <2>2, <2>3 DEF WithValue, Parameter, Option
  <2>5. /\ pc = "idle" /\ pc' = "idle"
        /\ UNCHANGED <<positionalArgs, minPositional, dst, argv, result>>
    BY <1>1 DEF AddParameter, cursor
  <2>6. Meaning!Option = Option
    BY DEF Meaning!Option, Option, Meaning!Kinds, Kinds, Meaning!Value, Value,
           Meaning!Token, Token
  <2> QED
    BY <2>1, <2>2, <2>3, <2>4, <2>5, <2>6 DEF Meaning!AddParameter
<1>2. CASE SetMinimumPositionalArgsRequired
  BY <1>2, ParserAssumption DEF SetMinimumPositionalArgsRequired, Meaning!SetMinimum, cursor
<1> QED
  BY <1>1, <1>2

\* parseArgs is called with some line of tokens.
LEMMA CallMeans ==
  ASSUME IInv', ParseArgs
  PROVE  Meaning!Call
<1>1. Meaning!Token = Token
  BY DEF Meaning!Token, Token
<1> QED
  BY <1>1 DEF ParseArgs, Meaning!Call, Meaning!settings, settings, IInv, TypeOK

\* Whenever a call is refused before the end of its line, what it did until
\* then is part of what the line says.
LEMMA ReadInPart ==
  ASSUME IInv, pc \in {"scan", "check", "assign"}, ReadUpTo(at, opts, positionalArgs),
         at \in 1 .. Len(argv) + 1,
         pc' = "idle", UNCHANGED <<opts, positionalArgs>>
  PROVE  Meaning!TakenInPart
<1>1. DOMAIN opts = Keys /\ Len(argv) \in Nat /\ argv \in Seq(Token)
      /\ entry.positionalArgs \in Seq(Token) /\ positionalArgs \in Seq(Token)
  BY DEF IInv, TypeOK, OptionMap
<1>2. ASSUME NEW k \in Keys
      PROVE  \/ opts[k] = entry.opts[k]
             \/ \E i \in Meaning!Mentions(k) :
                  Meaning!Complete(i) /\ Meaning!ReadAt(k, i, opts[k])
  <2>1. OptionRead(k, at, opts[k])
    BY DEF ReadUpTo
  <2>2. ASSUME opts[k] # entry.opts[k]
        PROVE  \E i \in Meaning!Mentions(k) :
                 Meaning!Complete(i) /\ Meaning!ReadAt(k, i, opts[k])
    <3>1. PICK i \in Meaning!Mentions(k) : i < at /\ Meaning!ReadAt(k, i, opts[k])
      BY <2>1, <2>2 DEF OptionRead
    <3>2. Meaning!Complete(i)
      BY <3>1 DEF ReadUpTo, Meaning!Mentions
    <3> QED
      BY <3>1, <3>2
  <2> QED
    BY <2>2
<1> DEFINE start == entry.positionalArgs
           before == Meaning!Placed[at - 1]
           all == Meaning!Positionals
<1>3. before \in Seq(Token) /\ Begins(before, all)
  <2>1. at - 1 \in 0 .. Len(argv) /\ Len(argv) \in 0 .. Len(argv)
    BY <1>1
  <2> QED
    BY <1>1, <2>1, PlacedGrows DEF Meaning!Placed, Meaning!Positionals
<1>4. PICK rest \in Seq(Token) : all = before \o rest
  BY <1>3 DEF Begins
<1>5. positionalArgs = start \o before
  BY DEF ReadUpTo
<1> HIDE DEF start, before, all
<1>6. start \in Seq(Token)
  BY <1>1 DEF start
<1>7. start \o all = positionalArgs \o rest
  BY <1>3, <1>4, <1>5, <1>6, Joined, Zenon
<1>8. Meaning!IsPrefix(start, positionalArgs)
  BY <1>3, <1>5, <1>6, FrontIsPrefix
<1>9. Meaning!IsPrefix(positionalArgs, start \o all)
  BY <1>1, <1>7, FrontIsPrefix
<1> QED
  BY <1>1, <1>2, <1>8, <1>9 DEF Meaning!TakenInPart, start, all

\* A call that is over changes nothing but what it took in.
LEMMA RefusedInPart ==
  ASSUME IInv, ReadInv, pc \in {"begin", "scan"}, pc' = "idle", result' = "false",
         UNCHANGED <<opts, shorthandMap, positionalArgs, minPositional, dst, argv>>,
         ~Meaning!Understood
  PROVE  Meaning!Refuse
<1>1. Meaning!TakenInPart
  <2>1. CASE pc = "begin"
    <3>1. /\ opts = entry.opts /\ positionalArgs = entry.positionalArgs
          /\ DOMAIN opts = Keys /\ positionalArgs \in Seq(Token) /\ argv \in Seq(Token)
          /\ Len(argv) \in Nat
      BY <2>1 DEF ReadInv, IInv, TypeOK, OptionMap
    <3> DEFINE all == Meaning!Positionals
    <3>2. all \in Seq(Token)
      <4>1. Len(argv) \in 0 .. Len(argv)
        BY <3>1
      <4> QED
        BY <3>1, <4>1, PlacedGrows DEF Meaning!Placed, Meaning!Positionals
    <3>3. positionalArgs = positionalArgs \o <<>> /\ <<>> \in Seq(Token)
      BY <3>1, Joined
    <3>4. Meaning!IsPrefix(positionalArgs, positionalArgs)
      BY <3>1, <3>3, FrontIsPrefix
    <3> HIDE DEF all
    <3>5. Meaning!IsPrefix(positionalArgs, positionalArgs \o all)
      BY <3>1, <3>2, FrontIsPrefix
    <3> QED
      BY <2>1, <3>1, <3>4, <3>5 DEF Meaning!TakenInPart, all
  <2>2. CASE pc = "scan"
    <3>1. at \in 1 .. Len(argv) + 1
      BY DEF IInv, TypeOK, ScanStaysInside
    <3> QED
      BY <2>2, <3>1, ReadInPart DEF ReadInv
  <2> QED
    BY <2>1, <2>2
<1>2. Meaning!settings' = Meaning!settings
  BY DEF Meaning!settings
<1> QED
  BY <1>1, <1>2 DEF Meaning!Refuse

\* A line without a program name is refused.
LEMMA NoProgramName ==
  ASSUME IInv, ReadInv, SkipProgramName, pc' = "idle"
  PROVE  Meaning!Refuse
<1>1. /\ pc = "begin" /\ argc < 1 /\ result' = "false"
      /\ UNCHANGED <<opts, shorthandMap, positionalArgs, minPositional, dst, argv>>
  BY DEF SkipProgramName, Return, cursor, settings
<1>2. argv = <<>>
  <2>1. Len(argv) = 0 /\ argv \in Seq(Token)
    BY <1>1 DEF ReadInv, IInv, TypeOK, ScanStaysInside
  <2> QED
    BY <2>1, EmptySeq
<1>3. ~Meaning!Understood
  BY <1>2 DEF Meaning!Understood
<1> QED
  BY <1>1, <1>3, RefusedInPart

\* An option that is not known or lacks its value: the line is not understood.
LEMMA OptionRefused ==
  ASSUME IInv, ReadInv, NEW key, pc = "scan", argc # 0, RegisterCmdlOption(key),
         Arg(at).form # "positional", key = KeyOf(Arg(at), shorthandMap),
         pc' = "idle",
         UNCHANGED <<shorthandMap, positionalArgs, minPositional, dst>>
  PROVE  Meaning!Refuse
<1>0. ReadUpTo(at, opts, positionalArgs)
  BY DEF ReadInv
<1>1. /\ Len(argv) \in Nat /\ at \in 2 .. Len(argv) /\ argc = Len(argv) + 1 - at
      /\ Arg(at) = argv[at] /\ at \in Meaning!Heads
  BY <1>0, AtToken
<1>2. result' = "false" /\ UNCHANGED <<opts, argv>>
  BY DEF RegisterCmdlOption, Return, cursor, AdvanceArgv
<1>3. ~Meaning!Understood
  <2>1. CASE key \notin Registered(opts)
    <3>1. ASSUME NEW k \in Keys PROVE ~Meaning!Names(argv[at], k)
      BY <1>0, <1>1, <2>1, ReadOptions, InCall
    <3> QED
      BY <1>1, <3>1 DEF Meaning!Understood
  <2>2. CASE key \in Registered(opts)
    <3>1. opts[key].kind # "boolean" /\ argc - 1 < 1
      BY <2>2 DEF RegisterCmdlOption, Return
    <3>2. at = Len(argv)
      BY <1>1, <3>1
    <3>3. key \in Keys /\ key \in Registered(entry.opts) /\ entry.opts[key].kind # "boolean"
      BY <1>0, <2>2, <3>1, ReadOptions DEF Registered
    <3>4. Meaning!TakesValue(argv[at])
      BY <1>1, <3>3, InCall
    <3>5. ~Meaning!Complete(at)
      BY <1>1, <3>2, <3>4 DEF Meaning!Complete
    <3> QED
      BY <1>1, <3>5 DEF Meaning!Understood
  <2> QED
    BY <2>1, <2>2
<1> QED
  BY <1>2, <1>3, RefusedInPart

\* An ill-formed token: the line is not understood.
LEMMA IllFormedRefused ==
  ASSUME IInv, ReadInv, ScanIllFormed
  PROVE  Meaning!Refuse
<1>0. pc = "scan" /\ argc # 0 /\ ReadUpTo(at, opts, positionalArgs)
  BY DEF ReadInv, ScanIllFormed, Scanning
<1>1. Arg(at) = argv[at] /\ at \in Meaning!Free /\ argv[at] \in Token
      /\ (argv[at].form # "positional" <=> at \in Meaning!Heads)
  BY <1>0, AtToken
<1>2. argv[at].form = "illFormed"
  BY <1>1, CommandLineAssumption DEF ScanIllFormed, Scanning
<1>3. KeyOf(argv[at], shorthandMap) = NoKey
  BY <1>2 DEF KeyOf
<1>4. \A k \in Keys : ~Meaning!Names(argv[at], k)
  BY <1>0, <1>3, InCall, CommandLineAssumption
<1>5. ~Meaning!Understood
  BY <1>1, <1>2, <1>4 DEF Meaning!Understood
<1>6. /\ pc' = "idle" /\ result' = "false"
      /\ UNCHANGED <<opts, shorthandMap, positionalArgs, minPositional, dst, argv>>
  BY DEF ScanIllFormed, Return, cursor, settings
<1> QED
  BY <1>0, <1>5, <1>6, RefusedInPart

\* When the parameters are checked no token is left.
LEMMA ReadToTheEnd ==
  ASSUME IInv, ReadInv, pc \in {"check", "assign"}
  PROVE  /\ ReadUpTo(at, opts, positionalArgs)
         /\ at = Len(argv) + 1 /\ Len(argv) \in Nat
         /\ \A i \in Meaning!Heads : i \in 1 .. Len(argv) /\ i < at
<1>1. ReadUpTo(at, opts, positionalArgs)
  BY DEF ReadInv
<1>2. at = Len(argv) + 1 /\ Len(argv) \in Nat
  BY DEF IInv, TypeOK, ScanStaysInside, CheckedInv
<1>3. \A i \in Meaning!Heads : i \in 1 .. Len(argv) /\ i < at
  BY <1>2 DEF Meaning!Heads, Meaning!Free
<1> QED
  BY <1>1, <1>2, <1>3

\* The end of the line is reached: everything it says was taken in.
LEMMA ReadInFull ==
  ASSUME IInv, ReadInv, pc \in {"check", "assign"}, pc' = "idle",
         UNCHANGED <<opts, positionalArgs>>
  PROVE  Meaning!Understood /\ Meaning!TakenIn
<1>1. /\ ReadUpTo(at, opts, positionalArgs)
      /\ at = Len(argv) + 1 /\ Len(argv) \in Nat
      /\ \A i \in Meaning!Heads : i \in 1 .. Len(argv) /\ i < at
  BY ReadToTheEnd
<1>2. Meaning!Understood
  <2>1. argv # <<>>
    <3>1. Len(argv) >= 1
      BY <1>1 DEF ReadUpTo
    <3>2. Len(<<>>) = 0
      OBVIOUS
    <3> QED
      BY <3>1, <3>2
  <2>2. \A i \in Meaning!Heads :
          Meaning!Complete(i) /\ \E k \in Keys : Meaning!Names(argv[i], k)
    BY <1>1 DEF ReadUpTo
  <2> QED
    BY <2>1, <2>2 DEF Meaning!Understood
<1>3. ASSUME NEW k \in Keys
      PROVE  IF Meaning!Mentions(k) = {} THEN opts[k] = entry.opts[k]
             ELSE Meaning!ReadAt(k, Meaning!Max(Meaning!Mentions(k)), opts[k])
  <2>1. {i \in Meaning!Mentions(k) : i < at} = Meaning!Mentions(k)
    BY <1>1 DEF Meaning!Mentions
  <2>2. OptionRead(k, at, opts[k])
    BY <1>1 DEF ReadUpTo
  <2>3. CASE Meaning!Mentions(k) = {}
    BY <2>1, <2>2, <2>3 DEF OptionRead
  <2>4. CASE Meaning!Mentions(k) # {}
    <3>1. PICK i \in Meaning!Mentions(k) :
            /\ \A j \in Meaning!Mentions(k) : j <= i
            /\ Meaning!ReadAt(k, i, opts[k])
      BY <2>1, <2>2, <2>4 DEF OptionRead
    <3>2. Meaning!Mentions(k) \subseteq Int
      BY <1>1 DEF Meaning!Mentions
    <3> DEFINE mentions == Meaning!Mentions(k)
    <3>3. Meaning!Max(mentions) = i
      <4> HIDE DEF mentions
      <4>1. i \in mentions /\ mentions \subseteq Int /\ \A j \in mentions : j <= i
        BY <3>1, <3>2 DEF mentions
      <4>2. \A x \in mentions : (\A y \in mentions : x >= y) <=> x = i
        BY <4>1
      <4> QED
        BY <4>1, <4>2 DEF Meaning!Max
    <3> QED
      BY <2>4, <3>1, <3>3
  <2> QED
    BY <2>3, <2>4
<1>4. positionalArgs = entry.positionalArgs \o Meaning!Positionals
  <2>1. at - 1 = Len(argv)
    BY <1>1
  <2> QED
    BY <1>1, <2>1 DEF ReadUpTo, Meaning!Positionals
<1>5. DOMAIN opts = Keys
  BY DEF IInv, TypeOK, OptionMap
<1>6. Meaning!TakenIn
  BY <1>3, <1>4, <1>5 DEF Meaning!TakenIn
<1> QED
  BY <1>2, <1>6

\* __checkParameters checks what is promised of an accepted line.
LEMMA ChecksMean ==
  ASSUME IInv
  PROVE  Meaning!Satisfied(opts, positionalArgs) <=>
           ShorthandsOK /\ Len(positionalArgs) >= minPositional /\ RequiredGiven
<1>1. Meaning!LettersAgree(opts) <=> ShorthandsOK
  BY LettersInOrder DEF Meaning!LettersAgree, Meaning!Registered, Registered, IInv, TypeOK
<1> QED
  BY <1>1 DEF Meaning!Satisfied, RequiredGiven, Meaning!Registered, Registered

\* A line that was understood but fails a check.
LEMMA CheckRefused ==
  ASSUME IInv, ReadInv, CheckParameters, pc' = "idle"
  PROVE  Meaning!Refuse
<1>1. /\ pc = "check" /\ result' = "false"
      /\ UNCHANGED <<opts, shorthandMap, positionalArgs, minPositional, dst, argv>>
      /\ ~(ShorthandsOK /\ Len(positionalArgs) >= minPositional /\ RequiredGiven)
  BY DEF CheckParameters, Return, settings, cursor
<1>2. Meaning!Understood /\ Meaning!TakenIn
  BY <1>1, ReadInFull
<1>3. ~Meaning!Satisfied(opts, positionalArgs)
  BY <1>1, ChecksMean
<1> QED
  BY <1>1, <1>2, <1>3 DEF Meaning!Refuse, Meaning!settings

\* A line that passes all checks.
LEMMA ValuesAccepted ==
  ASSUME IInv, ReadInv, AssignValues
  PROVE  Meaning!Accept
<1>1. /\ pc = "assign" /\ pc' = "idle" /\ result' = "true"
      /\ UNCHANGED <<opts, shorthandMap, positionalArgs, minPositional, argv>>
      /\ dst' = [k \in Keys |->
                  IF k \in Registered(opts) /\ opts[k].bound
                  THEN Outcome(opts[k]) ELSE dst[k]]
  BY DEF AssignValues, Return, settings, cursor
<1>2. Meaning!Understood /\ Meaning!TakenIn
  BY <1>1, ReadInFull
<1>3. Meaning!Satisfied(opts, positionalArgs)
  BY <1>1, ChecksMean DEF IInv, CheckedInv
<1>4. \A k \in Keys : k \in Registered(opts) /\ opts[k].bound <=>
                      k \in Registered(entry.opts) /\ entry.opts[k].bound
  BY <1>1, ReadOptions DEF ReadInv
<1>5. dst' = [k \in Keys |->
               IF k \in Meaning!Registered(entry.opts) /\ entry.opts[k].bound
               THEN Meaning!Outcome(opts[k]) ELSE dst[k]]
  BY <1>1, <1>4 DEF Meaning!Registered, Registered, Meaning!Outcome, Outcome
<1> QED
  BY <1>1, <1>2, <1>3, <1>5 DEF Meaning!Accept, Meaning!settings

\* Within a call the abstract parser sees nothing.
LEMMA StaysInCall ==
  ASSUME pc # "idle", pc' # "idle",
         UNCHANGED <<entry, shorthandMap, minPositional, dst, argv, result>>
  PROVE  UNCHANGED Meaning!vars
BY DEF Meaning!vars, Meaning!settings

\* Each step does what the abstract parser allows, or is invisible to it.
LEMMA StepMeans ==
  ASSUME IInv, IInv', ReadInv, [Next]_vars
  PROVE  [Meaning!Next]_(Meaning!vars)
<1>1. CASE AddParameter \/ SetMinimumPositionalArgsRequired
  BY <1>1, RegistrationMeans DEF Meaning!Next
<1>2. CASE ParseArgs
  BY <1>2, CallMeans DEF Meaning!Next
<1>3. CASE SkipProgramName
  <2>1. CASE pc' = "idle"
    BY <1>3, <2>1, NoProgramName DEF Meaning!Next
  <2>2. CASE pc' # "idle"
    BY <1>3, <2>2, StaysInCall DEF SkipProgramName, Return, settings
  <2> QED
    BY <2>1, <2>2
<1>4. ASSUME NEW key, pc = "scan", argc # 0, RegisterCmdlOption(key),
             Arg(at).form # "positional", key = KeyOf(Arg(at), shorthandMap),
             UNCHANGED <<shorthandMap, positionalArgs, minPositional, dst, entry>>
      PROVE  [Meaning!Next]_(Meaning!vars)
  <2>1. CASE pc' = "idle"
    BY <1>4, <2>1, OptionRefused DEF Meaning!Next
  <2>2. CASE pc' # "idle"
    <3>1. UNCHANGED <<argv, result>>
      BY <1>4, <2>2 DEF RegisterCmdlOption, Return
    <3> QED
      BY <1>4, <2>2, <3>1, StaysInCall
  <2> QED
    BY <2>1, <2>2
<1>5. CASE ScanLongOption
  BY <1>4, <1>5 DEF ScanLongOption, Scanning, KeyOf, settings
<1>6. CASE ScanShortOption
  BY <1>4, <1>6 DEF ScanShortOption, Scanning, KeyOf, settings
<1>7. CASE ScanIllFormed
  BY <1>7, IllFormedRefused DEF Meaning!Next
<1>8. CASE ScanPositional
  BY <1>8, StaysInCall DEF ScanPositional, Scanning, settings
<1>9. CASE EndOfLine
  BY <1>9, StaysInCall DEF EndOfLine, settings, cursor
<1>10. CASE CheckParameters
  <2>1. CASE pc' = "idle"
    BY <1>10, <2>1, CheckRefused DEF Meaning!Next
  <2>2. CASE pc' # "idle"
    BY <1>10, <2>2, StaysInCall DEF CheckParameters, Return, settings, cursor
  <2> QED
    BY <2>1, <2>2
<1>11. CASE AssignValues
  BY <1>11, ValuesAccepted DEF Meaning!Next
<1>12. CASE Finished \/ UNCHANGED vars
  BY <1>12 DEF Finished, vars, settings, cursor, Meaning!vars, Meaning!settings
<1> QED
  BY <1>1, <1>2, <1>3, <1>5, <1>6, <1>7, <1>8, <1>9, <1>10, <1>11, <1>12
  DEF Next, Parsing

\* parseArgs, token by token, implements the parser that reads the whole line in
\* one step: it accepts exactly the lines that are understood and satisfy the
\* checks, the last mention of an option counts, positional arguments keep their
\* order and add up over calls, and a refused line changes no variable.
THEOREM LineMeaning == Spec => ParsesTheLine
<1>1. Init => Meaning!Init
  BY InitMeans
<1>2. IInv /\ IInv' /\ ReadInv /\ [Next]_vars => [Meaning!Next]_(Meaning!vars)
  BY StepMeans
<1> QED
  BY <1>1, <1>2, InductiveInvariant, LineIsReadInOrder, PTL
  DEF Spec, ParsesTheLine, Meaning!Spec

=============================================================================
