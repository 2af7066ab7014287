--------------------------- MODULE SynthesizedCode ---------------------------
(***************************************************************************)
(* The code a module stands for, stated over the whole tree at once: which *)
(* lines the two files of a class consist of, in which order, and with     *)
(* which numbers in the comments and in the names of temporaries.          *)
(* Synthesizer.tla is the visitor that has to write exactly this.          *)
(*                                                                         *)
(* A line keeps what it is (op), the definition or premise it comes from   *)
(* (at) and its number if it has one (n); the text follows from these.     *)
(***************************************************************************)
EXTENDS SnowlakeAST, SequencesExt

FileOps    == {"stale", "errorCodes", "preamble", "declaration", "endClass",
               "beginMethod", "return", "endMethod"}
PremiseOps == {"comment", "setup", "teardown", "declare", "temp", "checkTemps",
               "check", "checkEach"}

Line(op, at, n) == [op |-> op, at |-> at, n |-> n]

Lines == [op: FileOps \cup PremiseOps, at: Nat, n: Nat]

\* A computed target is deduced into one temporary and its source into a
\* second; the two are compared.
DeducesComputed(pr) ==
  pr.kind = "inference" /\ ~pr.while /\ pr.target.form = "computed"

-----------------------------------------------------------------------------
\* An inference premise is numbered after those that ended before it began.
NumberOf(ps, i) ==
  1 + Cardinality({j \in DOMAIN ps : ps[j].kind = "inference" /\ ps[j].last < i})

\* What stands where premise i begins, first being its first free temporary.
Entry(ps, i, first, comments) ==
  LET pr == ps[i]
  IN  (IF comments /\ pr.kind = "inference"
       THEN <<Line("comment", i, NumberOf(ps, i))>> ELSE <<>>)
      \o CASE pr.kind = "equality" ->
                <<Line(IF pr.range = NoRange THEN "check" ELSE "checkEach", i, 0)>>
           [] OpensWhile(pr) -> <<Line("setup", i, 0)>>
           [] DeducesComputed(pr) ->
                <<Line("temp", i, first), Line("temp", i, first + 1),
                  Line("checkTemps", i, first)>>
           [] OTHER -> <<Line("declare", i, 0)>>

\* The end of the while-clause of premise k, where premise i ends it.
Teardown(ps, i, k) ==
  IF OpensWhile(ps[k]) /\ ps[k].last = i THEN <<Line("teardown", k, 0)>> ELSE <<>>

\* What stands where it ends: the while-clauses it closes, innermost first.
Exits(ps, i) == FlattenSeq([x \in 1 .. i |-> Teardown(ps, i, i + 1 - x)])

\* Temporaries are numbered through the whole module: two for each computed
\* target before premise i of definition d of group g.
TempsBefore(mod, g, d, i) ==
  2 * Cardinality({at \in UNION {UNION {{<<a, b>>} \X DOMAIN mod[a].defns[b].premises :
                                    b \in DOMAIN mod[a].defns} : a \in DOMAIN mod} :
        LET a == at[1][1]  b == at[1][2]  j == at[2]
        IN  /\ DeducesComputed(mod[a].defns[b].premises[j])
            /\ \/ a < g
               \/ a = g /\ b < d
               \/ a = g /\ b = d /\ j < i})

MethodCode(mod, g, d, comments) ==
  LET ps == mod[g].defns[d].premises
  IN  <<Line("beginMethod", d, 0)>>
      \o FlattenSeq([i \in DOMAIN ps |->
           Entry(ps, i, TempsBefore(mod, g, d, i), comments) \o Exits(ps, i)])
      \o <<Line("return", d, 0), Line("endMethod", d, 0)>>

ClassCode(mod, g, comments) ==
  <<Line("preamble", g, 0)>>
  \o FlattenSeq([d \in DOMAIN mod[g].defns |-> MethodCode(mod, g, d, comments)])

ClassHeader(mod, g) ==
  <<Line("preamble", g, 0)>>
  \o [d \in DOMAIN mod[g].defns |-> Line("declaration", d, 0)]
  \o <<Line("endClass", g, 0)>>

=============================================================================
