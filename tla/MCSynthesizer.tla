---------------------------- MODULE MCSynthesizer ----------------------------
(***************************************************************************)
(* One definition with every nesting of up to four premises, one of them   *)
(* computed; two definitions in one or two groups, with equal and distinct *)
(* class names, with and without the fields for while-clauses.             *)
(***************************************************************************)
EXTENDS Synthesizer

MCNames == {"a", "x", "y", "A", "B"}
MCSizes == {1}

T(form, name, args) ==
  [form |-> form, name |-> name, size |-> NoSize, args |-> args]

Infer(t, w) == [kind |-> "inference", source |-> "a", target |-> t, while |-> w]
Equal(r)    == [kind |-> "equality", lhs |-> T("singular", "x", {}),
                rhs |-> T("singular", "a", {}), range |-> r]

While    == Infer(T("singular", "y", {}), TRUE)
Deduce   == Infer(T("singular", "x", {}), FALSE)
Compute  == Infer(T("computed", "y", {"x"}), FALSE)
Ranged   == Equal(T("computed", "y", {"x"}))

At(pr, last) ==
  [k \in DOMAIN pr \cup {"last"} |-> IF k = "last" THEN last ELSE pr[k]]

\* All lists of n of the premises prs, with every nesting.
Lists(n, prs) ==
  {ps \in {[i \in 1 .. n |-> At(s[i], ends[i])] :
             s \in [1 .. n -> prs],
             ends \in {e \in [1 .. n -> 1 .. n] : \A i \in 1 .. n : e[i] >= i}} :
     WellNested(ps)}

Env(class, fields) ==
  SetToSeq({[field |-> f, value |-> IF f = "ClassName" THEN class ELSE "x"] :
              f \in MandatoryFields \cup fields})

Method(name, ps) ==
  [name |-> name, globals |-> <<>>, arguments |-> <<"a">>,
   premises |-> ps, proposition |-> T("computed", "y", {"x"})]

Class(name, class, fields, defns) ==
  [name |-> name, env |-> Env(class, fields), defns |-> defns]

OneMethod ==
  {<<Class("x", "A", WhileFields, <<Method("x", ps)>>)>> :
     ps \in UNION {Lists(n, {While, Deduce, Compute, Ranged}) : n \in 0 .. 3}
              \cup Lists(4, {While, Deduce})}

Short == {<<>>, <<At(Compute, 1)>>, <<At(While, 2), At(Compute, 2)>>}

TwoClasses ==
  {<<Class("x", "A", WhileFields, <<Method("x", s)>>),
     Class("y", class, fields, <<Method("x", t)>>)>> :
     class \in {"A", "B"}, s \in Short, t \in Short,
     fields \in {WhileFields, {}, {"TypeAnnotationSetupMethod"}}}

\* Class "B" takes the files of the error codes for its own.
TwoMethods ==
  {<<Class("x", class, WhileFields, <<Method("x", s), Method("y", t)>>)>> :
     s \in Short, t \in Short, class \in {"A", "B"}}

MCModules == OneMethod \cup TwoClasses \cup TwoMethods

=============================================================================
