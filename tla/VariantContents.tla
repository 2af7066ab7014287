-------------------------- MODULE VariantContents --------------------------
(***************************************************************************)
(* What the users of src/variant.h and src/optional.h rely on: a variant   *)
(* is a box that is empty or holds one value under one of its types, and   *)
(* assignment, copy and move do to boxes what they do to values.           *)
(***************************************************************************)
EXTENDS Integers, Sequences, FiniteSetsExt

CONSTANTS
  Variants,     \* the variant objects of the program
  Types,        \* the alternatives, in the order of the template list
  Values,       \* what an object of any of them can hold
  Convertible,  \* <<from, to>>: std::is_convertible
  Converted,    \* Converted[<<from, to, x>>]: x converted, itself if from = to
  Nothing       \* the content of an empty box

VARIABLES
  live,         \* the variants that exist
  content       \* what each of them holds

AllTypes == {Types[i] : i \in DOMAIN Types}
Content  == [type: AllTypes, value: Values] \cup {Nothing}

\* The value is kept under its own type; a constant goes to the first type it
\* converts to, which may come before its own.
Held(t, x, const) ==
  LET fits   == {i \in DOMAIN Types : IF const THEN <<t, Types[i]>> \in Convertible
                                               ELSE Types[i] = t}
      target == Types[Min(fits)]
  IN  [type |-> target, value |-> Converted[<<t, target, x>>]]

Init == live = {} /\ content = [v \in Variants |-> Nothing]

Put(v, c) == content' = [content EXCEPT ![v] = c]

Construct(v) ==
  /\ v \notin live /\ live' = live \cup {v}
  /\ \/ Put(v, Nothing)
     \/ \E t \in AllTypes, x \in Values, const \in BOOLEAN : Put(v, Held(t, x, const))
     \/ \E w \in live : Put(v, content[w])
     \/ \E w \in live : content' = [content EXCEPT ![v] = content[w], ![w] = Nothing]

Assign(v) ==
  /\ v \in live /\ UNCHANGED live
  /\ \/ \E t \in AllTypes, x \in Values, const \in BOOLEAN : Put(v, Held(t, x, const))
     \/ \E w \in live : Put(v, content[w])
     \/ \E w \in live \ {v} : content' = [content EXCEPT ![v] = content[w], ![w] = Nothing]
     \/ Put(v, Nothing)

Destruct(v) == v \in live /\ live' = live \ {v} /\ Put(v, Nothing)

Next == \E v \in Variants : Construct(v) \/ Assign(v) \/ Destruct(v)

Spec == Init /\ [][Next]_<<live, content>>

=============================================================================
