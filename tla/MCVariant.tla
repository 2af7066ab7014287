----------------------------- MODULE MCVariant -----------------------------
(***************************************************************************)
(* Three variants over int, double and string.  int and double convert to  *)
(* each other; the double 2 stands for a fraction that an int rounds to 1. *)
(***************************************************************************)
EXTENDS Variant

MCTypes == <<"int", "double", "string">>
MCValues == {1, 2}

MCConvertible ==
  {<<t, t>> : t \in AllTypes} \cup {<<"int", "double">>, <<"double", "int">>}

MCConverted ==
  [c \in AllTypes \X AllTypes \X Values |->
     IF c[1] = "double" /\ c[2] = "int" THEN 1 ELSE c[3]]

=============================================================================
