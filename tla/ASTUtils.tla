------------------------------ MODULE ASTUtils ------------------------------
(***************************************************************************)
(* The target-compatibility helpers of src/ASTUtils.cpp.  The target table *)
(* of an inference definition is a function from names to the target that  *)
(* was last deduced under that name, or NoTarget.                          *)
(***************************************************************************)
EXTENDS SnowlakeAST

CONSTANT NoTarget

ASSUME NoTargetAssumption == NoTarget \notin Target
ASSUME NoRangeAssumption  == NoRange \notin Target

TargetTable == [Names -> Target \cup {NoTarget}]

EmptyTable == [n \in Names |-> NoTarget]

\* Fault: any two arrays can be compared.
AreTargetsCompatible_AnyArrays(lhs, rhs) ==
  \/ lhs.form = rhs.form
  \/ "computed" \in {lhs.form, rhs.form}
  \/ HasSizeLiteral(lhs) \/ HasSizeLiteral(rhs)

\* Whether the two operands of an equality premise can be compared.
AreTargetsCompatible(lhs, rhs) ==
  \/ lhs.form = "singular" /\ rhs.form = "singular"
  \/ /\ lhs.form = "array" /\ rhs.form = "array"
     /\ HasSizeLiteral(lhs) <=> HasSizeLiteral(rhs)
  \/ "computed" \in {lhs.form, rhs.form}
  \/ lhs.form = "array" /\ rhs.form = "singular" /\ HasSizeLiteral(lhs)
  \/ lhs.form = "singular" /\ rhs.form = "array" /\ HasSizeLiteral(rhs)

\* Fault: the values of two size literals are not compared.
SameArraySize_LiteralOnly(t, u) == HasSizeLiteral(t) <=> HasSizeLiteral(u)

\* Arrays match when both or neither carry a size literal, and it is the same.
SameArraySize(t, u) ==
  /\ HasSizeLiteral(t) <=> HasSizeLiteral(u)
  /\ HasSizeLiteral(t) => t.size = u.size

InTable(t, tbl) == tbl[t.name] # NoTarget

\* Computed targets are always compatible: their type is not known.
HasCompatibleTargetInTable(t, tbl) ==
  \/ t.form = "computed"
  \/ t.form = "singular" /\ InTable(t, tbl) /\ tbl[t.name].form = "singular"
  \/ /\ t.form = "array" /\ InTable(t, tbl) /\ tbl[t.name].form = "array"
     /\ SameArraySize(t, tbl[t.name])

HasIncompatibleTargetInTable(t, tbl) ==
  \/ t.form = "singular" /\ InTable(t, tbl) /\ tbl[t.name].form # "singular"
  \/ /\ t.form = "array" /\ InTable(t, tbl)
     /\ \/ tbl[t.name].form # "array"
        \/ ~SameArraySize(t, tbl[t.name])

\* Fault: computed targets enter the table too.
AddTargetToTable_Computed(t, tbl) == [tbl EXCEPT ![t.name] = t]

\* Overwrites the entry of the same name; computed targets leave no entry.
AddTargetToTable(t, tbl) ==
  IF t.form = "computed" THEN tbl ELSE [tbl EXCEPT ![t.name] = t]

=============================================================================
