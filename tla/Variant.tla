------------------------------ MODULE Variant ------------------------------
(***************************************************************************)
(* src/variant.h, src/variant_impl.h, src/variant_dispatcher.h and         *)
(* src/optional.h: raw storage of the size of the largest alternative and  *)
(* an index that says which of them lives in it.  Nothing but the code of  *)
(* the variant keeps the two in step: every constructor call is a          *)
(* placement new over whatever the storage held, and every destructor call *)
(* trusts the index.                                                       *)
(***************************************************************************)
EXTENDS Integers, Sequences, FiniteSetsExt

CONSTANTS
  Variants, Types, Values, Convertible, Converted, Nothing,
  Temp,       \* the variant that operator= makes for its argument
  TmpData,    \* the storage swap() copies through
  Raw,        \* storage in which no object lives
  Corrupt,    \* storage whose object was destroyed as what it was not
  MovedFrom,  \* the value an object may keep once moved from
  Garbage,    \* what reading an object that is not there gives
  Threw,      \* std::runtime_error instead of a result
  WordSize    \* 2^w for the width w of std::size_t

VARIABLES
  live,       \* the variants that are constructed
  index,      \* _type_index of each variant
  data        \* _data of each, and of the storage of a running operator=

vars == <<live, index, data>>

Size     == Len(Types)
Storage  == Variants \cup {Temp, TmpData}
AllTypes == {Types[i] : i \in DOMAIN Types}
Object   == [type: AllTypes, value: Values \cup {MovedFrom, Garbage}]

ASSUME VariantAssumption ==
  /\ Temp \notin Variants /\ TmpData \notin Variants /\ Temp # TmpData
  /\ Types \in Seq(AllTypes) /\ WordSize \in Nat
  /\ Size \in 1 .. WordSize - 2
  /\ \A i, j \in DOMAIN Types : Types[i] = Types[j] => i = j
  /\ \A t \in AllTypes : <<t, t>> \in Convertible
  /\ \A c \in Convertible, x \in Values : Converted[<<c[1], c[2], x>>] \in Values
  /\ Raw # Corrupt /\ {Raw, Corrupt, Nothing} \cap Object = {}
  /\ {MovedFrom, Garbage} \cap Values = {}

\* The comparers compare values with <, and an exception is none of their results.
ASSUME ComparisonAssumption ==
  /\ Values \subseteq Int
  /\ Threw \notin Values \X Values /\ Threw \notin (1 .. Size) \X Values
  /\ Threw \notin BOOLEAN

-----------------------------------------------------------------------------
(* Indices: they count from the last alternative.                          *)

\* std::size_t(-1)
invalid_type_index == WordSize - 1

\* The templates recurse over the list, up to the first alternative that fits.
IndexOf(fits) == IF fits = {} THEN invalid_type_index ELSE Size - Min(fits)

direct_type(t)      == IndexOf({i \in DOMAIN Types : Types[i] = t})
convertible_type(t) == IndexOf({i \in DOMAIN Types : <<t, Types[i]>> \in Convertible})

\* The argument's type keeps its const, and no alternative is const.
value_traits(t, const) == IF const THEN convertible_type(t) ELSE direct_type(t)

select_type(id) == Types[Size - id]

which(id) == (Size - id - 1) % WordSize

-----------------------------------------------------------------------------
(* variant_helper: what happens to the storage d.  The recursion over the  *)
(* alternatives ends without effect for the invalid index.                 *)

ValueAt(d, at, t) ==
  IF d[at] \in Object /\ d[at].type = t THEN d[at].value ELSE Garbage

copy(d, id, from, to) ==
  IF id = invalid_type_index THEN d
  ELSE LET t == select_type(id)
       IN  [d EXCEPT ![to] = [type |-> t, value |-> ValueAt(d, from, t)]]

\* The object moved from stays alive, with a value of its choice.
move(d, id, from, to, left) ==
  IF id = invalid_type_index THEN d
  ELSE LET t == select_type(id)
       IN  [d EXCEPT ![to]   = [type |-> t, value |-> ValueAt(d, from, t)],
                     ![from] = [type |-> t, value |-> left]]

destroy(d, id, at) ==
  IF id = invalid_type_index THEN d
  ELSE [d EXCEPT ![at] = IF d[at] \in Object /\ d[at].type = select_type(id)
                         THEN Raw ELSE Corrupt]

\* Placement new of an argument of type t.
construct(d, t, x, const, to) ==
  LET target == select_type(value_traits(t, const))
  IN  [d EXCEPT ![to] = [type |-> target, value |-> Converted[<<t, target, x>>]]]

-----------------------------------------------------------------------------
Init ==
  /\ live = {}
  /\ index = [v \in Variants |-> invalid_type_index]
  /\ data = [s \in Storage |-> Raw]

\* Storage that goes out of scope, whatever lived in it.
Released(d, at) == [d EXCEPT ![at] = IF @ = Corrupt THEN Corrupt ELSE Raw]

ConstructEmpty(v) ==
  /\ v \notin live /\ live' = live \cup {v}
  /\ index' = [index EXCEPT ![v] = invalid_type_index]
  /\ UNCHANGED data

ConstructFromValue(v) ==
  /\ v \notin live /\ live' = live \cup {v}
  /\ \E t \in AllTypes, x \in Values, const \in BOOLEAN :
       /\ index' = [index EXCEPT ![v] = value_traits(t, const)]
       /\ data' = construct(data, t, x, const, v)

ConstructCopy(v, w) ==
  /\ v \notin live /\ w \in live /\ live' = live \cup {v}
  /\ index' = [index EXCEPT ![v] = index[w]]
  /\ data' = copy(data, index[w], w, v)

\* Fault: the source keeps its index.
ConstructMove_KeepsSource(v, w) ==
  /\ v \notin live /\ w \in live /\ live' = live \cup {v}
  /\ index' = [index EXCEPT ![v] = index[w]]
  /\ \E left \in Values \cup {MovedFrom} : data' = move(data, index[w], w, v, left)

ConstructMove(v, w) ==
  /\ v \notin live /\ w \in live /\ live' = live \cup {v}
  /\ index' = [index EXCEPT ![v] = index[w], ![w] = invalid_type_index]
  /\ \E left \in Values \cup {MovedFrom} : data' = move(data, index[w], w, v, left)

Destruct(v) ==
  /\ v \in live /\ live' = live \ {v}
  /\ data' = Released(destroy(data, index[v], v), v)
  /\ index' = [index EXCEPT ![v] = invalid_type_index]

-----------------------------------------------------------------------------
(* Assignment: the argument becomes the variant Temp, is swapped with the  *)
(* target, and is destroyed as what the target was.                        *)

\* Fault: the target's value is not copied out before it is written over.
swap_OneWay(d, lhs, lhsIndex, rhs, rhsIndex) ==
  copy(copy(d, rhsIndex, rhs, TmpData), rhsIndex, TmpData, lhs)

\* The storage after swap(lhs, rhs); the indices are exchanged by the caller.
swap(d, lhs, lhsIndex, rhs, rhsIndex) ==
  LET saved   == copy(d, rhsIndex, rhs, TmpData)
      out     == copy(saved, lhsIndex, lhs, rhs)
  IN  copy(out, rhsIndex, TmpData, lhs)

\* temp has the index tempIndex and lives in d.
SwapIn(v, d, indices, tempIndex) ==
  LET swapped == swap(d, v, indices[v], Temp, tempIndex)
  IN  /\ data' = Released(Released(destroy(swapped, indices[v], Temp), Temp), TmpData)
      /\ index' = [indices EXCEPT ![v] = tempIndex]

AssignValue(v) ==
  /\ v \in live /\ UNCHANGED live
  /\ \E t \in AllTypes, x \in Values, const \in BOOLEAN :
       SwapIn(v, construct(data, t, x, const, Temp), index, value_traits(t, const))

AssignCopy(v, w) ==
  /\ v \in live /\ w \in live /\ UNCHANGED live
  /\ SwapIn(v, copy(data, index[w], w, Temp), index, index[w])

AssignMove(v, w) ==
  /\ v \in live /\ w \in live /\ UNCHANGED live
  /\ \E left \in Values \cup {MovedFrom} :
       SwapIn(v, move(data, index[w], w, Temp, left),
              [index EXCEPT ![w] = invalid_type_index], index[w])

\* optional::reset() assigns a default-constructed variant.
Reset(v) ==
  /\ v \in live /\ UNCHANGED live
  /\ SwapIn(v, data, index, invalid_type_index)

Next ==
  \E v \in Variants :
    \/ ConstructEmpty(v) \/ ConstructFromValue(v) \/ Destruct(v)
    \/ AssignValue(v) \/ Reset(v)
    \/ \E w \in Variants : \/ ConstructCopy(v, w) \/ ConstructMove(v, w)
                           \/ AssignCopy(v, w) \/ AssignMove(v, w)

Spec == Init /\ [][Next]_vars

-----------------------------------------------------------------------------
(* Access, comparison and visitation.                                      *)

is(v, i) == index[v] = direct_type(Types[i])

get(v, i) == IF is(v, i) THEN ValueAt(data, v, Types[i]) ELSE Threw

\* optional<T>::value() on a variant<nullopt_t, T>, whose T is the alternative i.
has_value(v, i) == is(v, i)

dispatcher(v) ==
  LET from[i \in 1 .. Size + 1] ==
        IF i > Size THEN Threw
        ELSE IF index[v] = Size - i THEN <<i, get(v, i)>> ELSE from[i + 1]
  IN  from[1]

\* The left operand is of alternative i, the right one of a later one.
binary_dispatcher_rhs(v, w, i) ==
  LET from[j \in 1 .. Size + 1] ==
        IF j > Size THEN Threw
        ELSE IF index[w] = Size - j THEN <<get(v, i), get(w, j)>> ELSE from[j + 1]
  IN  from[i + 1]

\* Fault: the operands are passed in the order they were found.
binary_dispatcher_lhs_Swapped(v, w, j) ==
  LET from[i \in 1 .. Size + 1] ==
        IF i > Size THEN Threw
        ELSE IF index[v] = Size - i THEN <<get(w, j), get(v, i)>> ELSE from[i + 1]
  IN  from[j + 1]

\* The right operand is of alternative j, the left one of a later one.
binary_dispatcher_lhs(v, w, j) ==
  LET from[i \in 1 .. Size + 1] ==
        IF i > Size THEN Threw
        ELSE IF index[v] = Size - i THEN <<get(v, i), get(w, j)>> ELSE from[i + 1]
  IN  from[j + 1]

binary_dispatcher(v, w) ==
  LET from[i \in 1 .. Size + 1] ==
        IF i > Size THEN Threw
        ELSE IF index[v] = Size - i
             THEN IF index[v] = index[w] THEN <<get(v, i), get(w, i)>>
                                         ELSE binary_dispatcher_rhs(v, w, i)
        ELSE IF index[w] = Size - i THEN binary_dispatcher_lhs(v, w, i)
        ELSE from[i + 1]
  IN  from[1]

visit(v)           == dispatcher(v)
binary_visit(v, w) == binary_dispatcher(v, w)

\* The comparer gets the right operand from the dispatcher and asks the left
\* one for the same type.
Compared(v, w) ==
  LET rhs == visit(w) IN IF rhs = Threw THEN Threw ELSE <<get(v, rhs[1]), rhs[2]>>

equal_to(pair)  == IF pair = Threw THEN Threw ELSE pair[1] = pair[2]
less_than(pair) == IF pair = Threw THEN Threw ELSE pair[1] < pair[2]

Equal(v, w) == IF index[v] # index[w] THEN FALSE ELSE equal_to(Compared(v, w))

\* Fault: the order of the alternatives is that of the indices on one side only.
Less_Unequal(v, w) ==
  IF index[v] # index[w] THEN which(index[v]) < index[w] ELSE less_than(Compared(v, w))

Less(v, w) ==
  IF which(index[v]) # which(index[w]) THEN which(index[v]) < which(index[w])
  ELSE less_than(Compared(v, w))

-----------------------------------------------------------------------------
(* Properties.                                                             *)

\* The index and the storage agree: where the index names an alternative, an
\* object of that type lives in the storage and still has its value; nothing
\* was destroyed as something it was not; and no variant outlives its storage.
StorageIsSound ==
  /\ \A s \in Storage : data[s] \in Object \cup {Raw}
  /\ data[Temp] = Raw /\ data[TmpData] = Raw
  /\ \A v \in Variants :
       /\ index[v] \in 0 .. Size - 1 \cup {invalid_type_index}
       /\ index[v] # invalid_type_index =>
            v \in live /\ data[v] \in [type: {select_type(index[v])}, value: Values]
       /\ v \notin live => data[v] = Raw

Holds(v) == IF index[v] = invalid_type_index THEN Nothing ELSE data[v]

\* Assignment by swapping copies, moving and resetting have the effect they
\* should on what the variants hold, and on no other variant (the comments and
\* tests of variant.h and optional.h).
Contents == INSTANCE VariantContents WITH content <- [v \in Variants |-> Holds(v)]
ValueSemantics == Contents!Spec

\* Visitation hands the visitor the values of both operands, in their order,
\* for every pair of alternatives, and throws if one of them is empty.
VisitsGetTheOperands ==
  \A v, w \in live :
    binary_visit(v, w) =
      IF Nothing \in {Holds(v), Holds(w)} THEN Threw ELSE <<Holds(v).value, Holds(w).value>>

Precedes(v, w) == Less(v, w) = TRUE

\* Of two variants that are not both empty exactly one of <, == and > holds, and
\* < is transitive: they can be the keys of an ordered container.  Two empty
\* ones cannot be compared, although they have the same index.
OrderIsTotal ==
  /\ \A v, w \in live :
       IF Holds(v) = Nothing /\ Holds(w) = Nothing
       THEN Equal(v, w) = Threw /\ Less(v, w) = Threw
       ELSE /\ Equal(v, w) \in BOOLEAN /\ Less(v, w) \in BOOLEAN
            /\ Equal(v, w) <=> Holds(v) = Holds(w)
            /\ ~(Less(v, w) /\ Less(w, v))
            /\ Equal(v, w) \/ Less(v, w) \/ Less(w, v)
  /\ \A u, v, w \in live : Precedes(u, v) /\ Precedes(v, w) => Precedes(u, w)

=============================================================================
