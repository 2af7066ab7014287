---------------------------- MODULE VariantProofs ----------------------------
(***************************************************************************)
(* Proofs about Variant, for every number of variants and every list of    *)
(* alternatives: storage and index stay in step, what the operations do to *)
(* the storage is what they should do to the values, and visitation and    *)
(* comparison see those values.                                            *)
(***************************************************************************)
EXTENDS Variant, BasicLemmas

Indices == 0 .. Size - 1 \cup {invalid_type_index}

\* The inductive invariant: types, and that storage and index agree.
IInv ==
  /\ live \subseteq Variants
  /\ index \in [Variants -> Indices]
  /\ data \in [Storage -> Object \cup {Raw}]
  /\ StorageIsSound

-----------------------------------------------------------------------------
(* Alternatives and their indices.                                         *)

\* The invalid index is none of an alternative.
LEMMA InvalidIndex ==
  /\ Size \in Nat \ {0}
  /\ invalid_type_index \in Nat
  /\ \A id \in 0 .. Size - 1 : id # invalid_type_index
BY VariantAssumption DEF invalid_type_index

\* An index is that of a type.
LEMMA SelectedType ==
  ASSUME NEW id \in 0 .. Size - 1
  PROVE  select_type(id) \in AllTypes
<1>1. Size - id \in 1 .. Size
  BY InvalidIndex
<1>2. Size - id \in DOMAIN Types
  BY <1>1, VariantAssumption DEF Size
<1> QED
  BY <1>2 DEF select_type, AllTypes

\* The type a value is kept under.
Fits(t, const) ==
  {i \in DOMAIN Types : IF const THEN <<t, Types[i]>> \in Convertible ELSE Types[i] = t}

\* A value finds its type, const or not, and converts to it.
LEMMA ValueFindsType ==
  ASSUME NEW t \in AllTypes, NEW const \in BOOLEAN, NEW x \in Values
  PROVE  /\ value_traits(t, const) \in 0 .. Size - 1
         /\ select_type(value_traits(t, const)) = Types[Min(Fits(t, const))]
         /\ Converted[<<t, select_type(value_traits(t, const)), x>>] \in Values
<1> DEFINE fits == Fits(t, const)
<1>1. PICK i \in DOMAIN Types : Types[i] = t
  BY DEF AllTypes
<1>2. i \in fits
  BY <1>1, VariantAssumption DEF Fits
<1>3. DOMAIN Types = 1 .. Size /\ Size \in Nat
  BY VariantAssumption DEF Size
<1>4. fits \in SUBSET Nat /\ fits # {} /\ fits \subseteq 1 .. Size
  BY <1>2, <1>3 DEF Fits
<1>5. Min(fits) \in fits
  BY <1>4, MinIsLeast
<1>6. value_traits(t, const) = Size - Min(fits)
  BY <1>4 DEF value_traits, direct_type, convertible_type, IndexOf, Fits
<1>7. Min(fits) \in 1 .. Size
  BY <1>4, <1>5
<1>8. value_traits(t, const) \in 0 .. Size - 1
  BY <1>3, <1>6, <1>7
<1>9. select_type(value_traits(t, const)) = Types[Min(fits)]
  <2>1. Size - (Size - Min(fits)) = Min(fits)
    BY <1>3, <1>7
  <2> QED
    BY <2>1, <1>6 DEF select_type
<1>10. <<t, Types[Min(fits)]>> \in Convertible
  BY <1>5, VariantAssumption DEF Fits
<1>11. Converted[<<t, Types[Min(fits)], x>>] \in Values
  BY <1>10, VariantAssumption
<1> QED
  BY <1>8, <1>9, <1>11

-----------------------------------------------------------------------------
(* Storage.                                                                *)

\* The object an index promises at a place.
Promised(d, id, at) ==
  id # invalid_type_index => d[at] \in [type: {select_type(id)}, value: Values]

\* Copying an object that is there copies its value, and nothing else.
LEMMA CopyResult ==
  ASSUME NEW d \in [Storage -> Object \cup {Raw}], NEW id \in Indices,
         NEW from \in Storage, NEW to \in Storage, Promised(d, id, from)
  PROVE  copy(d, id, from, to)
           = [d EXCEPT ![to] = IF id = invalid_type_index THEN d[to] ELSE d[from]]
<1>1. CASE id = invalid_type_index
  BY <1>1 DEF copy
<1>2. CASE id # invalid_type_index
  <2> DEFINE t == select_type(id)
  <2>1. PICK x \in Values : d[from] = [type |-> t, value |-> x]
    BY <1>2 DEF Promised
  <2>2. d[from] \in Object
    <3>1. t \in AllTypes
      BY <1>2, SelectedType DEF Indices
    <3> QED
      BY <2>1, <3>1 DEF Object
  <2>3. ValueAt(d, from, t) = x
    BY <2>1, <2>2 DEF ValueAt
  <2> QED
    BY <1>2, <2>1, <2>3 DEF copy
<1> QED
  BY <1>1, <1>2

\* Assignment leaves the object of the temporary in the target, if there is one,
\* and nothing in the temporary: the target's old object is destroyed there, as
\* what it is.
SwappedIn(d, v, tempIndex) ==
  [d EXCEPT ![v] = IF tempIndex = invalid_type_index THEN d[v] ELSE d[Temp],
            ![Temp] = Raw, ![TmpData] = Raw]

\* What swap and the destructors leave behind is that.
LEMMA SwapResult ==
  ASSUME NEW v \in Variants, NEW d \in [Storage -> Object \cup {Raw}],
         NEW i \in Indices, NEW j \in Indices,
         Promised(d, i, v), Promised(d, j, Temp), d[TmpData] = Raw
  PROVE  Released(Released(destroy(swap(d, v, i, Temp, j), i, Temp), Temp), TmpData)
           = SwappedIn(d, v, j)
<1>1. v \in Storage /\ Temp \in Storage /\ TmpData \in Storage
      /\ v # Temp /\ v # TmpData /\ Temp # TmpData
  BY VariantAssumption DEF Storage
<1>2. Raw # Corrupt /\ Raw \notin Object /\ Corrupt \notin Object
  BY VariantAssumption
<1> DEFINE none(id) == id = invalid_type_index
           saved == [d EXCEPT ![TmpData] = IF none(j) THEN d[TmpData] ELSE d[Temp]]
           out   == [saved EXCEPT ![Temp] = IF none(i) THEN saved[Temp] ELSE saved[v]]
           final == [out EXCEPT ![v] = IF none(j) THEN out[v] ELSE out[TmpData]]
<1>3. saved = copy(d, j, Temp, TmpData)
  BY <1>1, CopyResult
<1>4. saved \in [Storage -> Object \cup {Raw}] /\ Promised(saved, i, v)
  BY <1>1 DEF Promised
<1>5. out = copy(saved, i, v, Temp)
  <2> HIDE DEF saved
  <2> QED
    BY <1>1, <1>4, CopyResult
<1>6. out \in [Storage -> Object \cup {Raw}] /\ Promised(out, j, TmpData)
  BY <1>1, <1>4 DEF Promised
<1>7. final = copy(out, j, TmpData, v)
  <2> HIDE DEF out
  <2> QED
    BY <1>1, <1>6, CopyResult
<1>8. final \in [Storage -> Object \cup {Raw}]
      /\ final[Temp] = (IF none(i) THEN d[Temp] ELSE d[v])
      /\ final[v] = (IF none(j) THEN d[v] ELSE d[Temp])
      /\ \A s \in Storage \ {v, Temp, TmpData} : final[s] = d[s]
  BY <1>1, <1>6
<1>9. swap(d, v, i, Temp, j) = final
  <2>1. swap(d, v, i, Temp, j)
          = copy(copy(copy(d, j, Temp, TmpData), i, v, Temp), j, TmpData, v)
    BY DEF swap
  <2> HIDE DEF saved, out, final
  <2> QED
    BY <2>1, <1>3, <1>5, <1>7
<1> DEFINE gone == destroy(final, i, Temp)
<1>10. gone = [final EXCEPT ![Temp] = IF none(i) THEN d[Temp] ELSE Raw]
  <2>1. CASE none(i)
    BY <2>1, <1>1, <1>8 DEF destroy
  <2>2. CASE ~none(i)
    <3>1. d[v] \in [type: {select_type(i)}, value: Values] /\ d[v] \in Object \cup {Raw}
      BY <2>2, <1>1 DEF Promised
    <3>2. d[v].type = select_type(i) /\ d[v] \in Object
      <4>1. select_type(i) \in AllTypes
        BY <2>2, SelectedType DEF Indices
      <4> QED
        BY <3>1, <4>1 DEF Object
    <3> QED
      BY <2>2, <3>2, <1>1, <1>8 DEF destroy
  <2> QED
    BY <2>1, <2>2
<1>11. gone \in [Storage -> Object \cup {Raw}]
  <2>1. Raw \in Object \cup {Raw} /\ d[Temp] \in Object \cup {Raw}
    BY <1>1
  <2> HIDE DEF gone, final
  <2> QED
    BY ONLY <1>8, <1>10, <2>1
<1> HIDE DEF gone, final
<1>12. Released(gone, Temp) = [gone EXCEPT ![Temp] = Raw]
  BY ONLY <1>1, <1>2, <1>11 DEF Released
<1>13. Released(Released(gone, Temp), TmpData) = [gone EXCEPT ![Temp] = Raw, ![TmpData] = Raw]
  <2> DEFINE cleared == [gone EXCEPT ![Temp] = Raw]
  <2>1. cleared \in [Storage -> Object \cup {Raw}]
    BY ONLY <1>1, <1>11
  <2>2. Released(cleared, TmpData) = [cleared EXCEPT ![TmpData] = Raw]
    <3> HIDE DEF cleared
    <3> QED
      BY ONLY <1>1, <1>2, <2>1 DEF Released
  <2> QED
    BY <1>12, <2>2
<1>14. [gone EXCEPT ![Temp] = Raw, ![TmpData] = Raw] = SwappedIn(d, v, j)
  BY <1>1, <1>8, <1>10 DEF SwappedIn
<1> QED
  BY <1>9, <1>13, <1>14 DEF gone

-----------------------------------------------------------------------------
(* One lemma per operation: what it makes of the contents.                 *)

C == [v \in Variants |-> Holds(v)]

\* What the invariant says of one variant.
Sound(v, i, x) ==
  /\ i \in Indices
  /\ x \in Object \cup {Raw}
  /\ i # invalid_type_index => x \in [type: {select_type(i)}, value: Values]

\* The invariant, variant by variant.
LEMMA InvParts ==
  IInv <=>
    /\ live \subseteq Variants
    /\ index \in [Variants -> Indices]
    /\ data \in [Storage -> Object \cup {Raw}]
    /\ data[Temp] = Raw /\ data[TmpData] = Raw
    /\ \A v \in Variants :
         /\ Sound(v, index[v], data[v])
         /\ v \notin live => index[v] = invalid_type_index /\ data[v] = Raw
<1>1. Variants \subseteq Storage
  BY DEF Storage
<1> QED
  BY <1>1 DEF IInv, StorageIsSound, Sound, Indices

\* An operation that changes one variant only changes its content only.
LEMMA OneVariant ==
  ASSUME IInv, NEW v \in Variants, NEW i, NEW x, NEW alive \in BOOLEAN,
         Sound(v, i, x), ~alive => i = invalid_type_index /\ x = Raw,
         live' = IF alive THEN live \cup {v} ELSE live \ {v},
         index' = [index EXCEPT ![v] = i],
         data' = [data EXCEPT ![v] = x]
  PROVE  /\ IInv'
         /\ C' = [C EXCEPT ![v] = IF i = invalid_type_index THEN Nothing ELSE x]
<1>1. v \in Storage /\ v # Temp /\ v # TmpData /\ Temp \in Storage /\ TmpData \in Storage
  BY VariantAssumption DEF Storage
<1>2. /\ live' \subseteq Variants
      /\ index' \in [Variants -> Indices]
      /\ data' \in [Storage -> Object \cup {Raw}]
      /\ data'[Temp] = Raw /\ data'[TmpData] = Raw
  BY <1>1, InvParts DEF Sound
<1>3. ASSUME NEW u \in Variants
      PROVE  /\ Sound(u, index'[u], data'[u])
             /\ u \notin live' => index'[u] = invalid_type_index /\ data'[u] = Raw
  BY <1>1, InvParts DEF Sound, Storage
<1>4. IInv'
  BY <1>2, <1>3 DEF IInv, StorageIsSound, Sound, Indices, Storage
<1>5. C' = [C EXCEPT ![v] = IF i = invalid_type_index THEN Nothing ELSE x]
  BY <1>1, InvParts DEF C, Holds, Storage
<1> QED
  BY <1>4, <1>5


\* The default constructor.

\* It leaves an empty variant, sound and without a value.
LEMMA ConstructEmptyStep ==
  ASSUME IInv, NEW v \in Variants, ConstructEmpty(v)
  PROVE  IInv' /\ Contents!Construct(v)
<1>1. data' = [data EXCEPT ![v] = Raw]
  BY InvParts DEF ConstructEmpty, Storage
<1>2. Sound(v, invalid_type_index, Raw)
  BY DEF Sound, Indices
<1>3. IInv' /\ C' = [C EXCEPT ![v] = Nothing]
  BY <1>1, <1>2, OneVariant DEF ConstructEmpty
<1> QED
  BY <1>3 DEF ConstructEmpty, Contents!Construct, Contents!Put, C

\* The object a value becomes.
Made(t, x, const) ==
  LET target == select_type(value_traits(t, const))
  IN  [type |-> target, value |-> Converted[<<t, target, x>>]]

\* A made object is the one the index of its type promises, and the one that the
\* users of the variant expect.
LEMMA MadeIsSound ==
  ASSUME NEW v \in Variants, NEW t \in AllTypes, NEW x \in Values, NEW const \in BOOLEAN
  PROVE  /\ Sound(v, value_traits(t, const), Made(t, x, const))
         /\ value_traits(t, const) # invalid_type_index
         /\ Made(t, x, const) = Contents!Held(t, x, const)
<1>1. /\ value_traits(t, const) \in 0 .. Size - 1
      /\ select_type(value_traits(t, const)) = Types[Min(Fits(t, const))]
      /\ Converted[<<t, select_type(value_traits(t, const)), x>>] \in Values
  BY ValueFindsType
<1>2. value_traits(t, const) # invalid_type_index
  BY <1>1, InvalidIndex
<1>3. Made(t, x, const) \in Object
  <2>1. select_type(value_traits(t, const)) \in AllTypes
    BY <1>1, SelectedType
  <2> QED
    BY <1>1, <2>1 DEF Made, Object
<1>4. Made(t, x, const) \in [type: {select_type(value_traits(t, const))}, value: Values]
  BY <1>1 DEF Made
<1>5. Made(t, x, const) = Contents!Held(t, x, const)
  <2>1. Contents!Held(t, x, const)
          = [type |-> Types[Min(Fits(t, const))],
             value |-> Converted[<<t, Types[Min(Fits(t, const))], x>>]]
    BY DEF Contents!Held, Fits, Min, Contents!Min
  <2> QED
    BY <1>1, <2>1 DEF Made
<1> QED
  BY <1>1, <1>2, <1>3, <1>4, <1>5 DEF Sound, Indices

\* The constructor from a value.
LEMMA ConstructFromValueStep ==
  ASSUME IInv, NEW v \in Variants, ConstructFromValue(v)
  PROVE  IInv' /\ Contents!Construct(v)
<1>1. PICK t \in AllTypes, x \in Values, const \in BOOLEAN :
        /\ index' = [index EXCEPT ![v] = value_traits(t, const)]
        /\ data' = construct(data, t, x, const, v)
  BY DEF ConstructFromValue
<1>2. data' = [data EXCEPT ![v] = Made(t, x, const)]
  BY <1>1 DEF construct, Made
<1> DEFINE i == value_traits(t, const)
           y == Made(t, x, const)
<1>3. Sound(v, i, y) /\ i # invalid_type_index
  BY MadeIsSound
<1>4. live' = live \cup {v} /\ index' = [index EXCEPT ![v] = i] /\ data' = [data EXCEPT ![v] = y]
  BY <1>1, <1>2 DEF ConstructFromValue
<1> HIDE DEF i, y
<1>5. IInv' /\ C' = [C EXCEPT ![v] = y]
  BY <1>3, <1>4, OneVariant
<1>6. IInv' /\ C' = [C EXCEPT ![v] = Made(t, x, const)]
  BY <1>5 DEF y
<1>7. C' = [C EXCEPT ![v] = Contents!Held(t, x, const)]
  BY <1>6, MadeIsSound
<1>8. \E t1 \in Contents!AllTypes, x1 \in Values, const1 \in BOOLEAN :
        Contents!Put(v, Contents!Held(t1, x1, const1))
  <2>1. t \in Contents!AllTypes
    BY DEF AllTypes, Contents!AllTypes
  <2> QED
    BY <1>7, <2>1 DEF Contents!Put, C
<1> QED
  BY <1>6, <1>8 DEF ConstructFromValue, Contents!Construct

\* The copy constructor.
LEMMA ConstructCopyStep ==
  ASSUME IInv, NEW v \in Variants, NEW w \in Variants, ConstructCopy(v, w)
  PROVE  IInv' /\ Contents!Construct(v)
<1> DEFINE x == IF index[w] = invalid_type_index THEN data[v] ELSE data[w]
<1>1. w \in Storage /\ v \in Storage /\ Promised(data, index[w], w) /\ index[w] \in Indices
      /\ data \in [Storage -> Object \cup {Raw}]
  BY InvParts DEF Storage, Promised, Sound
<1>2. data' = [data EXCEPT ![v] = x]
  <2> DEFINE id == index[w]
  <2>1. id \in Indices /\ Promised(data, id, w)
    BY <1>1
  <2>2. data' = copy(data, id, w, v)
    BY DEF ConstructCopy
  <2>3. x = IF id = invalid_type_index THEN data[v] ELSE data[w]
    OBVIOUS
  <2> HIDE DEF id, x
  <2> QED
    BY <1>1, <2>1, <2>2, <2>3, CopyResult
<1>3. Sound(v, index[w], x)
  BY InvParts, <1>1 DEF Sound
<1>4. IInv' /\ C' = [C EXCEPT ![v] = IF index[w] = invalid_type_index THEN Nothing ELSE x]
  BY <1>2, <1>3, OneVariant DEF ConstructCopy
<1>5. Contents!Put(v, C[w])
  BY <1>4 DEF Contents!Put, C, Holds
<1> QED
  BY <1>4, <1>5 DEF ConstructCopy, Contents!Construct, C

\* The destructor destroys what lives in the storage, as what it is.
LEMMA DestructStep ==
  ASSUME IInv, NEW v \in Variants, Destruct(v)
  PROVE  IInv' /\ Contents!Destruct(v)
<1>1. v \in Storage /\ Sound(v, index[v], data[v]) /\ data \in [Storage -> Object \cup {Raw}]
  BY InvParts DEF Storage
<1>2. Raw # Corrupt
  BY VariantAssumption
<1>3. data' = [data EXCEPT ![v] = Raw]
  <2>1. CASE index[v] = invalid_type_index
    <3>1. data[v] # Corrupt
      BY <1>1, VariantAssumption
    <3> QED
      BY <2>1, <3>1, <1>1 DEF Destruct, destroy, Released
  <2>2. CASE index[v] # invalid_type_index
    <3>1. data[v] \in Object /\ data[v].type = select_type(index[v])
      <4>1. select_type(index[v]) \in AllTypes
        BY <1>1, <2>2, SelectedType DEF Sound, Indices
      <4> QED
        BY <4>1, <1>1, <2>2 DEF Sound, Object
    <3> QED
      BY <2>2, <3>1, <1>1, <1>2 DEF Destruct, destroy, Released
  <2> QED
    BY <2>1, <2>2
<1>4. Sound(v, invalid_type_index, Raw)
  BY DEF Sound, Indices
<1>5. IInv' /\ C' = [C EXCEPT ![v] = Nothing]
  BY <1>3, <1>4, OneVariant DEF Destruct
<1> QED
  BY <1>5 DEF Destruct, Contents!Destruct, Contents!Put, C

\* f with new values at two places.
Both(f, w, b, v, a) == [f EXCEPT ![w] = b, ![v] = a]

\* An operation that changes two variants changes their contents only.
LEMMA TwoVariants ==
  ASSUME IInv, NEW v \in Variants, NEW w \in Variants, v # w, w \in live,
         NEW i, NEW x, NEW k, NEW y, Sound(v, i, x), Sound(w, k, y),
         live' = live \cup {v},
         index' = Both(index, w, k, v, i),
         data' = Both(data, w, y, v, x)
  PROVE  /\ IInv'
         /\ C' = Both(C, w, IF k = invalid_type_index THEN Nothing ELSE y,
                          v, IF i = invalid_type_index THEN Nothing ELSE x)
<1>1. v \in Storage /\ v # Temp /\ v # TmpData /\ Temp \in Storage /\ TmpData \in Storage
      /\ w \in Variants /\ w \in Storage /\ w # Temp /\ w # TmpData
  BY VariantAssumption, InvParts DEF Storage
<1>2. /\ live' \subseteq Variants
      /\ index' \in [Variants -> Indices]
      /\ data' \in [Storage -> Object \cup {Raw}]
      /\ data'[Temp] = Raw /\ data'[TmpData] = Raw
  BY <1>1, InvParts DEF Sound, Both
<1>3. ASSUME NEW u \in Variants
      PROVE  /\ Sound(u, index'[u], data'[u])
             /\ u \notin live' => index'[u] = invalid_type_index /\ data'[u] = Raw
  BY <1>1, InvParts DEF Sound, Storage, Both
<1>4. IInv'
  BY <1>2, <1>3 DEF IInv, StorageIsSound, Sound, Indices, Storage
<1>5. C' = Both(C, w, IF k = invalid_type_index THEN Nothing ELSE y,
                   v, IF i = invalid_type_index THEN Nothing ELSE x)
  BY <1>1, InvParts DEF C, Holds, Storage, Both
<1> QED
  BY <1>4, <1>5

\* What a moved-from object looks like, if there was one.
Left(w, left) ==
  IF index[w] = invalid_type_index THEN data[w]
  ELSE [type |-> select_type(index[w]), value |-> left]

\* Moving an object that is there moves its value, and leaves an object behind.
LEMMA MoveResult ==
  ASSUME IInv, NEW w \in Variants, NEW to \in Storage, to # w,
         NEW left \in Values \cup {MovedFrom}
  PROVE  /\ move(data, index[w], w, to, left)
              = [data EXCEPT ![w] = Left(w, left),
                             ![to] = IF index[w] = invalid_type_index THEN data[to] ELSE data[w]]
         /\ Sound(w, invalid_type_index, Left(w, left))
<1>1. w \in Storage /\ Sound(w, index[w], data[w]) /\ data \in [Storage -> Object \cup {Raw}]
  BY InvParts DEF Storage
<1>2. CASE index[w] = invalid_type_index
  BY <1>1, <1>2 DEF move, Left, Sound, Indices
<1>3. CASE index[w] # invalid_type_index
  <2> DEFINE t == select_type(index[w])
  <2>1. t \in AllTypes
    BY <1>1, <1>3, SelectedType DEF Sound, Indices
  <2>2. PICK x \in Values : data[w] = [type |-> t, value |-> x]
    BY <1>1, <1>3 DEF Sound
  <2>3. data[w] \in Object
    BY <2>1, <2>2 DEF Object
  <2>4. ValueAt(data, w, t) = x
    BY <2>2, <2>3 DEF ValueAt
  <2>5. move(data, index[w], w, to, left)
          = [data EXCEPT ![to] = data[w], ![w] = Left(w, left)]
    BY <1>3, <2>2, <2>4 DEF move, Left
  <2>6. Left(w, left) \in Object
    BY <1>3, <2>1 DEF Left, Object
  <2>7. move(data, index[w], w, to, left)
          = [data EXCEPT ![w] = Left(w, left), ![to] = data[w]]
    BY <2>5, <1>1
  <2> QED
    BY <1>3, <2>6, <2>7 DEF Sound, Indices
<1> QED
  BY <1>2, <1>3

\* The move constructor.
LEMMA ConstructMoveStep ==
  ASSUME IInv, NEW v \in Variants, NEW w \in Variants, ConstructMove(v, w)
  PROVE  IInv' /\ Contents!Construct(v)
<1> DEFINE x == IF index[w] = invalid_type_index THEN data[v] ELSE data[w]
<1>1. PICK left \in Values \cup {MovedFrom} : data' = move(data, index[w], w, v, left)
  BY DEF ConstructMove
<1>2. v # w /\ v \in Storage /\ w \in live
  BY DEF ConstructMove, Storage
<1>3. /\ data' = [data EXCEPT ![w] = Left(w, left), ![v] = x]
      /\ Sound(w, invalid_type_index, Left(w, left))
  BY <1>1, <1>2, MoveResult
<1>4. Sound(v, index[w], x)
  BY InvParts DEF Sound
<1>5. index' = [index EXCEPT ![w] = invalid_type_index, ![v] = index[w]]
  BY <1>2, InvParts DEF ConstructMove
<1>6. /\ IInv'
      /\ C' = [C EXCEPT ![w] = Nothing,
                        ![v] = IF index[w] = invalid_type_index THEN Nothing ELSE x]
  <2> DEFINE i == index[w]
             y == Left(w, left)
             k == invalid_type_index
  <2>1. /\ Sound(v, i, x) /\ Sound(w, k, y)
        /\ live' = live \cup {v}
        /\ index' = Both(index, w, k, v, i)
        /\ data' = Both(data, w, y, v, x)
    BY <1>3, <1>4, <1>5 DEF ConstructMove, Both
  <2>2. /\ IInv'
        /\ C' = Both(C, w, IF k = invalid_type_index THEN Nothing ELSE y,
                         v, IF i = invalid_type_index THEN Nothing ELSE x)
    <3> HIDE DEF i, y, k, x
    <3> QED
      BY <1>2, <2>1, TwoVariants
  <2> QED
    BY <2>2 DEF Both
<1>7. C' = [C EXCEPT ![v] = C[w], ![w] = Nothing]
  BY <1>2, <1>6 DEF C, Holds
<1> QED
  BY <1>2, <1>6, <1>7 DEF ConstructMove, Contents!Construct, C

\* Swapping in a temporary that holds x.
LEMMA SwapInResult ==
  ASSUME IInv, NEW v \in live, NEW j, NEW x, Sound(v, j, x),
         SwapIn(v, [data EXCEPT ![Temp] = x], index, j), UNCHANGED live
  PROVE  IInv' /\ C' = [C EXCEPT ![v] = IF j = invalid_type_index THEN Nothing ELSE x]
<1> DEFINE d == [data EXCEPT ![Temp] = x]
           y == IF j = invalid_type_index THEN data[v] ELSE x
<1>1. v \in Variants /\ v \in Storage /\ v # Temp /\ v # TmpData
      /\ Temp \in Storage /\ TmpData \in Storage /\ Temp # TmpData
  BY VariantAssumption, InvParts DEF Storage
<1>2. /\ d \in [Storage -> Object \cup {Raw}]
      /\ index[v] \in Indices /\ j \in Indices
      /\ Promised(d, index[v], v) /\ Promised(d, j, Temp) /\ d[TmpData] = Raw
  BY <1>1, InvParts DEF Sound, Promised
<1>3. data' = SwappedIn(d, v, j) /\ index' = [index EXCEPT ![v] = j]
  <2> DEFINE i == index[v]
  <2>1. i \in Indices /\ Promised(d, i, v)
    BY <1>2
  <2>2. /\ data' = Released(Released(destroy(swap(d, v, i, Temp, j), i, Temp), Temp), TmpData)
        /\ index' = [index EXCEPT ![v] = j]
    BY DEF SwapIn
  <2> HIDE DEF d, i
  <2> QED
    BY <1>1, <1>2, <2>1, <2>2, SwapResult
<1>4. SwappedIn(d, v, j) = [data EXCEPT ![v] = y]
  BY <1>1, InvParts DEF SwappedIn
<1>5. Sound(v, j, y)
  BY <1>1, InvParts DEF Sound
<1>6. live' = live \cup {v}
  OBVIOUS
<1> QED
  BY <1>1, <1>3, <1>4, <1>5, <1>6, OneVariant

\* Assignment of a value.
LEMMA AssignValueStep ==
  ASSUME IInv, NEW v \in Variants, AssignValue(v)
  PROVE  IInv' /\ Contents!Assign(v)
<1>1. PICK t \in AllTypes, x \in Values, const \in BOOLEAN :
        SwapIn(v, construct(data, t, x, const, Temp), index, value_traits(t, const))
  BY DEF AssignValue
<1>2. construct(data, t, x, const, Temp) = [data EXCEPT ![Temp] = Made(t, x, const)]
  BY DEF construct, Made
<1> DEFINE i == value_traits(t, const)
           y == Made(t, x, const)
<1>3. Sound(v, i, y) /\ i # invalid_type_index
  BY MadeIsSound
<1>4. SwapIn(v, [data EXCEPT ![Temp] = y], index, i) /\ v \in live /\ UNCHANGED live
  BY <1>1, <1>2 DEF AssignValue
<1> HIDE DEF i, y
<1>5. IInv' /\ C' = [C EXCEPT ![v] = y]
  BY <1>3, <1>4, SwapInResult
<1>6. IInv' /\ C' = [C EXCEPT ![v] = Made(t, x, const)]
  BY <1>5 DEF y
<1>7. \E t1 \in Contents!AllTypes, x1 \in Values, const1 \in BOOLEAN :
        Contents!Put(v, Contents!Held(t1, x1, const1))
  <2>1. t \in Contents!AllTypes
    BY DEF AllTypes, Contents!AllTypes
  <2>2. C' = [C EXCEPT ![v] = Contents!Held(t, x, const)]
    BY <1>6, MadeIsSound
  <2> QED
    BY <2>1, <2>2 DEF Contents!Put, C
<1> QED
  BY <1>6, <1>7 DEF AssignValue, Contents!Assign

\* Assignment of a copy.
LEMMA AssignCopyStep ==
  ASSUME IInv, NEW v \in Variants, NEW w \in Variants, AssignCopy(v, w)
  PROVE  IInv' /\ Contents!Assign(v)
<1> DEFINE x == IF index[w] = invalid_type_index THEN data[Temp] ELSE data[w]
<1>1. w \in Storage /\ Temp \in Storage /\ Promised(data, index[w], w) /\ index[w] \in Indices
      /\ data \in [Storage -> Object \cup {Raw}]
  BY InvParts DEF Storage, Promised, Sound
<1>2. copy(data, index[w], w, Temp) = [data EXCEPT ![Temp] = x]
  <2> DEFINE id == index[w]
  <2>1. id \in Indices /\ Promised(data, id, w)
    BY <1>1
  <2>2. x = IF id = invalid_type_index THEN data[Temp] ELSE data[w]
    OBVIOUS
  <2>3. copy(data, id, w, Temp) = [data EXCEPT ![Temp] = x]
    <3> HIDE DEF id, x
    <3> QED
      BY <1>1, <2>1, <2>2, CopyResult
  <2> QED
    BY <2>3
<1>3. Sound(v, index[w], x)
  BY InvParts, <1>1 DEF Sound
<1>4. IInv' /\ C' = [C EXCEPT ![v] = IF index[w] = invalid_type_index THEN Nothing ELSE x]
  BY <1>2, <1>3, SwapInResult DEF AssignCopy
<1>5. Contents!Put(v, C[w])
  BY <1>4 DEF Contents!Put, C, Holds
<1> QED
  BY <1>4, <1>5 DEF AssignCopy, Contents!Assign, C

\* reset() of an optional.
LEMMA ResetStep ==
  ASSUME IInv, NEW v \in Variants, Reset(v)
  PROVE  IInv' /\ Contents!Assign(v)
<1>1. data = [data EXCEPT ![Temp] = Raw]
  BY InvParts
<1>2. Sound(v, invalid_type_index, Raw)
  BY DEF Sound, Indices
<1>3. IInv' /\ C' = [C EXCEPT ![v] = Nothing]
  BY <1>1, <1>2, SwapInResult DEF Reset
<1> QED
  BY <1>3 DEF Reset, Contents!Assign, Contents!Put, C

\* Assignment of what is moved, to another variant or to itself.
LEMMA AssignMoveStep ==
  ASSUME IInv, NEW v \in Variants, NEW w \in Variants, AssignMove(v, w)
  PROVE  IInv' /\ Contents!Assign(v)
<1> DEFINE x == IF index[w] = invalid_type_index THEN data[Temp] ELSE data[w]
           y == IF index[w] = invalid_type_index THEN data[v] ELSE data[w]
           indices == [index EXCEPT ![w] = invalid_type_index]
<1>1. PICK left \in Values \cup {MovedFrom} :
        SwapIn(v, move(data, index[w], w, Temp, left), indices, index[w])
  BY DEF AssignMove
<1> DEFINE d == [data EXCEPT ![w] = Left(w, left), ![Temp] = x]
<1>2. v \in Storage /\ v # Temp /\ v # TmpData /\ w \in Storage /\ w # Temp /\ w # TmpData
      /\ Temp \in Storage /\ TmpData \in Storage /\ Temp # TmpData
  BY VariantAssumption DEF Storage
<1>3. move(data, index[w], w, Temp, left) = d /\ Sound(w, invalid_type_index, Left(w, left))
  BY <1>2, MoveResult
<1>4. /\ d \in [Storage -> Object \cup {Raw}]
      /\ indices[v] \in Indices /\ index[w] \in Indices
      /\ Promised(d, indices[v], v) /\ Promised(d, index[w], Temp) /\ d[TmpData] = Raw
  BY <1>2, <1>3, InvParts DEF Sound, Promised, Indices
<1>5. data' = SwappedIn(d, v, index[w]) /\ index' = [indices EXCEPT ![v] = index[w]]
  <2> HIDE DEF d, indices
  <2> QED
    BY <1>1, <1>2, <1>3, <1>4, SwapResult DEF SwapIn
<1>6. CASE v = w
  <2>1. data' = [data EXCEPT ![v] = data[v]]
    BY <1>2, <1>5, <1>6, InvParts DEF SwappedIn, Left
  <2>2. index' = [index EXCEPT ![v] = index[v]]
    BY <1>5, <1>6, InvParts
  <2>3. live' = live \cup {v} /\ Sound(v, index[v], data[v])
    BY InvParts DEF AssignMove
  <2>4. IInv' /\ C' = [C EXCEPT ![v] = C[v]]
    BY <2>1, <2>2, <2>3, OneVariant DEF C, Holds
  <2> QED
    BY <2>4 DEF AssignMove, Contents!Assign, Contents!Put, C
<1>7. CASE v # w
  <2>1. data' = [data EXCEPT ![w] = Left(w, left), ![v] = y]
    BY <1>2, <1>5, <1>7, InvParts DEF SwappedIn
  <2>2. live' = live \cup {v} /\ w \in live /\ Sound(v, index[w], y)
    BY InvParts DEF AssignMove, Sound
  <2>3. /\ IInv'
        /\ C' = [C EXCEPT ![w] = Nothing,
                          ![v] = IF index[w] = invalid_type_index THEN Nothing ELSE y]
    <3> DEFINE i == index[w]
               z == Left(w, left)
               k == invalid_type_index
    <3>1. /\ Sound(v, i, y) /\ Sound(w, k, z)
          /\ index' = Both(index, w, k, v, i)
          /\ data' = Both(data, w, z, v, y)
      BY <1>3, <1>5, <2>1, <2>2 DEF Both
    <3>2. /\ IInv'
          /\ C' = Both(C, w, IF k = invalid_type_index THEN Nothing ELSE z,
                           v, IF i = invalid_type_index THEN Nothing ELSE y)
      <4> HIDE DEF i, y, z, k
      <4> QED
        BY <1>7, <2>2, <3>1, TwoVariants
    <3> QED
      BY <3>2 DEF Both
  <2>4. C' = [C EXCEPT ![v] = C[w], ![w] = Nothing]
    BY <1>7, <2>3 DEF C, Holds
  <2> QED
    BY <1>7, <2>2, <2>3, <2>4 DEF AssignMove, Contents!Assign, C
<1> QED
  BY <1>6, <1>7

-----------------------------------------------------------------------------
(* The specification.                                                      *)

\* The invariant holds at the start, where no variant exists.
LEMMA InitIInv == Init => IInv /\ Contents!Init
<1> SUFFICES ASSUME Init PROVE IInv /\ Contents!Init
  OBVIOUS
<1>1. Variants \subseteq Storage /\ Temp \in Storage /\ TmpData \in Storage
  BY DEF Storage
<1>2. IInv
  BY <1>1 DEF Init, InvParts, IInv, StorageIsSound, Indices
<1>3. C = [v \in Variants |-> Nothing]
  BY DEF Init, C, Holds
<1> QED
  BY <1>2, <1>3 DEF Init, Contents!Init, C

\* Every step keeps the invariant, and is a step on the contents or leaves them.
LEMMA Step ==
  IInv /\ [Next]_vars => IInv' /\ [Contents!Next]_<<live, C>>
<1> SUFFICES ASSUME IInv, [Next]_vars
             PROVE  IInv' /\ [Contents!Next]_<<live, C>>
  OBVIOUS
<1>1. ASSUME NEW v \in Variants, ConstructEmpty(v)
      PROVE  IInv' /\ Contents!Construct(v)
  BY <1>1, ConstructEmptyStep
<1>2. ASSUME NEW v \in Variants, ConstructFromValue(v)
      PROVE  IInv' /\ Contents!Construct(v)
  BY <1>2, ConstructFromValueStep
<1>3. ASSUME NEW v \in Variants, Destruct(v)
      PROVE  IInv' /\ Contents!Destruct(v)
  BY <1>3, DestructStep
<1>4. ASSUME NEW v \in Variants, AssignValue(v)
      PROVE  IInv' /\ Contents!Assign(v)
  BY <1>4, AssignValueStep
<1>5. ASSUME NEW v \in Variants, Reset(v)
      PROVE  IInv' /\ Contents!Assign(v)
  BY <1>5, ResetStep
<1>6. ASSUME NEW v \in Variants, NEW w \in Variants, ConstructCopy(v, w)
      PROVE  IInv' /\ Contents!Construct(v)
  BY <1>6, ConstructCopyStep
<1>7. ASSUME NEW v \in Variants, NEW w \in Variants, ConstructMove(v, w)
      PROVE  IInv' /\ Contents!Construct(v)
  BY <1>7, ConstructMoveStep
<1>8. ASSUME NEW v \in Variants, NEW w \in Variants, AssignCopy(v, w)
      PROVE  IInv' /\ Contents!Assign(v)
  BY <1>8, AssignCopyStep
<1>9. ASSUME NEW v \in Variants, NEW w \in Variants, AssignMove(v, w)
      PROVE  IInv' /\ Contents!Assign(v)
  BY <1>9, AssignMoveStep
<1>10. CASE UNCHANGED vars
  <2>1. IInv' /\ C' = C
    BY <1>10 DEF vars, IInv, StorageIsSound, C, Holds
  <2> QED
    BY <1>10, <2>1 DEF vars
<1>11. CASE Next
  BY <1>1, <1>2, <1>3, <1>4, <1>5, <1>6, <1>7, <1>8, <1>9, <1>11
     DEF Next, Contents!Next
<1> QED
  BY <1>10, <1>11

\* The index and the storage of every variant agree after any sequence of the
\* operations of variant.h and optional.h, self-assignment included.
THEOREM StorageSoundness == Spec => []StorageIsSound
<1>1. IInv => StorageIsSound
  BY DEF IInv
<1> QED
  BY InitIInv, Step, <1>1, PTL DEF Spec

\* Construction, assignment by swapping, moving and resetting do to the variants
\* what they do to the values, and leave every other variant alone.
THEOREM ValueSemanticsHold == Spec => ValueSemantics
<1>1. Contents!Init /\ [][Contents!Next]_<<live, C>> => ValueSemantics
  BY DEF ValueSemantics, Contents!Spec, C
<1> QED
  BY InitIInv, Step, <1>1, PTL DEF Spec

-----------------------------------------------------------------------------
(* Searches: the dispatchers are recursive functions over the positions of *)
(* the list of alternatives.                                               *)

\* The hits a search from i on still has ahead of it.
Ahead(hits, i) == {k \in hits : k >= i}

\* What a search from i on finds: the value of the first hit ahead, if any.
SearchFinds(hits, value, none, i) ==
  IF Ahead(hits, i) = {} THEN none ELSE value[Min(Ahead(hits, i))]

\* One test of a search among 1 .. n, and a function that makes all of them.
SearchStep(f, n, hits, value, none, i) ==
  IF i > n THEN none ELSE IF i \in hits THEN value[i] ELSE f[i + 1]

IsSearch(f, n, hits, value, none) ==
  f = [i \in 1 .. n + 1 |-> SearchStep(f, n, hits, value, none, i)]

\* A search finds what its first test finds, or else what the rest finds.
LEMMA SearchUnfolds ==
  ASSUME NEW n \in Nat, NEW hits \in SUBSET (1 .. n), NEW value, NEW none, NEW i \in 1 .. n + 1
  PROVE  SearchFinds(hits, value, none, i)
           = IF i > n THEN none ELSE IF i \in hits THEN value[i]
             ELSE SearchFinds(hits, value, none, i + 1)
<1> DEFINE S == Ahead(hits, i)
<1>0. \A k \in hits : k \in Nat /\ k <= n
  OBVIOUS
<1> i \in Nat /\ i <= n + 1
  OBVIOUS
<1>1. CASE i > n
  <2>1. S = {}
    <3>1. \A k \in hits : ~(k >= i)
      BY <1>0, <1>1
    <3> QED
      BY <3>1 DEF Ahead
  <2> QED
    BY <1>1, <2>1 DEF SearchFinds
<1>2. CASE i <= n /\ i \in hits
  <2>1. S \in SUBSET Nat /\ \A k \in S : k >= i
    BY <1>0 DEF Ahead
  <2>5. i \in S
    BY <1>2 DEF Ahead
  <2>2. Min(S) \in S /\ Min(S) <= i
    BY <2>1, <2>5, MinIsLeast
  <2>3. Min(S) \in Nat /\ Min(S) >= i
    BY <2>1, <2>2
  <2>4. Min(S) = i
    BY <2>2, <2>3
  <2> QED
    BY <1>2, <2>5, <2>4 DEF SearchFinds
<1>3. CASE i <= n /\ i \notin hits
  <2>1. S = Ahead(hits, i + 1)
    <3>1. \A k \in hits : k >= i <=> k >= i + 1
      BY <1>0, <1>3
    <3> QED
      BY <3>1 DEF Ahead
  <2> QED
    BY <1>3, <2>1 DEF SearchFinds
<1> QED
  BY <1>1, <1>2, <1>3

\* There is a function that searches so: the recursions of the dispatchers, over
\* the list of alternatives, are well defined.
LEMMA SearchExists ==
  ASSUME NEW n \in Nat, NEW hits \in SUBSET (1 .. n), NEW value, NEW none
  PROVE  \E f : IsSearch(f, n, hits, value, none)
<1> DEFINE f == [i \in 1 .. n + 1 |-> SearchFinds(hits, value, none, i)]
<1>1. ASSUME NEW i \in 1 .. n + 1
      PROVE  f[i] = SearchStep(f, n, hits, value, none, i)
  <2>1. i <= n => i + 1 \in 1 .. n + 1
    OBVIOUS
  <2> QED
    BY <2>1, SearchUnfolds DEF SearchStep
<1>2. IsSearch(f, n, hits, value, none)
  <2>1. f = [i \in 1 .. n + 1 |-> f[i]]
    OBVIOUS
  <2> HIDE DEF f
  <2> QED
    BY <1>1, <2>1 DEF IsSearch
<1> QED
  BY <1>2

\* Such a function finds the first hit: a counterexample as close to the end as
\* possible would be one a place further on too.
LEMMA SearchResult ==
  ASSUME NEW n \in Nat, NEW hits \in SUBSET (1 .. n), NEW value, NEW none,
         NEW f, IsSearch(f, n, hits, value, none), NEW i \in 1 .. n + 1
  PROVE  f[i] = SearchFinds(hits, value, none, i)
<1> DEFINE wrong == {j \in 1 .. n + 1 : f[j] # SearchFinds(hits, value, none, j)}
           gap == {n + 1 - j : j \in wrong}
<1> SUFFICES ASSUME wrong # {} PROVE FALSE
  OBVIOUS
<1>1. gap \in SUBSET Nat /\ gap # {}
  <2>1. \A j \in wrong : n + 1 - j \in Nat
    OBVIOUS
  <2> HIDE DEF wrong
  <2> QED
    BY <2>1
<1>2. PICK j \in wrong : \A k \in wrong : k <= j
  <2>1. PICK b \in gap : \A c \in gap : b <= c
    <3> HIDE DEF gap
    <3> QED
      BY <1>1, HasLeast
  <2>2. PICK j \in wrong : b = n + 1 - j
    BY <2>1
  <2>3. \A k \in wrong : n + 1 - j <= n + 1 - k
    BY <2>1, <2>2
  <2>4. \A k \in wrong : k \in Nat
    OBVIOUS
  <2> HIDE DEF wrong
  <2> QED
    BY <2>3, <2>4
<1>3. j \in 1 .. n + 1 /\ f[j] # SearchFinds(hits, value, none, j)
  BY <1>2
<1>4. f[j] = SearchStep(f, n, hits, value, none, j)
  BY <1>3 DEF IsSearch
<1>5. j <= n => j + 1 \in 1 .. n + 1 /\ f[j + 1] = SearchFinds(hits, value, none, j + 1)
  <2>1. j <= n => j + 1 \in 1 .. n + 1 /\ j + 1 \notin wrong
    <3> HIDE DEF wrong
    <3> QED
      BY <1>2, <1>3
  <2> QED
    BY <2>1
<1> QED
  BY <1>3, <1>4, <1>5, SearchUnfolds DEF SearchStep

\* One hit is found from any place up to it.
LEMMA OneHit ==
  ASSUME NEW k \in Nat, NEW value, NEW none, NEW i \in Nat, i <= k
  PROVE  SearchFinds({k}, value, none, i) = value[k]
<1>1. Ahead({k}, i) = {k}
  BY DEF Ahead
<1>2. Min({k}) = k
  BY MinIsLeast
<1> QED
  BY <1>1, <1>2 DEF SearchFinds

\* Without a hit there is nothing to find.
LEMMA NoHit ==
  ASSUME NEW value, NEW none, NEW i
  PROVE  SearchFinds({}, value, none, i) = none
BY DEF SearchFinds, Ahead

-----------------------------------------------------------------------------
(* Visitation.                                                             *)

\* The alternatives a variant is tested for and found in.
Found(v) == {i \in 1 .. Size : index[v] = Size - i}

\* A variant is found in the alternative its index counts to, if any, and what
\* get() gives there is the value it holds.
LEMMA FoundAlternative ==
  ASSUME IInv, NEW v \in Variants
  PROVE  /\ index[v] = invalid_type_index => Found(v) = {} /\ Holds(v) = Nothing
         /\ index[v] # invalid_type_index =>
              /\ Size - index[v] \in 1 .. Size
              /\ Found(v) = {Size - index[v]}
              /\ get(v, Size - index[v]) = Holds(v).value
              /\ Holds(v) # Nothing
              /\ Holds(v).value \in Values
              /\ Holds(v) = [type |-> Types[Size - index[v]], value |-> Holds(v).value]
<1>1. Sound(v, index[v], data[v])
  BY InvParts
<1>2. CASE index[v] = invalid_type_index
  <2>1. \A i \in 1 .. Size : index[v] # Size - i
    BY <1>2, InvalidIndex
  <2> QED
    BY <1>2, <2>1 DEF Found, Holds
<1>3. CASE index[v] # invalid_type_index
  <2> DEFINE id == index[v]
             i  == Size - id
  <2>1. id \in 0 .. Size - 1 /\ Size \in Nat
    BY <1>1, <1>3, InvalidIndex DEF Sound, Indices
  <2>2. i \in 1 .. Size /\ id = Size - i
    BY <2>1
  <2>3. Found(v) = {i}
    <3>1. \A j \in 1 .. Size : id = Size - j <=> j = i
      BY <2>1
    <3> QED
      BY <2>2, <3>1 DEF Found
  <2>4. DOMAIN Types = 1 .. Size
    BY VariantAssumption DEF Size
  <2>5. direct_type(Types[i]) = Size - i
    <3>1. {j \in DOMAIN Types : Types[j] = Types[i]} = {i}
      BY <2>2, <2>4, VariantAssumption
    <3>2. Min({i}) = i
      BY <2>2, MinIsLeast
    <3> QED
      BY <3>1, <3>2 DEF direct_type, IndexOf
  <2>6. PICK x \in Values : data[v] = [type |-> Types[i], value |-> x]
    BY <1>1, <1>3 DEF Sound, select_type
  <2>7. Types[i] \in AllTypes
    BY <2>2, <2>4 DEF AllTypes
  <2>8. data[v] \in Object
    BY <2>6, <2>7 DEF Object
  <2>9. data[v] # Nothing
    BY <2>8, VariantAssumption
  <2>10. get(v, i) = x
    BY <2>2, <2>5, <2>6, <2>8 DEF get, is, ValueAt
  <2> QED
    BY <1>3, <2>2, <2>3, <2>6, <2>9, <2>10 DEF Holds
<1> QED
  BY <1>2, <1>3

\* The unary dispatcher searches for the alternative of its variant.
LEMMA VisitResult ==
  ASSUME NEW v
  PROVE  visit(v) = SearchFinds(Found(v), [i \in 1 .. Size |-> <<i, get(v, i)>>], Threw, 1)
<1> DEFINE hits == Found(v)
           value == [i \in 1 .. Size |-> <<i, get(v, i)>>]
           from[i \in 1 .. Size + 1] ==
             IF i > Size THEN Threw
             ELSE IF index[v] = Size - i THEN <<i, get(v, i)>> ELSE from[i + 1]
<1>1. visit(v) = from[1]
  BY DEF visit, dispatcher
<1>2. Size \in Nat /\ 1 \in 1 .. Size + 1 /\ hits \in SUBSET (1 .. Size)
  BY InvalidIndex DEF Found
<1>3. PICK f : IsSearch(f, Size, hits, value, Threw)
  <2> HIDE DEF value, hits
  <2> QED
    BY <1>2, SearchExists
<1>4. f = [i \in 1 .. Size + 1 |->
             IF i > Size THEN Threw
             ELSE IF index[v] = Size - i THEN <<i, get(v, i)>> ELSE f[i + 1]]
  <2>1. ASSUME NEW i \in 1 .. Size + 1
        PROVE  SearchStep(f, Size, hits, value, Threw, i) =
             IF i > Size THEN Threw
             ELSE IF index[v] = Size - i THEN <<i, get(v, i)>> ELSE f[i + 1]
    BY <1>2 DEF SearchStep, Found
  <2>2. f = [i \in 1 .. Size + 1 |-> SearchStep(f, Size, hits, value, Threw, i)]
    BY <1>3 DEF IsSearch
  <2> QED
    BY <2>1, <2>2
<1>5. from = [i \in 1 .. Size + 1 |->
             IF i > Size THEN Threw
             ELSE IF index[v] = Size - i THEN <<i, get(v, i)>> ELSE from[i + 1]]
  BY <1>4
<1> HIDE DEF from
<1>6. IsSearch(from, Size, hits, value, Threw)
  BY <1>2, <1>5 DEF IsSearch, SearchStep, Found
<1> HIDE DEF hits, value
<1>7. from[1] = SearchFinds(hits, value, Threw, 1)
  BY <1>2, <1>6, SearchResult
<1> QED
  BY <1>1, <1>7 DEF hits, value

\* What the search for an operand gives, by the alternative it is found in.
RightValues(v, w, i) == [j \in 1 .. Size |-> <<get(v, i), get(w, j)>>]
LeftValues(v, w, j)  == [i \in 1 .. Size |-> <<get(v, i), get(w, j)>>]

\* The dispatcher of the right operand searches the alternatives after that of the
\* left one, ...
LEMMA RightResult ==
  ASSUME NEW v, NEW w, NEW i \in 1 .. Size
  PROVE  binary_dispatcher_rhs(v, w, i)
           = SearchFinds(Found(w), RightValues(v, w, i), Threw, i + 1)
<1> DEFINE hits == Found(w)
           value == RightValues(v, w, i)
           from[j \in 1 .. Size + 1] ==
             IF j > Size THEN Threw
             ELSE IF index[w] = Size - j THEN <<get(v, i), get(w, j)>> ELSE from[j + 1]
<1>1. binary_dispatcher_rhs(v, w, i) = from[i + 1]
  BY DEF binary_dispatcher_rhs
<1>2. Size \in Nat /\ i + 1 \in 1 .. Size + 1 /\ hits \in SUBSET (1 .. Size)
  BY InvalidIndex DEF Found
<1>3. PICK f : IsSearch(f, Size, hits, value, Threw)
  <2> HIDE DEF value, hits
  <2> QED
    BY <1>2, SearchExists
<1>4. f = [j \in 1 .. Size + 1 |->
             IF j > Size THEN Threw
             ELSE IF index[w] = Size - j THEN <<get(v, i), get(w, j)>> ELSE f[j + 1]]
  <2>1. ASSUME NEW j \in 1 .. Size + 1
        PROVE  SearchStep(f, Size, hits, value, Threw, j) =
             IF j > Size THEN Threw
             ELSE IF index[w] = Size - j THEN <<get(v, i), get(w, j)>> ELSE f[j + 1]
    BY <1>2 DEF SearchStep, Found, RightValues
  <2>2. f = [j \in 1 .. Size + 1 |-> SearchStep(f, Size, hits, value, Threw, j)]
    BY <1>3 DEF IsSearch
  <2> QED
    BY <2>1, <2>2
<1>5. from = [j \in 1 .. Size + 1 |->
             IF j > Size THEN Threw
             ELSE IF index[w] = Size - j THEN <<get(v, i), get(w, j)>> ELSE from[j + 1]]
  BY <1>4
<1> HIDE DEF from
<1>6. IsSearch(from, Size, hits, value, Threw)
  BY <1>2, <1>5 DEF IsSearch, SearchStep, Found, RightValues
<1> HIDE DEF hits, value
<1>7. from[i + 1] = SearchFinds(hits, value, Threw, i + 1)
  BY <1>2, <1>6, SearchResult
<1> QED
  BY <1>1, <1>7 DEF hits, value

\* ... and that of the left operand those after that of the right one.
LEMMA LeftResult ==
  ASSUME NEW v, NEW w, NEW j \in 1 .. Size
  PROVE  binary_dispatcher_lhs(v, w, j)
           = SearchFinds(Found(v), LeftValues(v, w, j), Threw, j + 1)
<1> DEFINE hits == Found(v)
           value == LeftValues(v, w, j)
           from[i \in 1 .. Size + 1] ==
             IF i > Size THEN Threw
             ELSE IF index[v] = Size - i THEN <<get(v, i), get(w, j)>> ELSE from[i + 1]
<1>1. binary_dispatcher_lhs(v, w, j) = from[j + 1]
  BY DEF binary_dispatcher_lhs
<1>2. Size \in Nat /\ j + 1 \in 1 .. Size + 1 /\ hits \in SUBSET (1 .. Size)
  BY InvalidIndex DEF Found
<1>3. PICK f : IsSearch(f, Size, hits, value, Threw)
  <2> HIDE DEF value, hits
  <2> QED
    BY <1>2, SearchExists
<1>4. f = [i \in 1 .. Size + 1 |->
             IF i > Size THEN Threw
             ELSE IF index[v] = Size - i THEN <<get(v, i), get(w, j)>> ELSE f[i + 1]]
  <2>1. ASSUME NEW i \in 1 .. Size + 1
        PROVE  SearchStep(f, Size, hits, value, Threw, i) =
             IF i > Size THEN Threw
             ELSE IF index[v] = Size - i THEN <<get(v, i), get(w, j)>> ELSE f[i + 1]
    BY <1>2 DEF SearchStep, Found, LeftValues
  <2>2. f = [i \in 1 .. Size + 1 |-> SearchStep(f, Size, hits, value, Threw, i)]
    BY <1>3 DEF IsSearch
  <2> QED
    BY <2>1, <2>2
<1>5. from = [i \in 1 .. Size + 1 |->
             IF i > Size THEN Threw
             ELSE IF index[v] = Size - i THEN <<get(v, i), get(w, j)>> ELSE from[i + 1]]
  BY <1>4
<1> HIDE DEF from
<1>6. IsSearch(from, Size, hits, value, Threw)
  BY <1>2, <1>5 DEF IsSearch, SearchStep, Found, LeftValues
<1> HIDE DEF hits, value
<1>7. from[j + 1] = SearchFinds(hits, value, Threw, j + 1)
  BY <1>2, <1>6, SearchResult
<1> QED
  BY <1>1, <1>7 DEF hits, value

\* What the binary dispatcher does for the first alternative that is one of the
\* operands'.
FirstFound(v, w) ==
  [i \in 1 .. Size |->
     IF index[v] = Size - i
     THEN IF index[v] = index[w] THEN <<get(v, i), get(w, i)>>
                                 ELSE binary_dispatcher_rhs(v, w, i)
     ELSE binary_dispatcher_lhs(v, w, i)]

\* The binary dispatcher searches for the first alternative of either operand.
LEMMA BinaryResult ==
  ASSUME NEW v, NEW w
  PROVE  binary_visit(v, w) = SearchFinds(Found(v) \cup Found(w), FirstFound(v, w), Threw, 1)
<1> DEFINE hits == Found(v) \cup Found(w)
           value == FirstFound(v, w)
           from[i \in 1 .. Size + 1] ==
             IF i > Size THEN Threw
             ELSE IF index[v] = Size - i
                  THEN IF index[v] = index[w] THEN <<get(v, i), get(w, i)>>
                                              ELSE binary_dispatcher_rhs(v, w, i)
             ELSE IF index[w] = Size - i THEN binary_dispatcher_lhs(v, w, i)
             ELSE from[i + 1]
<1>1. binary_visit(v, w) = from[1]
  BY DEF binary_visit, binary_dispatcher
<1>2. Size \in Nat /\ 1 \in 1 .. Size + 1 /\ hits \in SUBSET (1 .. Size)
  BY InvalidIndex DEF Found
<1>3. PICK f : IsSearch(f, Size, hits, value, Threw)
  <2> HIDE DEF value, hits
  <2> QED
    BY <1>2, SearchExists
<1>4. f = [i \in 1 .. Size + 1 |->
             IF i > Size THEN Threw
             ELSE IF index[v] = Size - i
                  THEN IF index[v] = index[w] THEN <<get(v, i), get(w, i)>>
                                              ELSE binary_dispatcher_rhs(v, w, i)
             ELSE IF index[w] = Size - i THEN binary_dispatcher_lhs(v, w, i)
             ELSE f[i + 1]]
  <2>1. ASSUME NEW i \in 1 .. Size + 1
        PROVE  SearchStep(f, Size, hits, value, Threw, i) =
             IF i > Size THEN Threw
             ELSE IF index[v] = Size - i
                  THEN IF index[v] = index[w] THEN <<get(v, i), get(w, i)>>
                                              ELSE binary_dispatcher_rhs(v, w, i)
             ELSE IF index[w] = Size - i THEN binary_dispatcher_lhs(v, w, i)
             ELSE f[i + 1]
    BY <1>2 DEF SearchStep, Found, FirstFound
  <2>2. f = [i \in 1 .. Size + 1 |-> SearchStep(f, Size, hits, value, Threw, i)]
    BY <1>3 DEF IsSearch
  <2> QED
    BY <2>1, <2>2
<1>5. from = [i \in 1 .. Size + 1 |->
             IF i > Size THEN Threw
             ELSE IF index[v] = Size - i
                  THEN IF index[v] = index[w] THEN <<get(v, i), get(w, i)>>
                                              ELSE binary_dispatcher_rhs(v, w, i)
             ELSE IF index[w] = Size - i THEN binary_dispatcher_lhs(v, w, i)
             ELSE from[i + 1]]
  BY <1>4
<1> HIDE DEF from
<1>6. IsSearch(from, Size, hits, value, Threw)
  BY <1>2, <1>5 DEF IsSearch, SearchStep, Found, FirstFound
<1> HIDE DEF hits, value
<1>7. from[1] = SearchFinds(hits, value, Threw, 1)
  BY <1>2, <1>6, SearchResult
<1> QED
  BY <1>1, <1>7 DEF hits, value

\* Of two hits the first is found.
LEMMA TwoHits ==
  ASSUME NEW n \in Nat, NEW k \in 1 .. n, NEW l \in 1 .. n, k <= l, NEW value, NEW none
  PROVE  SearchFinds({k} \cup {l}, value, none, 1) = value[k]
<1>1. Ahead({k} \cup {l}, 1) = {k, l}
  BY DEF Ahead
<1>2. Min({k, l}) = k
  <2>1. {k, l} \in SUBSET Nat
    OBVIOUS
  <2>2. Min({k, l}) \in {k, l} /\ Min({k, l}) <= k
    BY <2>1, MinIsLeast
  <2> QED
    BY <2>2
<1> QED
  BY <1>1, <1>2 DEF SearchFinds

\* Whichever operand is found first, the visitor gets both, in their order.
LEMMA VisitsOperands ==
  ASSUME IInv, NEW v \in Variants, NEW w \in Variants
  PROVE  binary_visit(v, w) =
           IF Nothing \in {Holds(v), Holds(w)} THEN Threw ELSE <<Holds(v).value, Holds(w).value>>
<1>0. Size \in Nat
  BY InvalidIndex
<1> DEFINE k == Size - index[v]
           l == Size - index[w]
<1>1. CASE index[v] = invalid_type_index /\ index[w] = invalid_type_index
  <2>1. Found(v) \cup Found(w) = {} /\ Holds(v) = Nothing
    BY <1>1, FoundAlternative
  <2> QED
    BY <2>1, BinaryResult, NoHit
<1>2. CASE index[v] # invalid_type_index /\ index[w] = invalid_type_index
  <2>1. k \in 1 .. Size /\ Found(v) = {k} /\ Found(w) = {} /\ Holds(w) = Nothing
    BY <1>2, FoundAlternative
  <2>2. binary_visit(v, w) = SearchFinds({k}, FirstFound(v, w), Threw, 1)
    BY <2>1, BinaryResult
  <2>3. binary_visit(v, w) = FirstFound(v, w)[k]
    <3> DEFINE found == FirstFound(v, w)
    <3>1. k \in Nat /\ 1 \in Nat /\ 1 <= k
      BY <1>0, <2>1
    <3> HIDE DEF k, found
    <3>2. SearchFinds({k}, found, Threw, 1) = found[k]
      BY ONLY <3>1, OneHit
    <3> QED
      BY ONLY <2>2, <3>2 DEF found
  <2>4. FirstFound(v, w)[k] = binary_dispatcher_rhs(v, w, k)
    BY <1>2, <2>1 DEF FirstFound, Found
  <2>5. binary_dispatcher_rhs(v, w, k) = Threw
    <3> DEFINE value == RightValues(v, w, k)
               i     == k + 1
    <3>1. binary_dispatcher_rhs(v, w, k) = SearchFinds({}, value, Threw, i)
      BY <2>1, RightResult
    <3> HIDE DEF value, i
    <3> QED
      BY <3>1, NoHit
  <2> QED
    BY <2>1, <2>3, <2>4, <2>5
<1>3. CASE index[v] = invalid_type_index /\ index[w] # invalid_type_index
  <2>1. l \in 1 .. Size /\ Found(v) = {} /\ Found(w) = {l} /\ Holds(v) = Nothing
    BY <1>3, FoundAlternative
  <2>2. binary_visit(v, w) = SearchFinds({l}, FirstFound(v, w), Threw, 1)
    BY <2>1, BinaryResult
  <2>3. binary_visit(v, w) = FirstFound(v, w)[l]
    <3> HIDE DEF l
    <3> QED
      BY <1>0, <2>1, <2>2, OneHit
  <2>4. FirstFound(v, w)[l] = binary_dispatcher_lhs(v, w, l)
    BY <1>3, <2>1 DEF FirstFound, Found
  <2>5. binary_dispatcher_lhs(v, w, l) = Threw
    <3> DEFINE value == LeftValues(v, w, l)
               i     == l + 1
    <3>1. binary_dispatcher_lhs(v, w, l) = SearchFinds({}, value, Threw, i)
      BY <2>1, LeftResult
    <3> HIDE DEF value, i
    <3> QED
      BY <3>1, NoHit
  <2> QED
    BY <2>1, <2>3, <2>4, <2>5
<1>4. CASE index[v] # invalid_type_index /\ index[w] # invalid_type_index
  <2>1. /\ k \in 1 .. Size /\ Found(v) = {k} /\ get(v, k) = Holds(v).value /\ Holds(v) # Nothing
        /\ l \in 1 .. Size /\ Found(w) = {l} /\ get(w, l) = Holds(w).value /\ Holds(w) # Nothing
        /\ index[v] \in Nat /\ index[w] \in Nat
    BY <1>0, <1>4, FoundAlternative, InvParts, InvalidIndex DEF Sound, Indices
  <2>2. k = l <=> index[v] = index[w]
    BY <1>0, <2>1
  <2>3. index[v] = Size - k /\ index[w] = Size - l
    BY <1>0, <2>1
  <2>4. binary_visit(v, w) = SearchFinds({k} \cup {l}, FirstFound(v, w), Threw, 1)
    BY <2>1, BinaryResult
  <2>5. binary_visit(v, w) = <<get(v, k), get(w, l)>>
    <3>1. CASE k = l
      <4>1. binary_visit(v, w) = FirstFound(v, w)[k]
        <5> HIDE DEF k, l
        <5> QED
          BY <1>0, <2>1, <2>4, <3>1, TwoHits
      <4> QED
        BY <2>1, <2>2, <2>3, <3>1, <4>1 DEF FirstFound
    <3>2. CASE k < l
      <4>1. binary_visit(v, w) = FirstFound(v, w)[k]
        <5> HIDE DEF k, l
        <5> QED
          BY <1>0, <2>1, <2>4, <3>2, TwoHits
      <4>2. binary_visit(v, w) = binary_dispatcher_rhs(v, w, k)
        <5> HIDE DEF k, l
        <5> QED
          BY <2>1, <2>2, <2>3, <3>2, <4>1 DEF FirstFound
      <4> DEFINE value == RightValues(v, w, k)
      <4>3. binary_visit(v, w) = SearchFinds({l}, value, Threw, k + 1)
        BY <2>1, <4>2, RightResult
      <4>4. k + 1 \in 1 .. Size + 1 /\ k + 1 <= l
        BY <1>0, <2>1, <3>2
      <4>5. binary_visit(v, w) = value[l]
        <5> DEFINE i == k + 1
        <5>1. i \in 1 .. Size + 1 /\ i <= l /\ binary_visit(v, w) = SearchFinds({l}, value, Threw, i)
          BY <4>3, <4>4
        <5>2. SearchFinds({l}, value, Threw, i) = value[l]
          <6>1. l \in Nat /\ i \in Nat /\ i <= l
            BY <2>1, <5>1
          <6> HIDE DEF k, l, value, i
          <6> QED
            BY ONLY <6>1, OneHit
        <5> QED
          BY <5>1, <5>2
      <4> HIDE DEF k, l
      <4> QED
        BY <2>1, <4>5 DEF RightValues
    <3>3. CASE l < k
      <4>1. binary_visit(v, w) = FirstFound(v, w)[l]
        <5>1. {k} \cup {l} = {l} \cup {k}
          OBVIOUS
        <5> HIDE DEF k, l
        <5> QED
          BY <1>0, <2>1, <2>4, <3>3, <5>1, TwoHits
      <4>2. binary_visit(v, w) = binary_dispatcher_lhs(v, w, l)
        <5> HIDE DEF k, l
        <5> QED
          BY <2>1, <2>2, <2>3, <3>3, <4>1 DEF FirstFound
      <4> DEFINE value == LeftValues(v, w, l)
      <4>3. binary_visit(v, w) = SearchFinds({k}, value, Threw, l + 1)
        BY <2>1, <4>2, LeftResult
      <4>4. l + 1 \in 1 .. Size + 1 /\ l + 1 <= k
        BY <1>0, <2>1, <3>3
      <4>5. binary_visit(v, w) = value[k]
        <5> DEFINE i == l + 1
        <5>1. i \in 1 .. Size + 1 /\ i <= k /\ binary_visit(v, w) = SearchFinds({k}, value, Threw, i)
          BY <4>3, <4>4
        <5>2. SearchFinds({k}, value, Threw, i) = value[k]
          <6>1. k \in Nat /\ i \in Nat /\ i <= k
            BY <2>1, <5>1
          <6> HIDE DEF k, l, value, i
          <6> QED
            BY ONLY <6>1, OneHit
        <5> QED
          BY <5>1, <5>2
      <4> HIDE DEF k, l
      <4> QED
        BY <2>1, <4>5 DEF LeftValues
    <3> QED
      BY <2>1, <3>1, <3>2, <3>3
  <2> QED
    BY <2>1, <2>5
<1> QED
  BY <1>1, <1>2, <1>3, <1>4

\* Visiting two variants hands the visitor both values, left operand first, for
\* every pair of alternatives of any list, and throws if one of them is empty.
THEOREM Visitation == Spec => []VisitsGetTheOperands
<1>1. IInv => VisitsGetTheOperands
  BY VisitsOperands DEF IInv, VisitsGetTheOperands
<1> QED
  BY InitIInv, Step, <1>1, PTL DEF Spec

-----------------------------------------------------------------------------
(* Comparison.                                                             *)

\* The two remainders that which() takes.
LEMMA Remainder ==
  ASSUME NEW n \in Nat, NEW m \in 0 .. n - 1
  PROVE  m % n = m /\ (m - n) % n = m
BY SMTT(30)

\* which() counts the alternatives from the first, and the empty variant is after
\* the last: the subtraction wraps around to that.
LEMMA WhichIsPosition ==
  /\ which(invalid_type_index) = Size
  /\ \A id \in 0 .. Size - 1 : which(id) = Size - id - 1
<1>1. Size \in Nat /\ WordSize \in Nat /\ Size <= WordSize - 2
  BY VariantAssumption
<1>2. which(invalid_type_index) = Size
  <2>1. Size - invalid_type_index - 1 = Size - WordSize /\ Size \in 0 .. WordSize - 1
    BY <1>1 DEF invalid_type_index
  <2> QED
    BY <1>1, <2>1, Remainder DEF which
<1>3. ASSUME NEW id \in 0 .. Size - 1
      PROVE  which(id) = Size - id - 1
  <2> DEFINE m == Size - id - 1
  <2>1. m \in 0 .. WordSize - 1
    BY <1>1
  <2>2. m % WordSize = m
    <3> HIDE DEF m
    <3> QED
      BY <1>1, <2>1, Remainder
  <2> QED
    BY <2>2 DEF which
<1> QED
  BY <1>2, <1>3

\* The comparer gets the values of two variants with the same index, or throws if
\* they are empty.
LEMMA ComparedResult ==
  ASSUME IInv, NEW v \in Variants, NEW w \in Variants, index[v] = index[w]
  PROVE  IF Holds(w) = Nothing THEN Compared(v, w) = Threw
         ELSE Compared(v, w) = <<Holds(v).value, Holds(w).value>> /\ Compared(v, w) # Threw
<1> DEFINE l == Size - index[w]
           value == [i \in 1 .. Size |-> <<i, get(w, i)>>]
<1>0. Size \in Nat /\ 1 \in 1 .. Size + 1
  BY InvalidIndex
<1>1. CASE index[w] = invalid_type_index
  <2>1. Found(w) = {} /\ Holds(w) = Nothing
    BY <1>1, FoundAlternative
  <2>2. visit(w) = Threw
    BY <2>1, VisitResult, NoHit
  <2> QED
    BY <2>1, <2>2 DEF Compared
<1>2. CASE index[w] # invalid_type_index
  <2>1. /\ l \in 1 .. Size /\ Found(w) = {l} /\ get(w, l) = Holds(w).value /\ Holds(w) # Nothing
        /\ get(v, l) = Holds(v).value /\ Holds(w).value \in Values /\ Holds(v).value \in Values
    BY <1>2, FoundAlternative
  <2>2. visit(w) = SearchFinds({l}, value, Threw, 1)
    BY <2>1, VisitResult
  <2>3. visit(w) = value[l]
    <3> HIDE DEF l, value
    <3> QED
      <4>1. l \in Nat /\ 1 \in Nat /\ 1 <= l
        BY <1>0, <2>1
      <4>2. SearchFinds({l}, value, Threw, 1) = value[l]
        BY ONLY <4>1, OneHit
      <4> QED
        BY ONLY <2>2, <4>2
  <2>4. visit(w) = <<l, Holds(w).value>>
    <3> HIDE DEF l
    <3> QED
      BY <2>1, <2>3
  <2>5. visit(w) # Threw
    BY <2>1, <2>4, ComparisonAssumption
  <2>6. Compared(v, w) = <<Holds(v).value, Holds(w).value>>
    <3> HIDE DEF l
    <3> QED
      BY <2>1, <2>4, <2>5 DEF Compared
  <2>7. Compared(v, w) \in Values \X Values
    BY <2>1, <2>6
  <2> QED
    BY <2>1, <2>6, <2>7, ComparisonAssumption
<1> QED
  BY <1>1, <1>2

\* Two variants have the same index, and the same place in the order of the
\* alternatives, exactly when they are both empty or hold the same type.
LEMMA SameKind ==
  ASSUME IInv, NEW v \in Variants, NEW w \in Variants
  PROVE  /\ which(index[v]) \in Nat
         /\ which(index[v]) = which(index[w]) <=> index[v] = index[w]
         /\ Holds(v) = Nothing <=> index[v] = invalid_type_index
         /\ Holds(v) # Nothing => Holds(v).value \in Int
         /\ index[v] = index[w] /\ Holds(v) # Nothing =>
              (Holds(v) = Holds(w) <=> Holds(v).value = Holds(w).value)
         /\ index[v] # index[w] => Holds(v) # Holds(w)
<1>1. index[v] \in Indices /\ index[w] \in Indices /\ Size \in Nat
  BY InvParts, InvalidIndex DEF Sound
<1>2. /\ which(index[v]) \in Nat
      /\ which(index[v]) = which(index[w]) <=> index[v] = index[w]
  BY <1>1, WhichIsPosition, InvalidIndex DEF Indices
<1>3. /\ Holds(v) = Nothing <=> index[v] = invalid_type_index
      /\ Holds(w) = Nothing <=> index[w] = invalid_type_index
  BY FoundAlternative
<1>4. Holds(v) # Nothing => Holds(v).value \in Int
  BY <1>3, FoundAlternative, ComparisonAssumption
<1>5. index[v] = index[w] /\ Holds(v) # Nothing =>
        (Holds(v) = Holds(w) <=> Holds(v).value = Holds(w).value)
  BY <1>3, FoundAlternative
<1>6. index[v] # index[w] => Holds(v) # Holds(w)
  <2> SUFFICES ASSUME index[v] # index[w], Holds(v) = Holds(w) PROVE FALSE
    OBVIOUS
  <2>1. index[v] # invalid_type_index /\ index[w] # invalid_type_index
    BY <1>3
  <2> DEFINE k == Size - index[v]
             l == Size - index[w]
  <2>2. /\ k \in 1 .. Size /\ Holds(v) = [type |-> Types[k], value |-> Holds(v).value]
        /\ l \in 1 .. Size /\ Holds(w) = [type |-> Types[l], value |-> Holds(w).value]
    BY <2>1, FoundAlternative
  <2>3. Types[k] = Types[l]
    <3> HIDE DEF k, l
    <3> QED
      BY <2>2
  <2>4. DOMAIN Types = 1 .. Size
    BY VariantAssumption DEF Size
  <2>5. k = l
    <3> HIDE DEF k, l
    <3> QED
      BY <2>2, <2>3, <2>4, VariantAssumption
  <2> QED
    BY <1>1, <2>1, <2>5 DEF Indices
<1> QED
  BY <1>2, <1>3, <1>4, <1>5, <1>6

\* What the comparison operators return for two variants.
LEMMA OrderedPair ==
  ASSUME IInv, NEW v \in Variants, NEW w \in Variants
  PROVE  IF Holds(v) = Nothing /\ Holds(w) = Nothing
         THEN Equal(v, w) = Threw /\ Less(v, w) = Threw
         ELSE /\ Equal(v, w) \in BOOLEAN /\ Less(v, w) \in BOOLEAN
              /\ Equal(v, w) <=> Holds(v) = Holds(w)
              /\ ~(Less(v, w) /\ Less(w, v))
              /\ Equal(v, w) \/ Less(v, w) \/ Less(w, v)
<1>1. CASE index[v] # index[w]
  <2> DEFINE a == which(index[v])
             b == which(index[w])
  <2>1. Equal(v, w) = FALSE /\ ~(Holds(v) = Nothing /\ Holds(w) = Nothing)
        /\ Holds(v) # Holds(w)
    BY <1>1, SameKind DEF Equal
  <2>2. a \in Nat /\ b \in Nat /\ a # b
    BY <1>1, SameKind
  <2>3. Less(v, w) = (a < b) /\ Less(w, v) = (b < a)
    BY <1>1, <2>2 DEF Less
  <2>4. (a < b) \in BOOLEAN /\ ~(a < b /\ b < a) /\ (a < b \/ b < a)
    <3> HIDE DEF a, b
    <3> QED
      BY <2>2
  <2> HIDE DEF a, b
  <2> QED
    BY <2>1, <2>3, <2>4, Zenon
<1>2. CASE index[v] = index[w] /\ Holds(v) = Nothing
  <2>1. Holds(w) = Nothing /\ Compared(v, w) = Threw
    BY <1>2, SameKind, ComparedResult
  <2> QED
    BY <1>2, <2>1 DEF Equal, Less, equal_to, less_than
<1>3. CASE index[v] = index[w] /\ Holds(v) # Nothing
  <2> DEFINE x == Holds(v).value
             y == Holds(w).value
  <2>1. Holds(w) # Nothing
    BY <1>3, SameKind
  <2>2. /\ Compared(v, w) = <<x, y>> /\ Compared(v, w) # Threw
        /\ Compared(w, v) = <<y, x>> /\ Compared(w, v) # Threw
    BY <1>3, <2>1, ComparedResult
  <2>3. Equal(v, w) = (x = y) /\ Less(v, w) = (x < y) /\ Less(w, v) = (y < x)
    <3> HIDE DEF x, y
    <3> QED
      BY <1>3, <2>2 DEF Equal, Less, equal_to, less_than
  <2>4. x \in Int /\ y \in Int /\ (Holds(v) = Holds(w) <=> x = y)
    BY <1>3, <2>1, SameKind
  <2> HIDE DEF x, y
  <2>5. (x < y) \in BOOLEAN /\ ~(x < y /\ y < x) /\ (x = y \/ x < y \/ y < x)
    BY <2>4
  <2> QED
    BY <1>3, <2>3, <2>4, <2>5, Zenon
<1> QED
  BY <1>1, <1>2, <1>3

\* The order is that of the alternatives, then that of the values.
LEMMA PrecedesIs ==
  ASSUME IInv, NEW v \in Variants, NEW w \in Variants
  PROVE  Precedes(v, w) <=>
           \/ which(index[v]) < which(index[w])
           \/ /\ which(index[v]) = which(index[w])
              /\ Holds(v) # Nothing /\ Holds(v).value < Holds(w).value
<1> DEFINE a == which(index[v])
           b == which(index[w])
<1>1. CASE index[v] # index[w]
  <2>1. Less(v, w) = (a < b) /\ a # b
    BY <1>1, SameKind DEF Less
  <2> HIDE DEF a, b
  <2>2. Precedes(v, w) <=> a < b
    BY <2>1, Zenon DEF Precedes
  <2> QED
    BY <2>1, <2>2 DEF a, b
<1>2. CASE index[v] = index[w]
  <2>1. a = b /\ a \in Nat /\ (Holds(v) = Nothing <=> Holds(w) = Nothing)
    BY <1>2, SameKind
  <2>2. ~(a < b)
    BY <2>1
  <2>3. CASE Holds(v) = Nothing
    <3>1. Less(v, w) = Threw
      BY <2>1, <2>3, OrderedPair
    <3>2. ~Precedes(v, w)
      BY <3>1, ComparisonAssumption, Zenon DEF Precedes
    <3> QED
      BY <2>2, <2>3, <3>2
  <2>4. CASE Holds(v) # Nothing
    <3> DEFINE x == Holds(v).value
               y == Holds(w).value
    <3>1. Compared(v, w) = <<x, y>> /\ Compared(v, w) # Threw
      BY <1>2, <2>1, <2>4, ComparedResult
    <3>2. Less(v, w) = (x < y)
      <4> HIDE DEF x, y
      <4> QED
        BY <2>1, <3>1 DEF Less, less_than
    <3> HIDE DEF x, y, a, b
    <3>3. Precedes(v, w) <=> x < y
      BY <3>2, Zenon DEF Precedes
    <3>4. Precedes(v, w) <=> a < b \/ (a = b /\ Holds(v) # Nothing /\ x < y)
      BY <2>1, <2>2, <2>4, <3>3, Zenon
    <3> QED
      BY <3>4 DEF x, y, a, b
  <2> QED
    BY <2>3, <2>4
<1> QED
  BY <1>1, <1>2

\* That order is transitive, across alternatives too.
LEMMA PrecedesIsTransitive ==
  ASSUME IInv, NEW u \in Variants, NEW v \in Variants, NEW w \in Variants,
         Precedes(u, v), Precedes(v, w)
  PROVE  Precedes(u, w)
<1> DEFINE a == which(index[u])
           b == which(index[v])
           c == which(index[w])
<1>1. a \in Nat /\ b \in Nat /\ c \in Nat
  BY SameKind
<1>2. /\ a < b \/ (a = b /\ Holds(u) # Nothing /\ Holds(u).value < Holds(v).value)
      /\ b < c \/ (b = c /\ Holds(v) # Nothing /\ Holds(v).value < Holds(w).value)
  BY PrecedesIs
<1>3. a = b /\ b = c /\ Holds(v) # Nothing => Holds(w) # Nothing
  BY SameKind
<1>4. /\ Holds(u) # Nothing => Holds(u).value \in Int
      /\ Holds(v) # Nothing => Holds(v).value \in Int
      /\ Holds(w) # Nothing => Holds(w).value \in Int
  BY SameKind
<1>5. a < c \/ (a = c /\ Holds(u) # Nothing /\ Holds(u).value < Holds(w).value)
  <2> HIDE DEF a, b, c
  <2> QED
    BY <1>1, <1>2, <1>3, <1>4
<1> QED
  BY <1>5, PrecedesIs

\* After any sequence of operations the comparison operators of variant.h order
\* the variants totally, except that two empty ones cannot be compared.
THEOREM TotalOrder == Spec => []OrderIsTotal
<1>1. IInv => OrderIsTotal
  <2> SUFFICES ASSUME IInv PROVE OrderIsTotal
    OBVIOUS
  <2>1. live \subseteq Variants
    BY DEF IInv
  <2> QED
    BY <2>1, OrderedPair, PrecedesIsTransitive DEF OrderIsTotal
<1> QED
  BY InitIInv, Step, <1>1, PTL DEF Spec

=============================================================================
