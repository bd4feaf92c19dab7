----------------------- MODULE DocumentExchangeProofs -----------------------
(***************************************************************************)
(* Theorems about the representations of a passport, for all documents the *)
(* JSON Schema admits, any number of operators, versions and entries, and  *)
(* whatever the binary sums round to.                                      *)
(***************************************************************************)
EXTENDS DocumentExchange, WellFoundedInduction, SequenceTheorems, TLAPS

-----------------------------------------------------------------------------
(* Sequences. *)

LEMMA LeastExists ==
  ASSUME NEW T \in SUBSET Nat, T # {}
  PROVE  \E n \in T : \A m \in T : n <= m
<1>1. PICK n \in T : \A m \in T : ~(<<m, n>> \in OpToRel(<, Nat))
  BY WFMin, NatLessThanWellFounded
<1>2. \A m \in T : ~(m < n)
  BY <1>1 DEF OpToRel
<1> QED
  BY <1>2

LEMMA ListFacts ==
  ASSUME NEW s, IsList(s)
  PROVE  /\ Len(s) \in Nat /\ DOMAIN s = 1..Len(s)
         /\ s \in Seq(Items(s))
<1>1. Len(s) \in Nat /\ s = [i \in 1..Len(s) |-> s[i]]
  BY DEF IsList
<1>2. DOMAIN s = 1..Len(s)
  BY <1>1
<1>3. s \in [1..Len(s) -> Items(s)]
  BY <1>1, <1>2 DEF Items
<1> QED
  BY <1>1, <1>2, <1>3, SeqDef

(* A function on 1..n is a list. *)
LEMMA IsListOfLength ==
  ASSUME NEW n \in Nat, NEW s, s = [i \in 1..n |-> s[i]]
  PROVE  IsList(s) /\ Len(s) = n
<1>1. s \in [1..n -> Items(s)]
  BY DEF Items
<1>2. s \in Seq(Items(s))
  BY <1>1, SeqDef
<1>3. Len(s) = n
  BY <1>1, <1>2, LenProperties
<1> QED
  BY <1>3 DEF IsList

LEMMA AppendedList ==
  ASSUME NEW s, IsList(s), NEW x
  PROVE  /\ IsList(Append(s, x)) /\ Len(Append(s, x)) = Len(s) + 1
         /\ DOMAIN Append(s, x) = 1..(Len(s) + 1)
         /\ \A i \in DOMAIN s : Append(s, x)[i] = s[i]
         /\ Append(s, x)[Len(s) + 1] = x
<1> DEFINE S == Items(s) \cup {x}
           t == Append(s, x)
<1>1. s \in Seq(S) /\ x \in S /\ DOMAIN s = 1..Len(s) /\ Len(s) \in Nat
  BY ListFacts, SeqMonotonic
<1> HIDE DEF S
<1>2. /\ t \in Seq(S) /\ Len(t) = Len(s) + 1
      /\ \A i \in 1..Len(s) : t[i] = s[i]
      /\ t[Len(s) + 1] = x
  BY <1>1
<1> HIDE DEF t
<1>3. t \in [1..(Len(s) + 1) -> S]
  BY <1>1, <1>2, LenProperties
<1>4. IsList(t) /\ DOMAIN t = 1..(Len(s) + 1)
  BY <1>1, <1>2, <1>3 DEF IsList
<1> QED
  BY <1>1, <1>2, <1>4 DEF t

-----------------------------------------------------------------------------
(* Objects. *)

(* The places of what the service keeps end somewhere. *)
Bounded(members) == \E n \in Nat : DOMAIN members \subseteq 1..n
Stored(name, members) == Bounded(members) /\ IsObject(name, members)

LEMMA InputIsStored ==
  ASSUME NEW name, NEW members, IsInput(name, members)
  PROVE  Stored(name, members)
  BY ListFacts DEF IsInput, Stored, Bounded

LEMMA LastIsGreatest ==
  ASSUME NEW members, Bounded(members)
  PROVE  Last(members) \in Nat /\ DOMAIN members \subseteq 1..Last(members)
<1> DEFINE T == {n \in Nat : DOMAIN members \subseteq 1..n}
<1>1. PICK n \in T : \A m \in T : n <= m
  <2>1. T \in SUBSET Nat /\ T # {}
    BY DEF Bounded
  <2> HIDE DEF T
  <2> QED
    BY <2>1, LeastExists
<1>2. CASE DOMAIN members = {}
  BY <1>2 DEF Last
<1>3. CASE DOMAIN members # {}
  <2>1. n \in DOMAIN members
    <3>1. SUFFICES ASSUME n \notin DOMAIN members PROVE FALSE
      OBVIOUS
    <3>2. n # 0
      BY <1>1, <1>3
    <3>3. n - 1 \in T
      BY <1>1, <3>1, <3>2
    <3> QED
      BY <1>1, <3>3
  <2>2. \A q \in DOMAIN members : q <= n
    BY <1>1
  <2>3. \E p \in DOMAIN members : \A q \in DOMAIN members : q <= p
    BY <2>1, <2>2
  <2>4. Last(members) \in DOMAIN members /\ \A q \in DOMAIN members : q <= Last(members)
    BY <1>3, <2>3 DEF Last
  <2> QED
    BY <1>1, <2>4
<1> QED
  BY <1>2, <1>3

(* A member is found by its key. *)
LEMMA ValueAt ==
  ASSUME NEW name, NEW members, InSchema(name, members), NEW p \in DOMAIN members
  PROVE  members[p][1] \in Keys(members) /\ Value(members, members[p][1]) = members[p][2]
<1>1. \A q \in DOMAIN members : members[q][1] = members[p][1] => q = p
  BY DEF InSchema
<1> QED
  BY <1>1 DEF Value, Keys

LEMMA KeyHasPlace ==
  ASSUME NEW members, NEW key \in Keys(members)
  PROVE  \E p \in DOMAIN members : members[p][1] = key /\ Value(members, key) = members[p][2]
  BY DEF Keys, Value

(* Where a merge puts things. *)
LEMMA MergePlaces ==
  ASSUME NEW members, NEW patch, Bounded(members), Bounded(patch)
  PROVE  /\ Last(members) \in Nat /\ DOMAIN members \subseteq 1..Last(members)
         /\ DOMAIN members \subseteq DOMAIN Merge(members, patch)
         /\ \A p \in DOMAIN members :
              Merge(members, patch)[p] = <<members[p][1], Or(patch, members[p][1], members[p][2])>>
         /\ \A p \in DOMAIN Merge(members, patch) \ DOMAIN members :
              /\ p > Last(members)
              /\ \E r \in DOMAIN patch :
                   /\ r \in Nat /\ p = Last(members) + r /\ Merge(members, patch)[p] = patch[r]
                   /\ patch[r][1] \notin Keys(members)
         /\ Bounded(Merge(members, patch))
<1> DEFINE last == Last(members)
           fresh == {q \in DOMAIN patch : patch[q][1] \notin Keys(members)}
           new == {last + q : q \in fresh}
           merged == Merge(members, patch)
<1>1. /\ last \in Nat /\ DOMAIN members \subseteq 1..last
      /\ \E n \in Nat : DOMAIN patch \subseteq 1..n
  BY LastIsGreatest DEF Bounded
<1>2. \A p \in new : p \notin DOMAIN members /\ p - last \in fresh /\ p = last + (p - last)
  BY <1>1
<1>3. DOMAIN merged = DOMAIN members \cup new
  BY DEF Merge
<1>4. \A p \in DOMAIN members : merged[p] = <<members[p][1], Or(patch, members[p][1], members[p][2])>>
  BY <1>2 DEF Merge
<1>5. \A p \in new : merged[p] = patch[p - last]
  BY DEF Merge
<1>6. Bounded(merged)
  <2>1. PICK n \in Nat : DOMAIN patch \subseteq 1..n
    BY <1>1
  <2>2. DOMAIN merged \subseteq 1..(last + n)
    BY <1>1, <1>3, <2>1
  <2> QED
    BY <1>1, <2>1, <2>2 DEF Bounded
<1> HIDE DEF new, merged, last
<1>7. ASSUME NEW p \in DOMAIN merged \ DOMAIN members
      PROVE  /\ p > last
             /\ \E r \in DOMAIN patch : /\ r \in Nat /\ p = last + r /\ merged[p] = patch[r]
                                        /\ patch[r][1] \notin Keys(members)
  <2>1. p \in new /\ p - last \in fresh /\ p = last + (p - last)
    BY <1>2, <1>3
  <2>2. \A r \in fresh : r \in Nat /\ r > 0
    BY <1>1
  <2> QED
    BY <1>1, <1>5, <2>1, <2>2
<1> QED
  BY <1>1, <1>3, <1>4, <1>6, <1>7 DEF merged, last

LEMMA MergedMembers ==
  ASSUME NEW name, NEW members, NEW patch, Stored(name, members), Stored(name, patch)
  PROVE  Stored(name, Merge(members, patch))
<1> DEFINE merged == Merge(members, patch)
<1>1. Bounded(members) /\ Bounded(patch)
  BY DEF Stored
<1>2. DOMAIN members \subseteq DOMAIN merged /\ Bounded(merged)
  BY <1>1, MergePlaces
<1>3. \A p \in DOMAIN members : merged[p] = <<members[p][1], Or(patch, members[p][1], members[p][2])>>
  BY <1>1, MergePlaces
<1>4. \A p \in DOMAIN merged \ DOMAIN members :
        \E r \in DOMAIN patch : p = Last(members) + r /\ merged[p] = patch[r] /\ patch[r][1] \notin Keys(members)
  BY <1>1, MergePlaces
<1> HIDE DEF merged
<1>5. InSchema(name, merged)
  <2>1. ASSUME NEW p \in DOMAIN merged
        PROVE  \E k \in DOMAIN SCHEMA[name] : merged[p] = <<SCHEMA[name][k], merged[p][2]>>
    <3>1. CASE p \in DOMAIN members
      BY <1>3, <3>1 DEF Stored, IsObject, InSchema
    <3>2. CASE p \notin DOMAIN members
      BY <1>4, <3>2 DEF Stored, IsObject, InSchema
    <3> QED
      BY <3>1, <3>2
  <2>2. ASSUME NEW p \in DOMAIN merged, NEW q \in DOMAIN merged, merged[p][1] = merged[q][1]
        PROVE  p = q
    <3>1. CASE p \in DOMAIN members /\ q \in DOMAIN members
      BY <1>3, <2>2, <3>1 DEF Stored, IsObject, InSchema
    <3>2. CASE p \notin DOMAIN members /\ q \notin DOMAIN members
      BY <1>4, <2>2, <3>2 DEF Stored, IsObject, InSchema
    <3>3. ASSUME NEW a \in DOMAIN members, NEW b \in DOMAIN merged \ DOMAIN members
          PROVE  merged[a][1] # merged[b][1]
      BY <1>3, <1>4 DEF Keys
    <3> QED
      BY <2>2, <3>1, <3>2, <3>3
  <2> QED
    BY <2>1, <2>2 DEF InSchema
<1>6. ASSUME NEW p \in DOMAIN merged
      PROVE  IsValue(merged[p][1], merged[p][2])
  <2>1. CASE p \in DOMAIN members /\ members[p][1] \in Keys(patch)
    BY <1>3, <2>1, KeyHasPlace DEF Or, Stored, IsObject
  <2>2. CASE p \in DOMAIN members /\ members[p][1] \notin Keys(patch)
    BY <1>3, <2>2 DEF Or, Stored, IsObject
  <2>3. CASE p \notin DOMAIN members
    BY <1>4, <2>3 DEF Stored, IsObject
  <2> QED
    BY <2>1, <2>2, <2>3
<1> QED
  BY <1>2, <1>5, <1>6 DEF Stored, IsObject, merged

(* A merge keeps the keys. *)
LEMMA MergeKeepsKeys ==
  ASSUME NEW members, NEW patch, Bounded(members), Bounded(patch)
  PROVE  Keys(members) \subseteq Keys(Merge(members, patch))
<1> DEFINE merged == Merge(members, patch)
<1>1. /\ DOMAIN members \subseteq DOMAIN merged
      /\ \A p \in DOMAIN members : merged[p] = <<members[p][1], Or(patch, members[p][1], members[p][2])>>
  BY MergePlaces
<1> HIDE DEF merged
<1> QED
  BY <1>1 DEF Keys, merged

-----------------------------------------------------------------------------
(* Reading what was written: scalars, values, objects. *)

LEMMA TextIsPlain ==
  ASSUME NEW value, IsText(value)
  PROVE  ~Is("boolean", value) /\ ~Is("object", value) /\ ~Is("array", value) /\ ~Is("number", value)
  BY DEF IsText, Text, Time, Is

LEMMA ScalarIsRead ==
  ASSUME NEW key, NEW value, IsScalar(key, value)
  PROVE  /\ CanonicalScalar(parse_scalar(key, str(value))) = CanonicalScalar(value)
         /\ IsScalar(key, parse_scalar(key, str(value)))
         /\ ~Is("object", value) /\ ~Is("array", value)
         /\ key \notin INTEGER_FIELDS \cup DECIMAL_FIELDS \cup BOOLEAN_FIELDS =>
              IsText(value) /\ parse_scalar(key, str(value)) = value
<1> USE DEF INTEGER_FIELDS, DECIMAL_FIELDS, BOOLEAN_FIELDS
<1>1. CASE key \in INTEGER_FIELDS \cup DECIMAL_FIELDS
  <2>1. /\ value = [number |-> value.number, form |-> value.form]
        /\ value.number \in Int
    BY <1>1 DEF IsScalar, Number
  <2>2. str(value) = value /\ ~Is("object", value) /\ ~Is("array", value)
    BY <2>1 DEF str, Is
  <2>3. PICK form \in FORMS : parse_scalar(key, str(value)) = Number(value.number, form)
    BY <1>1, <2>2 DEF parse_scalar, FORMS
  <2>4. IsScalar(key, Number(value.number, form))
    BY <1>1, <2>1, <2>3 DEF IsScalar, Number, Is
  <2>5. CanonicalScalar(Number(value.number, form)) = CanonicalScalar(value)
    BY <2>1 DEF CanonicalScalar, Number, Is
  <2> QED
    BY <1>1, <2>2, <2>3, <2>4, <2>5
<1>2. CASE key \in BOOLEAN_FIELDS
  <2>1. PICK b \in BOOLEAN : value = Boolean(b)
    BY <1>2 DEF IsScalar
  <2>2. parse_scalar(key, str(value)) = value
    BY <1>2, <2>1 DEF parse_scalar, str, Is, Boolean, Text
  <2> QED
    BY <1>2, <2>1, <2>2 DEF Is, Boolean
<1>3. CASE key \notin INTEGER_FIELDS \cup DECIMAL_FIELDS \cup BOOLEAN_FIELDS
  <2>1. IsText(value)
    BY <1>3 DEF IsScalar
  <2>2. ~Is("boolean", value) /\ ~Is("object", value) /\ ~Is("array", value)
    BY <2>1, TextIsPlain
  <2>3. parse_scalar(key, str(value)) = value
    BY <1>3, <2>2 DEF parse_scalar, str
  <2> QED
    BY <1>3, <2>1, <2>2, <2>3
<1> QED
  BY <1>1, <1>2, <1>3

(* The keys whose values are strings. *)
Textual(key) == key \notin INTEGER_FIELDS \cup DECIMAL_FIELDS \cup BOOLEAN_FIELDS \cup DOMAIN LIST_ITEMS \cup NESTED

LEMMA ValueIsRead ==
  ASSUME NEW key, NEW value, IsValue(key, value)
  PROVE  /\ write_value(key, value).tag = key
         /\ CanonicalValue(read_value(write_value(key, value))) = CanonicalValue(value)
         /\ IsValue(key, read_value(write_value(key, value)))
         /\ Textual(key) => read_value(write_value(key, value)) = value
         /\ key \in NESTED => KeyOrder(read_value(write_value(key, value)).object) = KeyOrder(value.object)
<1> DEFINE element == write_value(key, value)
<1>1. CASE key \in DOMAIN LIST_ITEMS
  <2> DEFINE a == value.array
             children == [i \in DOMAIN a |-> Leaf(LIST_ITEMS[key], str(a[i]))]
  <2>1. value = Array(a) /\ IsList(a) /\ (\A i \in DOMAIN a : IsText(a[i]))
    BY <1>1 DEF IsValue, NESTED, LIST_ITEMS
  <2>2. Is("array", value) /\ ~Is("object", value)
    BY <2>1 DEF Is, Array
  <2>3. element = Node(key, children)
    BY <2>2 DEF write_value
  <2>4. element.tag = key /\ element.children = children
    <3> HIDE DEF element, children
    <3> QED
      BY <2>3 DEF Node
  <2>5. ASSUME NEW i \in DOMAIN a PROVE ReadLeaf(children[i]) = a[i]
    <3>1. LIST_ITEMS[key] \in {"technicalFlag", "materialObservationRef"}
      BY <1>1 DEF LIST_ITEMS
    <3>2. ~Is("boolean", a[i])
      BY <2>1, TextIsPlain
    <3> QED
      BY <3>1, <3>2 DEF ReadLeaf, Leaf, parse_scalar, str, INTEGER_FIELDS, DECIMAL_FIELDS, BOOLEAN_FIELDS
  <2>6. read_value(element) = Array([i \in DOMAIN a |-> a[i]])
    <3>1. DOMAIN children = DOMAIN a
      OBVIOUS
    <3> HIDE DEF children, a, element
    <3>2. CASE DOMAIN a = {}
      BY <1>1, <2>4, <3>1, <3>2 DEF read_value
    <3>3. CASE DOMAIN a # {}
      BY <1>1, <2>4, <2>5, <3>1, <3>3 DEF read_value, ReadArray
    <3> QED
      BY <3>2, <3>3
  <2>7. a = [i \in DOMAIN a |-> a[i]]
    BY <2>1, ListFacts DEF IsList
  <2>8. read_value(element) = value
    BY <2>1, <2>6, <2>7
  <2> HIDE DEF element
  <2> QED
    BY <2>4, <2>8 DEF element
<1>2. CASE key \in NESTED
  <2> DEFINE m == value.object
             children == [p \in DOMAIN m |-> Leaf(m[p][1], str(m[p][2]))]
             r == [p \in DOMAIN m |-> <<m[p][1], parse_scalar(m[p][1], str(m[p][2]))>>]
  <2>1. /\ value = Object(m) /\ IsList(m) /\ DOMAIN m # {} /\ InSchema(key, m)
        /\ \A p \in DOMAIN m : IsScalar(m[p][1], m[p][2])
    BY <1>2 DEF IsValue, NESTED, LIST_ITEMS
  <2>2. Is("object", value) /\ ~Is("array", value)
    BY <2>1 DEF Is, Object
  <2>3. element = Node(key, children)
    BY <2>2 DEF write_value
  <2>4. element.tag = key /\ element.children = children
    <3> HIDE DEF element, children
    <3> QED
      BY <2>3 DEF Node
  <2>5. ~Repeated(Tags(children))
    BY <2>1 DEF Repeated, Tags, Leaf, InSchema
  <2>6. \A p \in DOMAIN m : children[p].tag = m[p][1] /\ ReadLeaf(children[p]) = parse_scalar(m[p][1], str(m[p][2]))
    BY DEF ReadLeaf, Leaf
  <2>7. read_value(element) = Object(r)
    <3>1. DOMAIN children = DOMAIN m /\ key \notin DOMAIN LIST_ITEMS
      BY <1>2 DEF NESTED, LIST_ITEMS
    <3> HIDE DEF children, m, element
    <3> QED
      BY <2>1, <2>4, <2>5, <2>6, <3>1 DEF read_value, ReadObject
  <2>8. \A p \in DOMAIN m : /\ CanonicalScalar(r[p][2]) = CanonicalScalar(m[p][2])
                            /\ r[p][1] = m[p][1] /\ IsScalar(r[p][1], r[p][2])
    BY <2>1, ScalarIsRead
  <2>9. DOMAIN r = DOMAIN m /\ (\A p \in DOMAIN r : r[p] = <<r[p][1], r[p][2]>>)
    OBVIOUS
  <2>10. IsList(r)
    <3>1. Len(m) \in Nat /\ r = [i \in 1..Len(m) |-> r[i]]
      BY <2>1, ListFacts
    <3> HIDE DEF r
    <3> QED
      BY <3>1, IsListOfLength
  <2> HIDE DEF r, m, element
  <2>11. CanonicalValue(Object(r)) = CanonicalValue(Object(m))
    <3>1. \A x : CanonicalValue(Object(x)) = Object({<<x[p][1], CanonicalScalar(x[p][2])>> : p \in DOMAIN x})
      BY DEF CanonicalValue, Object, Is
    <3>2. {<<r[p][1], CanonicalScalar(r[p][2])>> : p \in DOMAIN r}
            = {<<m[p][1], CanonicalScalar(m[p][2])>> : p \in DOMAIN m}
      BY <2>8, <2>9
    <3> QED
      BY <3>1, <3>2
  <2>12. InSchema(key, r)
    BY <2>1, <2>8, <2>9 DEF InSchema
  <2>13. IsValue(key, Object(r))
    BY <1>2, <2>1, <2>8, <2>9, <2>10, <2>12 DEF IsValue, Object, Is, NESTED, LIST_ITEMS
  <2>14. KeyOrder(Object(r).object) = KeyOrder(m)
    BY <2>8, <2>9 DEF KeyOrder, Object
  <2> QED
    BY <1>2, <2>1, <2>4, <2>7, <2>11, <2>13, <2>14 DEF Textual, element, m
<1>3. CASE key \notin DOMAIN LIST_ITEMS /\ key \notin NESTED
  <2>1. IsScalar(key, value)
    BY <1>3 DEF IsValue
  <2>2. element = Leaf(key, str(value))
    BY <2>1, ScalarIsRead DEF write_value
  <2>3. element.tag = key /\ DOMAIN element.children = {} /\ element.text = str(value)
    BY <2>2 DEF Leaf
  <2> HIDE DEF element
  <2>4. read_value(element) = parse_scalar(key, str(value))
    BY <1>3, <2>3 DEF read_value, ReadLeaf
  <2> DEFINE r == parse_scalar(key, str(value))
  <2>5. IsScalar(key, r) /\ CanonicalScalar(r) = CanonicalScalar(value)
    BY <2>1, ScalarIsRead
  <2>6. \A v : IsScalar(key, v) => CanonicalValue(v) = CanonicalScalar(v)
    BY ScalarIsRead DEF CanonicalValue
  <2>7. \A v : IsScalar(key, v) => IsValue(key, v)
    BY <1>3 DEF IsValue
  <2>8. Textual(key) => r = value
    BY <2>1, ScalarIsRead DEF Textual
  <2> HIDE DEF r
  <2> QED
    BY <1>3, <2>1, <2>3, <2>4, <2>5, <2>6, <2>7, <2>8 DEF element, r
<1> QED
  BY <1>1, <1>2, <1>3

(* Objects with the same keys at the same places, and values that differ   *)
(* at most in the form of numbers.                                         *)
Alike(m, n) ==
  /\ DOMAIN n = DOMAIN m
  /\ \A p \in DOMAIN m :
       /\ n[p][1] = m[p][1] /\ CanonicalValue(n[p][2]) = CanonicalValue(m[p][2])
       /\ Textual(m[p][1]) => n[p][2] = m[p][2]
       /\ m[p][1] \in NESTED => KeyOrder(n[p][2].object) = KeyOrder(m[p][2].object)

LEMMA MembersAreRead ==
  ASSUME NEW name, NEW m, Stored(name, m)
  PROVE  Alike(m, ReadMembers(WriteMembers(m))) /\ Stored(name, ReadMembers(WriteMembers(m)))
<1> DEFINE written == WriteMembers(m)
           r == ReadMembers(written)
<1>1. DOMAIN written = DOMAIN m /\ \A p \in DOMAIN m : written[p] = write_value(m[p][1], m[p][2])
  BY DEF WriteMembers
<1>2. DOMAIN r = DOMAIN written /\ \A p \in DOMAIN written : r[p] = <<written[p].tag, read_value(written[p])>>
  BY DEF ReadMembers
<1> HIDE DEF written, r
<1>3. \A p \in DOMAIN m : IsValue(m[p][1], m[p][2])
  BY DEF Stored, IsObject
<1>4. \A p \in DOMAIN m : r[p] = <<m[p][1], read_value(write_value(m[p][1], m[p][2]))>>
  BY <1>1, <1>2, <1>3, ValueIsRead
<1>5. Alike(m, r)
  BY <1>1, <1>2, <1>3, <1>4, ValueIsRead DEF Alike
<1>6. InSchema(name, r)
  BY <1>1, <1>2, <1>4 DEF Stored, IsObject, InSchema
<1>7. \A p \in DOMAIN r : IsValue(r[p][1], r[p][2])
  BY <1>1, <1>2, <1>3, <1>4, ValueIsRead
<1> QED
  BY <1>1, <1>2, <1>5, <1>6, <1>7 DEF Stored, Bounded, IsObject, r, written

LEMMA AlikeIsCanonical ==
  ASSUME NEW m, NEW n, Alike(m, n)
  PROVE  /\ CanonicalMembers(n) = CanonicalMembers(m)
         /\ \A keys : CanonicalMembers(pick(n, keys)) = CanonicalMembers(pick(m, keys))
         /\ Keys(n) = Keys(m) /\ KeyOrder(n) = KeyOrder(m)
<1>1. CanonicalMembers(n) = CanonicalMembers(m)
  BY DEF Alike, CanonicalMembers
<1>2. ASSUME NEW keys PROVE CanonicalMembers(pick(n, keys)) = CanonicalMembers(pick(m, keys))
  <2>1. /\ DOMAIN pick(n, keys) = DOMAIN pick(m, keys)
        /\ \A p \in DOMAIN pick(m, keys) : p \in DOMAIN m /\ pick(m, keys)[p] = m[p] /\ pick(n, keys)[p] = n[p]
    BY DEF Alike, pick
  <2> QED
    BY <2>1 DEF Alike, CanonicalMembers
<1>3. Keys(n) = Keys(m) /\ KeyOrder(n) = KeyOrder(m)
  BY DEF Alike, Keys, KeyOrder
<1> QED
  BY <1>1, <1>2, <1>3

-----------------------------------------------------------------------------
(* Documents. *)

StoredItem(name, members) ==
  /\ Stored(name, members) /\ REQUIRED[name] \subseteq Keys(members)
  /\ name = "materialObservations" => \A p \in DOMAIN members : members[p][2] # Text("")

IsRoot(root) ==
  /\ ATTRIBUTES \subseteq DOMAIN root /\ DOMAIN root \subseteq ATTRIBUTES \cup ROOT_SCALARS
  /\ \A key \in DOMAIN root : IsScalar(key, root[key])

IsDocument(d) ==
  /\ DOMAIN d = {"root"} \cup OBJECTS \cup DOMAIN ARRAYS
  /\ IsRoot(d.root)
  /\ \A name \in OBJECTS : Stored(name, d[name])
  /\ \A name \in DOMAIN ARRAYS : IsList(d[name]) /\ \A i \in DOMAIN d[name] : StoredItem(name, d[name][i])

SameItems(a, b) == DOMAIN b = DOMAIN a /\ \A i \in DOMAIN a : Alike(a[i], b[i])
SameDocument(d, e) ==
  /\ DOMAIN e.root = DOMAIN d.root
  /\ \A key \in DOMAIN d.root : CanonicalScalar(e.root[key]) = CanonicalScalar(d.root[key])
  /\ \A name \in OBJECTS : Alike(d[name], e[name])
  /\ \A name \in DOMAIN ARRAYS : SameItems(d[name], e[name])

LEMMA SameCanonicalItems ==
  ASSUME NEW a, NEW b, SameItems(a, b)
  PROVE  CanonicalArray(b) = CanonicalArray(a)
  BY AlikeIsCanonical DEF SameItems, CanonicalArray

LEMMA SameIsCanonical ==
  ASSUME NEW d, NEW e, SameDocument(d, e)
  PROVE  canonicalise(e) = canonicalise(d) /\ digest(e) = digest(d)
<1>1. /\ Alike(d.identity, e.identity) /\ Alike(d.product, e.product)
      /\ SameItems(d.carriers, e.carriers) /\ SameItems(d.components, e.components)
      /\ SameItems(d.materialObservations, e.materialObservations)
  BY DEF SameDocument, OBJECTS, ARRAYS
<1>2. [key \in DOMAIN e.root |-> CanonicalScalar(e.root[key])] = [key \in DOMAIN d.root |-> CanonicalScalar(d.root[key])]
  BY DEF SameDocument
<1>3. canonicalise(e) = canonicalise(d)
  BY <1>1, <1>2, AlikeIsCanonical, SameCanonicalItems DEF canonicalise
<1>4. digest(e) = digest(d)
  <2> DEFINE c == integrity_projection(d)
             f == integrity_projection(e)
  <2>1. [key \in DOMAIN f.root |-> CanonicalScalar(f.root[key])] = [key \in DOMAIN c.root |-> CanonicalScalar(c.root[key])]
    BY DEF integrity_projection, SameDocument
  <2>2. CanonicalMembers(f.identity) = CanonicalMembers(c.identity) /\ CanonicalMembers(f.product) = CanonicalMembers(c.product)
    BY <1>1, AlikeIsCanonical DEF integrity_projection
  <2>3. CanonicalArray(f.materialObservations) = CanonicalArray(c.materialObservations)
    <3>1. \A i \in DOMAIN d.materialObservations : Alike(d.materialObservations[i], e.materialObservations[i])
      BY <1>1 DEF SameItems
    <3>2. DOMAIN e.materialObservations = DOMAIN d.materialObservations
      BY <1>1 DEF SameItems
    <3> QED
      BY <3>1, <3>2, AlikeIsCanonical DEF integrity_projection, CanonicalArray
  <2>4. f.carriers = c.carriers /\ f.components = c.components
    BY DEF integrity_projection
  <2> HIDE DEF c, f
  <2>5. canonicalise(f) = canonicalise(c)
    BY <2>1, <2>2, <2>3, <2>4 DEF canonicalise
  <2> QED
    BY <2>5 DEF digest, c, f
<1> QED
  BY <1>3, <1>4

LEMMA WrittenOnce ==
  /\ \A p, q \in DOMAIN WRITTEN : WRITTEN[p] = WRITTEN[q] => p = q
  /\ \A name \in ROOT_SCALARS \cup OBJECTS \cup DOMAIN ARRAYS : \E p \in DOMAIN WRITTEN : WRITTEN[p] = name
  /\ \A p \in DOMAIN WRITTEN : WRITTEN[p] \in ROOT_SCALARS \cup OBJECTS \cup DOMAIN ARRAYS
  BY DEF WRITTEN, ROOT_SCALARS, OBJECTS, ARRAYS

(* What from_xml finds under a name is what to_xml wrote for it. *)
LEMMA SectionsAreFound ==
  ASSUME NEW d, NEW name \in ROOT_SCALARS \cup OBJECTS \cup DOMAIN ARRAYS
  PROVE  /\ name \in Found(to_xml(d)) <=> IsWritten(d, name)
         /\ IsWritten(d, name) => Child(to_xml(d), name) = WriteSection(d, name)
<1> DEFINE places == {q \in DOMAIN WRITTEN : IsWritten(d, WRITTEN[q])}
           children == to_xml(d).children
<1>1. /\ DOMAIN children = places
      /\ \A p \in places : children[p] = WriteSection(d, WRITTEN[p])
  BY DEF to_xml
<1>2. \A n : WriteSection(d, n).tag = n
  BY DEF WriteSection, Leaf, Node
<1>3. \A p \in places : children[p].tag = WRITTEN[p]
  BY <1>1, <1>2
<1>4. PICK p \in DOMAIN WRITTEN : WRITTEN[p] = name
  BY WrittenOnce
<1> HIDE DEF children
<1>5. name \in Found(to_xml(d)) <=> IsWritten(d, name)
  BY <1>1, <1>3, <1>4 DEF Found, children
<1>6. ASSUME IsWritten(d, name) PROVE Child(to_xml(d), name) = WriteSection(d, name)
  <2>1. p \in DOMAIN children /\ children[p].tag = name /\ \A q \in DOMAIN children : children[q].tag = name => q = p
    BY <1>1, <1>3, <1>4, <1>6, WrittenOnce
  <2> QED
    BY <1>1, <1>4, <2>1 DEF Child, children
<1> QED
  BY <1>5, <1>6

LEMMA NamesAreApart ==
  /\ \A name \in OBJECTS : name \notin ROOT_SCALARS
  /\ \A name \in DOMAIN ARRAYS : name \notin ROOT_SCALARS /\ name \notin OBJECTS
  /\ ATTRIBUTES \cap ROOT_SCALARS = {}
  BY DEF ROOT_SCALARS, OBJECTS, ARRAYS, ATTRIBUTES

LEMMA ChildrenOfNode == \A tag, children : Node(tag, children).children = children
  BY DEF Node

LEMMA DocumentIsRead ==
  ASSUME NEW d, IsDocument(d)
  PROVE  SameDocument(d, from_xml(to_xml(d))) /\ IsDocument(from_xml(to_xml(d)))
<1> DEFINE xml == to_xml(d)
           e == from_xml(xml)
<1>1. /\ DOMAIN e.root = ATTRIBUTES \cup (ROOT_SCALARS \cap Found(xml))
      /\ \A key \in DOMAIN e.root : e.root[key] = IF key \in ATTRIBUTES THEN xml.attributes[key] ELSE ReadLeaf(Child(xml, key))
      /\ \A name \in OBJECTS : e[name] = ReadMembers(Child(xml, name).children)
      /\ \A name \in DOMAIN ARRAYS : e[name] = ReadItems(xml, name)
  BY DEF from_xml, OBJECTS, ARRAYS
<1>2. \A key \in ATTRIBUTES : xml.attributes[key] = d.root[key]
  BY DEF to_xml
<1> HIDE DEF xml, e
<1>3. DOMAIN e.root = DOMAIN d.root
  <2>1. \A key \in ROOT_SCALARS : key \in Found(xml) <=> key \in DOMAIN d.root
    BY SectionsAreFound DEF IsWritten, xml
  <2> QED
    BY <1>1, <2>1 DEF IsDocument, IsRoot
<1>4. ASSUME NEW key \in DOMAIN d.root
      PROVE  CanonicalScalar(e.root[key]) = CanonicalScalar(d.root[key]) /\ IsScalar(key, e.root[key])
  <2>1. IsScalar(key, d.root[key])
    BY DEF IsDocument, IsRoot
  <2>2. CASE key \in ATTRIBUTES
    BY <1>1, <1>2, <1>3, <2>1, <2>2
  <2>3. CASE key \in ROOT_SCALARS
    <3>1. Child(xml, key) = Leaf(key, str(d.root[key]))
      <4>1. IsWritten(d, key) /\ WriteSection(d, key) = Leaf(key, str(d.root[key]))
        BY <2>3, NamesAreApart DEF IsWritten, WriteSection
      <4> QED
        BY <2>3, <4>1, SectionsAreFound DEF xml
    <3>2. ReadLeaf(Child(xml, key)) = parse_scalar(key, str(d.root[key]))
      BY <3>1 DEF ReadLeaf, Leaf
    <3>3. e.root[key] = parse_scalar(key, str(d.root[key]))
      BY <1>1, <1>3, <2>3, <3>2, NamesAreApart
    <3> QED
      BY <2>1, <3>3, ScalarIsRead
  <2> QED
    BY <2>2, <2>3 DEF IsDocument, IsRoot
<1>5. ASSUME NEW name \in OBJECTS
      PROVE  Alike(d[name], e[name]) /\ Stored(name, e[name])
  <2>1. Child(xml, name) = Node(name, WriteMembers(d[name]))
    BY SectionsAreFound, NamesAreApart DEF IsWritten, WriteSection, xml
  <2>2. e[name] = ReadMembers(WriteMembers(d[name]))
    BY <1>1, <2>1, ChildrenOfNode
  <2> QED
    BY <2>2, MembersAreRead DEF IsDocument
<1>6. ASSUME NEW name \in DOMAIN ARRAYS
      PROVE  SameItems(d[name], e[name]) /\ IsList(e[name]) /\ \A i \in DOMAIN e[name] : StoredItem(name, e[name][i])
  <2> DEFINE items == d[name]
  <2>1. IsList(items) /\ \A i \in DOMAIN items : StoredItem(name, items[i])
    BY DEF IsDocument
  <2>2. DOMAIN items = 1..Len(items) /\ Len(items) \in Nat
    BY <2>1, ListFacts
  <2>3. e[name] = [i \in DOMAIN items |-> ReadMembers(WriteMembers(items[i]))]
    <3>1. IsWritten(d, name) <=> DOMAIN items # {}
      BY NamesAreApart DEF IsWritten
    <3>2. CASE DOMAIN items # {}
      <4> DEFINE nodes == [i \in DOMAIN items |-> Node(ARRAYS[name], WriteMembers(items[i]))]
      <4>1. WriteSection(d, name) = Node(name, nodes)
        BY NamesAreApart DEF WriteSection
      <4>2. name \in Found(xml) /\ Child(xml, name).children = nodes
        <5> HIDE DEF nodes
        <5> QED
          BY <3>1, <3>2, <4>1, SectionsAreFound, ChildrenOfNode DEF xml
      <4>3. e[name] = [i \in DOMAIN nodes |-> ReadMembers(nodes[i].children)]
        BY <1>1, <4>2 DEF ReadItems
      <4>4. \A i \in DOMAIN items : nodes[i].children = WriteMembers(items[i])
        BY DEF Node
      <4> QED
        BY <4>3, <4>4
    <3>3. CASE DOMAIN items = {}
      <4>1. e[name] = <<>>
        BY <1>1, <3>1, <3>3, SectionsAreFound DEF ReadItems, xml
      <4> QED
        BY <3>3, <4>1
    <3> QED
      BY <3>2, <3>3
  <2> HIDE DEF items
  <2>4. e[name] = [i \in 1..Len(items) |-> e[name][i]]
    BY <2>2, <2>3
  <2>5. IsList(e[name])
    BY <2>2, <2>4, IsListOfLength
  <2>6. ASSUME NEW i \in DOMAIN items
        PROVE  Alike(items[i], e[name][i]) /\ StoredItem(name, e[name][i])
    <3> DEFINE m == items[i]
               n == ReadMembers(WriteMembers(m))
    <3>1. StoredItem(name, m) /\ e[name][i] = n
      BY <2>1, <2>3
    <3> HIDE DEF m, n
    <3>2. Alike(m, n) /\ Stored(name, n)
      BY <3>1, MembersAreRead DEF StoredItem, n
    <3>3. Keys(n) = Keys(m)
      BY <3>2, AlikeIsCanonical
    <3>4. ASSUME \A p \in DOMAIN m : m[p][2] # Text(""), NEW p \in DOMAIN n PROVE n[p][2] # Text("")
      <4>1. CanonicalValue(n[p][2]) = CanonicalValue(m[p][2]) /\ p \in DOMAIN m
        BY <3>2 DEF Alike
      <4>2. \A v : CanonicalValue(v) = Text("") => v = Text("")
        BY DEF CanonicalValue, CanonicalScalar, Text, Object, Array
      <4>3. CanonicalValue(Text("")) = Text("")
        BY DEF CanonicalValue, CanonicalScalar, Text, Is
      <4> QED
        BY <3>4, <4>1, <4>2, <4>3
    <3> QED
      BY <3>1, <3>2, <3>3, <3>4 DEF StoredItem, m
  <2> QED
    BY <2>1, <2>3, <2>5, <2>6 DEF SameItems, items
<1>7. DOMAIN e = {"root"} \cup OBJECTS \cup DOMAIN ARRAYS
  BY DEF e, from_xml, OBJECTS, ARRAYS
<1>8. IsRoot(e.root)
  BY <1>3, <1>4 DEF IsDocument, IsRoot
<1> QED
  BY <1>3, <1>4, <1>5, <1>6, <1>7, <1>8 DEF SameDocument, IsDocument, e, xml

-----------------------------------------------------------------------------
(* What the operations write is a document.  Two documents with the same   *)
(* content differ in their roots.                                          *)
SameContent(d, e) == \A name \in OBJECTS \cup DOMAIN ARRAYS : e[name] = d[name]

LEMMA RootIsStamped ==
  ASSUME NEW root, IsRoot(root), NEW n \in Int
  PROVE  IsRoot(Stamped(root, n)) /\ "recordVersion" \in DOMAIN Stamped(root, n)
<1> DEFINE s == [recordVersion |-> Number(n, "int"), updatedAt |-> Time(n)]
           r == Overlay(root, s)
<1>1. /\ DOMAIN s = {"recordVersion", "updatedAt"}
      /\ s["recordVersion"] = Number(n, "int") /\ s["updatedAt"] = Time(n)
  OBVIOUS
<1> HIDE DEF s
<1>2. DOMAIN r = DOMAIN s \cup DOMAIN root /\ \A key \in DOMAIN r : r[key] = IF key \in DOMAIN s THEN s[key] ELSE root[key]
  BY DEF Overlay
<1>3. IsScalar("recordVersion", Number(n, "int"))
  BY DEF IsScalar, INTEGER_FIELDS, DECIMAL_FIELDS, BOOLEAN_FIELDS, Number, Is, FORMS
<1>4. IsScalar("updatedAt", Time(n))
  BY DEF IsScalar, INTEGER_FIELDS, DECIMAL_FIELDS, BOOLEAN_FIELDS, Time, Is, IsText
<1> HIDE DEF r
<1> QED
  BY <1>1, <1>2, <1>3, <1>4 DEF IsRoot, ROOT_SCALARS, Stamped, r, s

LEMMA DefaultsFit ==
  ASSUME NEW root, IsRoot(root)
  PROVE  IsRoot(Overlay(DEFAULTS, root))
<1> DEFINE s == DEFAULTS
           r == Overlay(s, root)
<1>1. DOMAIN s = {"status", "accessPolicyVersion", "createdAt"} /\ \A key \in DOMAIN s : IsText(s[key])
  BY DEF DEFAULTS, IsText, Text, Time, Is
<1> HIDE DEF s
<1>2. DOMAIN r = DOMAIN root \cup DOMAIN s /\ \A key \in DOMAIN r : r[key] = IF key \in DOMAIN root THEN root[key] ELSE s[key]
  BY DEF Overlay
<1>3. \A key \in DOMAIN s : IsScalar(key, s[key])
  BY <1>1 DEF IsScalar, INTEGER_FIELDS, DECIMAL_FIELDS, BOOLEAN_FIELDS
<1> HIDE DEF r
<1> QED
  BY <1>1, <1>2, <1>3 DEF IsRoot, ROOT_SCALARS, r, s

LEMMA RootIsReplaced ==
  ASSUME NEW d, IsDocument(d), NEW root, IsRoot(root)
  PROVE  /\ IsDocument([d EXCEPT !.root = root])
         /\ SameContent(d, [d EXCEPT !.root = root])
         /\ [d EXCEPT !.root = root].root = root
<1> DEFINE e == [d EXCEPT !.root = root]
<1>1. "root" \in DOMAIN d /\ "root" \notin OBJECTS \cup DOMAIN ARRAYS /\ OBJECTS \cup DOMAIN ARRAYS \subseteq DOMAIN d
  BY DEF IsDocument, OBJECTS, ARRAYS
<1>2. DOMAIN e = DOMAIN d /\ e.root = root /\ \A name \in OBJECTS \cup DOMAIN ARRAYS : e[name] = d[name]
  BY <1>1
<1> HIDE DEF e
<1> QED
  BY <1>2 DEF IsDocument, SameContent, e

LEMMA CreatedIsDocument ==
  ASSUME NEW d, IsDocument(d)
  PROVE  IsDocument(Created(d)) /\ SameContent(d, Created(d)) /\ "recordVersion" \in DOMAIN Created(d).root
<1> DEFINE root == Stamped(Overlay(DEFAULTS, d.root), 1)
<1>1. IsRoot(root) /\ "recordVersion" \in DOMAIN root
  BY DefaultsFit, RootIsStamped DEF IsDocument
<1>2. Created(d) = [d EXCEPT !.root = root]
  BY DEF Created
<1> HIDE DEF root
<1> QED
  BY <1>1, <1>2, RootIsReplaced

LEMMA StampedIsDocument ==
  ASSUME NEW d, IsDocument(d), NEW n \in Int
  PROVE  LET e == [d EXCEPT !.root = Stamped(@, n)]
         IN  IsDocument(e) /\ SameContent(d, e) /\ "recordVersion" \in DOMAIN e.root
<1> DEFINE root == Stamped(d.root, n)
<1>1. IsRoot(root) /\ "recordVersion" \in DOMAIN root
  BY RootIsStamped DEF IsDocument
<1> HIDE DEF root
<1> QED
  BY <1>1, RootIsReplaced DEF root

LEMMA BodyIsDocument ==
  ASSUME NEW body \in Bodies
  PROVE  IsDocument(body) /\ IdsAreUnique(body.materialObservations)
<1>1. DOMAIN body = {"root"} \cup OBJECTS \cup DOMAIN ARRAYS
  BY Typed DEF BodyAssumption, OBJECTS, ARRAYS
<1>2. IsRoot(body.root) /\ \A name \in OBJECTS : IsInput(name, body[name])
  BY Typed DEF BodyAssumption, IsRoot
<1>3. \A name \in DOMAIN ARRAYS : IsList(body[name]) /\ \A i \in DOMAIN body[name] : IsItem(name, body[name][i])
  BY Typed DEF BodyAssumption
<1>4. \A name, m : IsItem(name, m) => StoredItem(name, m)
  BY InputIsStored DEF IsItem, StoredItem
<1> QED
  BY <1>1, <1>2, <1>3, <1>4, InputIsStored, BodyIdsAreUnique DEF IsDocument

LEMMA PatchedIsDocument ==
  ASSUME NEW d, IsDocument(d), NEW patch \in ProductPatches
  PROVE  LET e == [d EXCEPT !.product = Merge(@, patch)]
         IN  /\ IsDocument(e) /\ e.root = d.root /\ e.product = Merge(d.product, patch)
             /\ \A name \in {"identity"} \cup DOMAIN ARRAYS : e[name] = d[name]
<1> DEFINE product == Merge(d.product, patch)
           e == [d EXCEPT !.product = product]
<1>1. Stored("product", product)
  <2>1. Stored("product", patch)
    BY Typed, InputIsStored
  <2> QED
    BY <2>1, MergedMembers DEF IsDocument, OBJECTS
<1> HIDE DEF product
<1>2. DOMAIN e = DOMAIN d /\ e.root = d.root /\ e.product = product /\ \A name \in {"identity"} \cup DOMAIN ARRAYS : e[name] = d[name]
  BY DEF IsDocument, OBJECTS, ARRAYS
<1> HIDE DEF e
<1>3. IsDocument(e)
  BY <1>1, <1>2 DEF IsDocument, OBJECTS
<1> QED
  BY <1>2, <1>3 DEF e, product

LEMMA ObservedIsDocument ==
  ASSUME NEW d, IsDocument(d), NEW o \in Observations
  PROVE  LET e == [d EXCEPT !.materialObservations = Append(@, o)]
         IN  /\ IsDocument(e) /\ e.root = d.root
             /\ e.materialObservations = Append(d.materialObservations, o)
             /\ \A name \in OBJECTS \cup {"carriers", "components"} : e[name] = d[name]
<1> DEFINE all == d.materialObservations
           more == Append(all, o)
           e == [d EXCEPT !.materialObservations = more]
<1>1. IsList(all) /\ \A i \in DOMAIN all : StoredItem("materialObservations", all[i])
  BY DEF IsDocument, ARRAYS
<1>2. StoredItem("materialObservations", o)
  BY Typed, InputIsStored DEF IsItem, StoredItem
<1> HIDE DEF all
<1>3. IsList(more) /\ \A i \in DOMAIN more : StoredItem("materialObservations", more[i])
  BY <1>1, <1>2, AppendedList, ListFacts
<1> HIDE DEF more
<1>4. /\ DOMAIN e = DOMAIN d /\ e.root = d.root /\ e.materialObservations = more
      /\ \A name \in OBJECTS \cup {"carriers", "components"} : e[name] = d[name]
  BY DEF IsDocument, OBJECTS, ARRAYS
<1> HIDE DEF e
<1>5. IsDocument(e)
  BY <1>3, <1>4 DEF IsDocument, OBJECTS, ARRAYS
<1> QED
  BY <1>4, <1>5 DEF e, more, all

-----------------------------------------------------------------------------
(* A commissioned carrier.                                                 *)

EntryOrder == <<"carrierId", "carrierType", "encodingScheme", "encodedIdentifier", "bindingStatus", "boundAt",
                "boundBy", "resolverUri", "placement">>

LEMMA EntryPlaces ==
  /\ \A p \in DOMAIN EntryOrder : p \in 1..9 /\ \E k \in DOMAIN SCHEMA["carriers"] : EntryOrder[p] = SCHEMA["carriers"][k]
  /\ \A p, q \in DOMAIN EntryOrder : EntryOrder[p] = EntryOrder[q] => p = q
  /\ EntryOrder[5] = "bindingStatus" /\ 5 \in DOMAIN EntryOrder
  BY DEF EntryOrder, SCHEMA

LEMMA StatusIsText ==
  ASSUME NEW s
  PROVE  IsValue("bindingStatus", Text(s)) /\ IsValue("closedAt", Time(s)) /\ Text(s) # Time(s)
  BY DEF IsValue, IsScalar, IsText, Text, Time, Is, LIST_ITEMS, NESTED, INTEGER_FIELDS, DECIMAL_FIELDS, BOOLEAN_FIELDS

LEMMA EntryIsStored ==
  ASSUME NEW carrier, IsInput("carriers", carrier)
  PROVE  /\ StoredItem("carriers", Entry(carrier))
         /\ DOMAIN Entry(carrier) = {q \in DOMAIN EntryOrder : EntryOrder[q] \in Keys(carrier) \cup {"bindingStatus"}}
         /\ \A p \in DOMAIN Entry(carrier) : Entry(carrier)[p][1] = EntryOrder[p]
<1> DEFINE entry == Entry(carrier)
<1>1. /\ DOMAIN entry = {q \in DOMAIN EntryOrder : EntryOrder[q] \in Keys(carrier) \cup {"bindingStatus"}}
      /\ \A p \in DOMAIN entry :
           entry[p] = <<EntryOrder[p], IF EntryOrder[p] = "bindingStatus" THEN Text("commissioned")
                                       ELSE Value(carrier, EntryOrder[p])>>
  BY DEF Entry, EntryIn, EntryOrder
<1> HIDE DEF entry
<1>2. Bounded(entry)
  BY <1>1, EntryPlaces DEF Bounded
<1>3. InSchema("carriers", entry)
  BY <1>1, EntryPlaces DEF InSchema
<1>4. ASSUME NEW p \in DOMAIN entry PROVE IsValue(entry[p][1], entry[p][2])
  <2>1. CASE EntryOrder[p] = "bindingStatus"
    BY <1>1, <2>1, StatusIsText
  <2>2. CASE EntryOrder[p] # "bindingStatus"
    <3>1. EntryOrder[p] \in Keys(carrier)
      BY <1>1, <2>2
    <3>2. \A q \in DOMAIN carrier : IsValue(carrier[q][1], carrier[q][2])
      BY DEF IsInput, IsObject
    <3>3. IsValue(EntryOrder[p], Value(carrier, EntryOrder[p]))
      BY <3>1, <3>2, KeyHasPlace
    <3> QED
      BY <1>1, <2>2, <3>3
  <2> QED
    BY <2>1, <2>2
<1>5. "bindingStatus" \in Keys(entry)
  BY <1>1, EntryPlaces DEF Keys
<1> QED
  BY <1>1, <1>2, <1>3, <1>4, <1>5 DEF StoredItem, Stored, IsObject, REQUIRED, entry

Closing(now) == <<<<"bindingStatus", Text("replaced")>>, <<"closedAt", Time(now)>>>>

LEMMA ClosingIsStored ==
  ASSUME NEW now
  PROVE  /\ Stored("carriers", Closing(now))
         /\ Keys(Closing(now)) = {"bindingStatus", "closedAt"}
<1> DEFINE c == Closing(now)
<1>1. /\ DOMAIN c = 1..2 /\ c[1] = <<"bindingStatus", Text("replaced")>> /\ c[2] = <<"closedAt", Time(now)>>
      /\ Len(c) = 2
  BY DEF Closing
<1> HIDE DEF c
<1>2. Bounded(c)
  BY <1>1 DEF Bounded
<1>3. \E k, l \in DOMAIN SCHEMA["carriers"] : SCHEMA["carriers"][k] = "bindingStatus" /\ SCHEMA["carriers"][l] = "closedAt"
  BY DEF SCHEMA
<1>4. InSchema("carriers", c)
  BY <1>1, <1>3 DEF InSchema
<1>5. \A p \in DOMAIN c : IsValue(c[p][1], c[p][2])
  BY <1>1, StatusIsText
<1>6. Keys(c) = {"bindingStatus", "closedAt"}
  BY <1>1 DEF Keys
<1> QED
  BY <1>2, <1>4, <1>5, <1>6 DEF Stored, IsObject, c

LEMMA ClosedIsStored ==
  ASSUME NEW entry, StoredItem("carriers", entry), NEW now
  PROVE  StoredItem("carriers", Close(entry, now))
<1>1. Stored("carriers", Merge(entry, Closing(now)))
  BY MergedMembers, ClosingIsStored DEF StoredItem
<1>2. Keys(entry) \subseteq Keys(Merge(entry, Closing(now)))
  BY MergeKeepsKeys, ClosingIsStored DEF StoredItem, Stored
<1>3. Close(entry, now) \in {entry, Merge(entry, Closing(now))}
  BY DEF Close, Closing
<1> QED
  BY <1>1, <1>2, <1>3 DEF StoredItem

EpcPatch(carrier) == <<<<"epc", Value(carrier, "encodedIdentifier")>>>>

LEMMA EpcIsStored ==
  ASSUME NEW carrier, IsInput("carriers", carrier), "encodedIdentifier" \in Keys(carrier)
  PROVE  Stored("identity", EpcPatch(carrier)) /\ Keys(EpcPatch(carrier)) = {"epc"}
<1> DEFINE c == EpcPatch(carrier)
           v == Value(carrier, "encodedIdentifier")
<1>1. /\ DOMAIN c = 1..1 /\ c[1] = <<"epc", v>>
  BY DEF EpcPatch
<1>2. \A q \in DOMAIN carrier : IsValue(carrier[q][1], carrier[q][2])
  BY DEF IsInput, IsObject
<1>3. IsValue("encodedIdentifier", v)
  BY <1>2, KeyHasPlace
<1> HIDE DEF c, v
<1>4. IsValue("epc", v)
  BY <1>3 DEF IsValue, IsScalar, LIST_ITEMS, NESTED, INTEGER_FIELDS, DECIMAL_FIELDS, BOOLEAN_FIELDS
<1>5. \E k \in DOMAIN SCHEMA["identity"] : SCHEMA["identity"][k] = "epc"
  BY DEF SCHEMA
<1>6. InSchema("identity", c)
  BY <1>1, <1>5 DEF InSchema
<1>7. Bounded(c)
  BY <1>1 DEF Bounded
<1> QED
  BY <1>1, <1>4, <1>6, <1>7 DEF Stored, IsObject, Keys, c

Commissioned(d, carrier) ==
  [d EXCEPT !.carriers = Append([i \in DOMAIN @ |-> Close(@[i], Version(d) + 1)], Entry(carrier)),
            !.identity = Put(@, "epc", Value(carrier, "encodedIdentifier"))]

LEMMA CommissionedIsDocument ==
  ASSUME NEW d, IsDocument(d), NEW carrier \in Carriers
  PROVE  LET e == Commissioned(d, carrier)
             closed == [i \in DOMAIN d.carriers |-> Close(d.carriers[i], Version(d) + 1)]
         IN  /\ IsDocument(e) /\ e.root = d.root
             /\ IsList(closed) /\ e.carriers = Append(closed, Entry(carrier))
             /\ e.identity = Merge(d.identity, EpcPatch(carrier))
             /\ \A name \in {"product", "materialObservations", "components"} : e[name] = d[name]
<1> DEFINE items == d.carriers
           closed == [i \in DOMAIN items |-> Close(items[i], Version(d) + 1)]
           more == Append(closed, Entry(carrier))
           identity == Merge(d.identity, EpcPatch(carrier))
           e == [d EXCEPT !.carriers = more, !.identity = identity]
<1>1. IsList(items) /\ \A i \in DOMAIN items : StoredItem("carriers", items[i])
  BY DEF IsDocument, ARRAYS
<1>2. IsInput("carriers", carrier) /\ "encodedIdentifier" \in Keys(carrier)
  BY Typed
<1>3. Stored("identity", identity)
  BY <1>2, EpcIsStored, MergedMembers DEF IsDocument, OBJECTS
<1>4. e = Commissioned(d, carrier)
  BY DEF Commissioned, Put, EpcPatch
<1> HIDE DEF items
<1>5. DOMAIN items = 1..Len(items) /\ Len(items) \in Nat
  BY <1>1, ListFacts
<1>6. IsList(closed) /\ DOMAIN closed = DOMAIN items
  <2>1. closed = [i \in 1..Len(items) |-> closed[i]]
    BY <1>5
  <2> HIDE DEF closed
  <2>2. IsList(closed)
    BY <1>5, <2>1, IsListOfLength
  <2> QED
    BY <2>2 DEF closed
<1>7. \A i \in DOMAIN closed : StoredItem("carriers", closed[i])
  BY <1>1, ClosedIsStored
<1> HIDE DEF closed
<1>8. IsList(more) /\ \A i \in DOMAIN more : StoredItem("carriers", more[i])
  <2>1. StoredItem("carriers", Entry(carrier))
    BY <1>2, EntryIsStored
  <2>2. /\ IsList(more) /\ DOMAIN more = 1..(Len(closed) + 1)
        /\ \A i \in DOMAIN closed : more[i] = closed[i]
        /\ more[Len(closed) + 1] = Entry(carrier)
    BY <1>6, AppendedList
  <2>3. DOMAIN closed = 1..Len(closed) /\ Len(closed) \in Nat
    BY <1>6, ListFacts
  <2> HIDE DEF more
  <2> QED
    BY <1>7, <2>1, <2>2, <2>3
<1> HIDE DEF more, identity
<1>9. /\ DOMAIN e = DOMAIN d /\ e.root = d.root /\ e.carriers = more /\ e.identity = identity
      /\ \A name \in {"product", "materialObservations", "components"} : e[name] = d[name]
  BY DEF IsDocument, OBJECTS, ARRAYS
<1> HIDE DEF e
<1>10. IsDocument(e)
  BY <1>3, <1>8, <1>9 DEF IsDocument, OBJECTS, ARRAYS
<1> QED
  BY <1>4, <1>6, <1>9, <1>10 DEF more, closed, items, identity

-----------------------------------------------------------------------------
(* The passport is a document, and an XML answer is the passport written.  *)
PassportIsDocument == passport # Nothing => IsDocument(passport) /\ "recordVersion" \in DOMAIN passport.root
BodyIsPassport == reply.body # Nothing => IsDocument(passport) /\ reply.body = to_xml(passport)
DocumentInv == PassportIsDocument /\ BodyIsPassport

(* What a write comes to. *)
Written(d) ==
  /\ passport' = d /\ validate_payload(d)
  /\ reply'.body \in {Nothing, to_xml(d)}
  /\ graph' = graph \cup ClaimsIn(to_rdf(d)) \cup ClaimsIn(json_to_rdf(d))
Unwritten == passport' = passport /\ graph' = graph

LEMMA AnswerIsDocument ==
  ASSUME NEW d, NEW accept
  PROVE  Answer(d, accept).body \in {Nothing, to_xml(d)}
  BY DEF Answer, Reply

LEMMA WriteCases ==
  ASSUME NEW d, NEW accept, Write(d, accept)
  PROVE  Written(d) \/ (Unwritten /\ reply'.body = Nothing)
<1>1. CASE validate_payload(d)
  BY <1>1, AnswerIsDocument DEF Write, Written, Collect
<1>2. CASE ~validate_payload(d)
  BY <1>2 DEF Write, Unwritten, Reply
<1> QED
  BY <1>1, <1>2

LEMMA VersionIsInt ==
  ASSUME NEW d, IsDocument(d), "recordVersion" \in DOMAIN d.root
  PROVE  Version(d) \in Int
<1>1. IsScalar("recordVersion", d.root["recordVersion"])
  BY DEF IsDocument, IsRoot
<1> QED
  BY <1>1 DEF IsScalar, Version, INTEGER_FIELDS, DECIMAL_FIELDS, BOOLEAN_FIELDS

Patched(d, patch) == [d EXCEPT !.product = Merge(@, patch)]
Observed(d, o) == [d EXCEPT !.materialObservations = Append(@, o)]
Updated(d, n) == [d EXCEPT !.root = Stamped(@, n)]

(* What a step does to the passport: an operation writes, or nothing does. *)
CreateStep == passport = Nothing /\ \E body \in Bodies : Written(Created(body)) /\ ordered' = InOrder(body)
HandOverStep == reply.body # Nothing /\ Written(Created(from_xml(reply.body))) /\ ordered' = ordered
PatchStep ==
  passport # Nothing /\ \E patch \in ProductPatches :
    /\ Written(Updated(Patched(passport, patch), Version(passport) + 1))
    /\ ordered' = (ordered /\ InSequence("product", passport'.product))
ObserveStep ==
  passport # Nothing /\ \E o \in Observations :
    /\ \A p \in Items(passport.materialObservations) : Value(p, "observationId") # Value(o, "observationId")
    /\ Written(Updated(Observed(passport, o), Version(passport) + 1))
    /\ ordered' = (ordered /\ InSequence("materialObservations", o))
CommissionStep ==
  passport # Nothing /\ \E carrier \in Carriers :
    Written(Updated(Commissioned(passport, carrier), Version(passport) + 1)) /\ ordered' = ordered
IdleStep ==
  /\ Unwritten /\ (passport = Nothing \/ (ordered' => ordered))
  /\ (reply'.body = Nothing \/ reply'.body = reply.body \/ (passport # Nothing /\ reply'.body = to_xml(passport)))

LEMMA StepCases ==
  ASSUME [Next]_vars
  PROVE  CreateStep \/ HandOverStep \/ PatchStep \/ ObserveStep \/ CommissionStep \/ IdleStep
<1>1. ASSUME NEW body \in Bodies, NEW accept, Create(body, accept)
      PROVE  CreateStep \/ IdleStep
  <2>1. passport = Nothing /\ Write(Created(body), accept) /\ ordered' = InOrder(body)
    BY <1>1 DEF Create
  <2> QED
    BY <2>1, WriteCases DEF CreateStep, IdleStep
<1>2. ASSUME NEW accept, HandOver(accept)
      PROVE  HandOverStep \/ IdleStep
  <2>1. reply.body # Nothing /\ Write(Created(from_xml(reply.body)), accept) /\ ordered' = ordered
    BY <1>2 DEF HandOver
  <2> QED
    BY <2>1, WriteCases DEF HandOverStep, IdleStep
<1>3. ASSUME NEW patch \in ProductPatches, NEW accept, PatchProduct(patch, accept)
      PROVE  PatchStep \/ IdleStep
  <2>1. /\ passport # Nothing /\ Write(Updated(Patched(passport, patch), Version(passport) + 1), accept)
        /\ ordered' = (ordered /\ InSequence("product", passport'.product))
    BY <1>3 DEF PatchProduct, Update, Patched, Updated
  <2> QED
    BY <2>1, WriteCases DEF PatchStep, IdleStep
<1>4. ASSUME NEW o \in Observations, Observe(o)
      PROVE  ObserveStep \/ IdleStep
  <2>1. /\ passport # Nothing /\ Write(Updated(Observed(passport, o), Version(passport) + 1), "json")
        /\ \A p \in Items(passport.materialObservations) : Value(p, "observationId") # Value(o, "observationId")
        /\ ordered' = (ordered /\ InSequence("materialObservations", o))
    BY <1>4 DEF Observe, Update, Observed, Updated
  <2> QED
    BY <2>1, WriteCases DEF ObserveStep, IdleStep
<1>5. ASSUME NEW carrier \in Carriers, Commission(carrier)
      PROVE  CommissionStep \/ IdleStep
  <2>1. /\ passport # Nothing /\ ordered' = ordered
        /\ Write(Updated(Commissioned(passport, carrier), Version(passport) + 1), "json")
    BY <1>5 DEF Commission, Update, Commissioned, Updated
  <2> QED
    BY <2>1, WriteCases DEF CommissionStep, IdleStep
<1>6. ASSUME NEW accept, Get(accept) PROVE IdleStep
  BY <1>6, AnswerIsDocument DEF Get, IdleStep, Unwritten
<1>7. CASE UNCHANGED vars
  BY <1>7 DEF vars, IdleStep, Unwritten
<1>8. CASE Next
  <2>1. CASE \E o \in Observations : Observe(o)
    BY <1>4, <2>1
  <2>2. CASE \E carrier \in Carriers : Commission(carrier)
    BY <1>5, <2>2
  <2>3. ASSUME NEW accept \in Formats,
               \/ \E body \in Bodies : Create(body, accept)
               \/ \E patch \in ProductPatches : PatchProduct(patch, accept)
               \/ Get(accept) \/ HandOver(accept)
        PROVE  CreateStep \/ HandOverStep \/ PatchStep \/ IdleStep
    BY <1>1, <1>2, <1>3, <1>6, <2>3
  <2> QED
    BY <1>8, <2>1, <2>2, <2>3 DEF Next
<1> QED
  BY <1>7, <1>8

LEMMA UpdatedIsDocument ==
  ASSUME NEW d, IsDocument(d), NEW e, IsDocument(e), e.root = d.root, "recordVersion" \in DOMAIN d.root
  PROVE  /\ IsDocument(Updated(e, Version(d) + 1)) /\ SameContent(e, Updated(e, Version(d) + 1))
         /\ "recordVersion" \in DOMAIN Updated(e, Version(d) + 1).root
<1>1. Version(d) + 1 \in Int
  BY VersionIsInt
<1> QED
  BY <1>1, StampedIsDocument DEF Updated

(* Every write leaves a document. *)
LEMMA WrittenDocument ==
  ASSUME NEW d, IsDocument(d), "recordVersion" \in DOMAIN d.root, Written(d)
  PROVE  DocumentInv'
  BY DEF Written, DocumentInv, PassportIsDocument, BodyIsPassport

LEMMA DocumentStep ==
  ASSUME DocumentInv, [Next]_vars
  PROVE  DocumentInv'
<1>1. CASE CreateStep
  BY <1>1, BodyIsDocument, CreatedIsDocument, WrittenDocument DEF CreateStep
<1>2. CASE HandOverStep
  BY <1>2, DocumentIsRead, CreatedIsDocument, WrittenDocument DEF HandOverStep, DocumentInv, BodyIsPassport
<1>3. CASE PatchStep
  BY <1>3, PatchedIsDocument, UpdatedIsDocument, WrittenDocument DEF PatchStep, Patched, DocumentInv, PassportIsDocument
<1>4. CASE ObserveStep
  BY <1>4, ObservedIsDocument, UpdatedIsDocument, WrittenDocument DEF ObserveStep, Observed, DocumentInv, PassportIsDocument
<1>5. CASE CommissionStep
  BY <1>5, CommissionedIsDocument, UpdatedIsDocument, WrittenDocument DEF CommissionStep, DocumentInv, PassportIsDocument
<1>6. CASE IdleStep
  BY <1>6 DEF IdleStep, Unwritten, DocumentInv, PassportIsDocument, BodyIsPassport
<1> QED
  BY <1>1, <1>2, <1>3, <1>4, <1>5, <1>6, StepCases

(* The service only ever holds documents of the schema, and whatever it    *)
(* answers in XML is the passport it holds.                                *)
THEOREM PassportsAreDocuments == Spec => []DocumentInv
<1>1. Init => DocumentInv
  BY DEF Init, DocumentInv, PassportIsDocument, BodyIsPassport, Reply
<1>2. DocumentInv /\ [Next]_vars => DocumentInv'
  BY DocumentStep
<1> QED
  BY <1>1, <1>2, PTL DEF Spec

(* The snapshot is the only value in the graph of a document. *)
LEMMA OneSnapshot ==
  ASSUME NEW d
  PROVE  rdf_to_json(json_to_rdf(d)) = {canonicalise(d)}
<1> DEFINE snapshot == <<d.root["dppId"], "value", canonicalise(d)>>
<1>1. \A garment, o : \A t \in Claims(garment, o) : t[2] # "value"
  BY DEF Claims, ClaimsAbout, PREDICATES
<1>2. \A t \in About(d) : t[2] # "value"
  BY <1>1 DEF About
<1>3. json_to_rdf(d) = About(d) \cup {snapshot}
  BY DEF json_to_rdf
<1>4. {u \in json_to_rdf(d) : u[2] = "value"} = {snapshot}
  BY <1>2, <1>3
<1>5. snapshot[3] = canonicalise(d)
  OBVIOUS
<1> HIDE DEF snapshot
<1> QED
  BY <1>4, <1>5 DEF rdf_to_json

(* What an operator reads from the XML it was given is the passport of the *)
(* one before, after any number of hand-overs and operations between.      *)
THEOREM ExchangesAreLossless == Spec => []ExchangeIsLossless
<1>1. DocumentInv => ExchangeIsLossless
  BY DocumentIsRead, SameIsCanonical, OneSnapshot DEF DocumentInv, BodyIsPassport, ExchangeIsLossless
<1> QED
  BY <1>1, PassportsAreDocuments, PTL

-----------------------------------------------------------------------------
(* Whose claims a graph has.                                               *)

LEMMA DocumentIsSomething ==
  ASSUME NEW d, IsDocument(d)
  PROVE  d # Nothing
  BY DEF IsDocument, Nothing

(* A claim hangs on the identifier of the observation that made it. *)
Attributed(o, t) == t[1] = Value(o, "observationId") /\ Claimed(o, t)
Attribution ==
  /\ passport = Nothing => graph = {}
  /\ passport # Nothing =>
       LET all == passport.materialObservations
       IN  IdsAreUnique(all) /\ \A t \in graph : \E i \in DOMAIN all : Attributed(all[i], t)

LEMMA ClaimIsAttributed ==
  ASSUME NEW o, StoredItem("materialObservations", o), NEW garment,
         NEW t \in Claims(garment, o), t[2] # "hasObservation"
  PROVE  Attributed(o, t)
<1>1. PICK p \in DOMAIN o : /\ o[p][1] \in DOMAIN PREDICATES
                            /\ t = <<Value(o, "observationId"), PREDICATES[o[p][1]], o[p][2]>>
  BY DEF Claims, ClaimsAbout
<1>2. o[p][1] \in Keys(o) /\ Value(o, o[p][1]) = o[p][2]
  BY ValueAt DEF StoredItem, Stored, IsObject
<1> QED
  BY <1>1, <1>2 DEF Attributed, Claimed

LEMMA DocumentClaims ==
  ASSUME NEW d, IsDocument(d), NEW t \in ClaimsIn(to_rdf(d)) \cup ClaimsIn(json_to_rdf(d))
  PROVE  \E i \in DOMAIN d.materialObservations : Attributed(d.materialObservations[i], t)
<1>1. t[2] \notin {"hasCarrierBinding", "bindingStatus", "hasComponent", "componentType", "value",
                   "recordVersion", "describes", "articleClass", "hasObservation"}
  BY DEF ClaimsIn, PREDICATES
<1>2. t \in About(d)
  <2>1. CASE t \in to_rdf(d)
    <3> DEFINE bindings == {{<<d.root["dppId"], "hasCarrierBinding", Value(c, "carrierId")>>,
                                   <<Value(c, "carrierId"), "bindingStatus", Value(c, "bindingStatus")>>} :
                                   c \in Items(d.carriers)}
               parts == {{<<Garment(d), "hasComponent", Value(c, "componentId")>>,
                                <<Value(c, "componentId"), "componentType", Value(c, "componentType")>>} :
                                c \in Items(d.components)}
    <3>1. \A binding \in UNION bindings : binding[2] \in {"hasCarrierBinding", "bindingStatus"}
      OBVIOUS
    <3>2. \A part \in UNION parts : part[2] \in {"hasComponent", "componentType"}
      OBVIOUS
    <3>3. to_rdf(d) = About(d) \cup UNION (bindings \cup parts)
      BY DEF to_rdf
    <3> HIDE DEF bindings, parts
    <3> QED
      BY <1>1, <2>1, <3>1, <3>2, <3>3
  <2>2. CASE t \in json_to_rdf(d)
    BY <1>1, <2>2 DEF json_to_rdf
  <2> QED
    BY <2>1, <2>2 DEF ClaimsIn
<1>3. PICK o \in Items(d.materialObservations) : t \in Claims(Garment(d), o)
  BY <1>1, <1>2 DEF About
<1>4. PICK i \in DOMAIN d.materialObservations : o = d.materialObservations[i]
  BY DEF Items
<1>5. StoredItem("materialObservations", o)
  BY <1>4 DEF IsDocument, ARRAYS
<1> QED
  BY <1>1, <1>3, <1>4, <1>5, ClaimIsAttributed

LEMMA AlikeIsReflexive == \A m : Alike(m, m)
  BY DEF Alike

(* Alike observations have one identifier and make the same claims.        *)
LEMMA AlikeClaims ==
  ASSUME NEW m, StoredItem("materialObservations", m), NEW n, StoredItem("materialObservations", n), Alike(m, n)
  PROVE  /\ Value(n, "observationId") = Value(m, "observationId")
         /\ \A t : Attributed(m, t) => Attributed(n, t)
<1>1. Keys(n) = Keys(m)
  BY AlikeIsCanonical
<1>2. ASSUME NEW key \in Keys(m)
      PROVE  \E p \in DOMAIN m : /\ m[p][1] = key /\ n[p][1] = key /\ p \in DOMAIN n
                                 /\ Value(m, key) = m[p][2] /\ Value(n, key) = n[p][2]
  <2>1. PICK p \in DOMAIN m : m[p][1] = key
    BY DEF Keys
  <2>2. n[p][1] = key /\ p \in DOMAIN n
    BY <2>1 DEF Alike
  <2>3. Value(m, key) = m[p][2]
    BY <2>1, ValueAt DEF StoredItem, Stored, IsObject
  <2>4. Value(n, key) = n[p][2]
    BY <2>2, ValueAt DEF StoredItem, Stored, IsObject
  <2> QED
    BY <2>1, <2>2, <2>3, <2>4
<1>3. Value(n, "observationId") = Value(m, "observationId")
  <2>1. "observationId" \in Keys(m)
    BY DEF StoredItem, REQUIRED
  <2>2. Textual("observationId")
    BY DEF Textual, INTEGER_FIELDS, DECIMAL_FIELDS, BOOLEAN_FIELDS, LIST_ITEMS, NESTED
  <2>3. PICK p \in DOMAIN m : /\ m[p][1] = "observationId" /\ n[p][1] = "observationId"
                              /\ Value(m, "observationId") = m[p][2] /\ Value(n, "observationId") = n[p][2]
    BY <1>2, <2>1
  <2> QED
    BY <2>2, <2>3 DEF Alike
<1>4. ASSUME NEW key \in Keys(m) \cap DOMAIN PREDICATES
      PROVE  CanonicalScalar(Value(n, key)) = CanonicalScalar(Value(m, key))
  <2>1. PICK p \in DOMAIN m : /\ m[p][1] = key /\ n[p][1] = key /\ p \in DOMAIN n
                              /\ Value(m, key) = m[p][2] /\ Value(n, key) = n[p][2]
    BY <1>2
  <2>2. key \notin DOMAIN LIST_ITEMS /\ key \notin NESTED
    BY DEF PREDICATES, LIST_ITEMS, NESTED
  <2>3. \A v : IsValue(key, v) => CanonicalValue(v) = CanonicalScalar(v)
    BY <2>2, ScalarIsRead DEF IsValue, CanonicalValue
  <2>4. IsValue(key, m[p][2]) /\ IsValue(key, n[p][2])
    BY <2>1 DEF StoredItem, Stored, IsObject
  <2>5. CanonicalValue(n[p][2]) = CanonicalValue(m[p][2])
    BY DEF Alike
  <2> QED
    BY <2>1, <2>3, <2>4, <2>5
<1>5. ASSUME NEW t, Claimed(m, t) PROVE Claimed(n, t)
  <2>1. PICK key \in Keys(m) \cap DOMAIN PREDICATES :
          PREDICATES[key] = t[2] /\ CanonicalScalar(Value(m, key)) = CanonicalScalar(t[3])
    BY <1>5 DEF Claimed
  <2> QED
    BY <1>1, <1>4, <2>1 DEF Claimed
<1> QED
  BY <1>3, <1>5 DEF Attributed

(* What is written keeps the observations there were, in their places.     *)
Keeps(d, e) ==
  LET old == d.materialObservations
      all == e.materialObservations
  IN  DOMAIN old \subseteq DOMAIN all /\ \A i \in DOMAIN old : Alike(old[i], all[i])

LEMMA WrittenClaims ==
  ASSUME NEW d, IsDocument(d), Written(d), IdsAreUnique(d.materialObservations),
         Attribution, passport # Nothing => IsDocument(passport) /\ Keeps(passport, d)
  PROVE  Attribution'
<1> DEFINE all == d.materialObservations
<1>1. passport' = d /\ d # Nothing /\ graph' = graph \cup ClaimsIn(to_rdf(d)) \cup ClaimsIn(json_to_rdf(d))
  BY DocumentIsSomething DEF Written
<1>2. ASSUME NEW t \in graph' PROVE \E i \in DOMAIN all : Attributed(all[i], t)
  <2>1. CASE t \in ClaimsIn(to_rdf(d)) \cup ClaimsIn(json_to_rdf(d))
    BY <2>1, DocumentClaims
  <2>2. CASE t \in graph
    <3> DEFINE old == passport.materialObservations
    <3>1. passport # Nothing
      BY <2>2 DEF Attribution
    <3>2. PICK i \in DOMAIN old : Attributed(old[i], t)
      BY <2>2, <3>1 DEF Attribution
    <3>3. i \in DOMAIN all /\ Alike(old[i], all[i])
      BY <3>1 DEF Keeps
    <3>4. StoredItem("materialObservations", old[i]) /\ StoredItem("materialObservations", all[i])
      BY <3>1, <3>3 DEF IsDocument, ARRAYS
    <3> QED
      BY <3>2, <3>3, <3>4, AlikeClaims
  <2> QED
    BY <1>1, <2>1, <2>2
<1> QED
  BY <1>1, <1>2 DEF Attribution

(* A new observation has an identifier of its own. *)
LEMMA NewIdIsUnique ==
  ASSUME NEW all, IsList(all), IdsAreUnique(all), NEW o,
         \A p \in Items(all) : Value(p, "observationId") # Value(o, "observationId")
  PROVE  IdsAreUnique(Append(all, o))
<1>1. /\ DOMAIN all = 1..Len(all) /\ Len(all) \in Nat
      /\ DOMAIN Append(all, o) = 1..(Len(all) + 1)
      /\ \A i \in DOMAIN all : Append(all, o)[i] = all[i]
      /\ Append(all, o)[Len(all) + 1] = o
  BY ListFacts, AppendedList
<1> DEFINE more == Append(all, o)
<1> HIDE DEF more
<1>2. \A i \in DOMAIN more : i \in DOMAIN all \/ (i = Len(all) + 1 /\ more[i] = o)
  BY <1>1 DEF more
<1> QED
  BY <1>1, <1>2 DEF IdsAreUnique, Items, more

LEMMA AttributionStep ==
  ASSUME DocumentInv, Attribution, [Next]_vars
  PROVE  Attribution'
<1> DEFINE all == passport.materialObservations
<1>1. passport # Nothing => /\ IsDocument(passport) /\ "recordVersion" \in DOMAIN passport.root
                            /\ IsList(all) /\ IdsAreUnique(all)
  BY DEF DocumentInv, PassportIsDocument, Attribution, IsDocument, ARRAYS
<1>2. \A d, e : e.materialObservations = d.materialObservations => Keeps(d, e)
  BY AlikeIsReflexive DEF Keeps
<1>3. \A d, e : SameContent(d, e) => e.materialObservations = d.materialObservations
  BY DEF SameContent, ARRAYS
<1>4. CASE CreateStep
  <2>1. PICK body \in Bodies : Written(Created(body))
    BY <1>4 DEF CreateStep
  <2>2. IsDocument(Created(body)) /\ Created(body).materialObservations = body.materialObservations
    BY <1>3, BodyIsDocument, CreatedIsDocument
  <2> QED
    BY <1>4, <2>1, <2>2, BodyIsDocument, WrittenClaims DEF CreateStep
<1>5. CASE HandOverStep
  <2> DEFINE e == from_xml(reply.body)
  <2>1. reply.body = to_xml(passport) /\ IsDocument(passport) /\ passport # Nothing
    BY <1>5, DocumentIsSomething DEF HandOverStep, DocumentInv, BodyIsPassport
  <2>2. SameItems(all, e.materialObservations) /\ IsDocument(e)
    BY <2>1, DocumentIsRead DEF SameDocument, ARRAYS
  <2> HIDE DEF e
  <2>3. IsDocument(Created(e)) /\ Created(e).materialObservations = e.materialObservations
    BY <1>3, <2>2, CreatedIsDocument
  <2>4. Keeps(passport, Created(e))
    BY <2>2, <2>3 DEF Keeps, SameItems
  <2>5. \A i \in DOMAIN all : Value(e.materialObservations[i], "observationId") = Value(all[i], "observationId")
    <3>1. ASSUME NEW i \in DOMAIN all
          PROVE  StoredItem("materialObservations", all[i]) /\ StoredItem("materialObservations", e.materialObservations[i])
      BY <2>1, <2>2 DEF IsDocument, ARRAYS, SameItems
    <3> QED
      BY <2>2, <3>1, AlikeClaims DEF SameItems
  <2>6. IdsAreUnique(e.materialObservations)
    BY <1>1, <2>1, <2>2, <2>5 DEF IdsAreUnique, SameItems
  <2> QED
    BY <1>5, <2>1, <2>3, <2>4, <2>6, WrittenClaims DEF HandOverStep, e
<1>6. CASE PatchStep
  <2>1. PICK patch \in ProductPatches : Written(Updated(Patched(passport, patch), Version(passport) + 1))
    BY <1>6 DEF PatchStep
  <2> DEFINE e == Patched(passport, patch)
             f == Updated(e, Version(passport) + 1)
  <2>2. IsDocument(passport) /\ IsDocument(e) /\ e.root = passport.root /\ e.materialObservations = all
    BY <1>1, <1>6, PatchedIsDocument DEF Patched, PatchStep, ARRAYS
  <2> HIDE DEF e
  <2>3. IsDocument(f) /\ f.materialObservations = all
    BY <1>1, <1>3, <1>6, <2>2, UpdatedIsDocument DEF PatchStep
  <2> HIDE DEF f
  <2> QED
    BY <1>1, <1>2, <1>6, <2>1, <2>2, <2>3, WrittenClaims DEF PatchStep, f, e
<1>7. CASE ObserveStep
  <2>1. PICK o \in Observations :
          /\ \A p \in Items(all) : Value(p, "observationId") # Value(o, "observationId")
          /\ Written(Updated(Observed(passport, o), Version(passport) + 1))
    BY <1>7 DEF ObserveStep
  <2> DEFINE e == Observed(passport, o)
             f == Updated(e, Version(passport) + 1)
  <2>2. IsDocument(passport) /\ IsDocument(e) /\ e.root = passport.root /\ e.materialObservations = Append(all, o)
    BY <1>1, <1>7, ObservedIsDocument DEF Observed, ObserveStep
  <2> HIDE DEF e
  <2>3. IsDocument(f) /\ f.materialObservations = Append(all, o)
    BY <1>1, <1>3, <1>7, <2>2, UpdatedIsDocument DEF ObserveStep
  <2> HIDE DEF f
  <2>4. Keeps(passport, f)
    <3>1. DOMAIN all \subseteq DOMAIN Append(all, o) /\ \A i \in DOMAIN all : Append(all, o)[i] = all[i]
      BY <1>1, <1>7, ListFacts, AppendedList DEF ObserveStep
    <3> QED
      BY <2>3, <3>1, AlikeIsReflexive DEF Keeps
  <2>5. IdsAreUnique(f.materialObservations)
    BY <1>1, <1>7, <2>1, <2>3, NewIdIsUnique DEF ObserveStep
  <2> QED
    BY <2>1, <2>2, <2>3, <2>4, <2>5, WrittenClaims DEF f, e
<1>8. CASE CommissionStep
  <2>1. PICK carrier \in Carriers : Written(Updated(Commissioned(passport, carrier), Version(passport) + 1))
    BY <1>8 DEF CommissionStep
  <2> DEFINE e == Commissioned(passport, carrier)
             f == Updated(e, Version(passport) + 1)
  <2>2. IsDocument(passport) /\ IsDocument(e) /\ e.root = passport.root /\ e.materialObservations = all
    BY <1>1, <1>8, CommissionedIsDocument DEF CommissionStep
  <2> HIDE DEF e
  <2>3. IsDocument(f) /\ f.materialObservations = all
    BY <1>1, <1>3, <1>8, <2>2, UpdatedIsDocument DEF CommissionStep
  <2> HIDE DEF f
  <2> QED
    BY <1>1, <1>2, <1>8, <2>1, <2>2, <2>3, WrittenClaims DEF CommissionStep, f, e
<1>9. CASE IdleStep
  BY <1>9 DEF IdleStep, Unwritten, Attribution
<1> QED
  BY <1>4, <1>5, <1>6, <1>7, <1>8, <1>9, StepCases

(* In the graph a partner puts together no claim is attributed to an       *)
(* observation that did not make it, over any number of versions, appended *)
(* observations and hand-overs: identifiers stay apart, observations are   *)
(* kept as they were, and the XML exchange changes no more than the form   *)
(* of their numbers.                                                       *)
THEOREM ClaimsAreSeparate == Spec => []ClaimsStaySeparate
<1>1. Init => DocumentInv /\ Attribution
  BY DEF Init, DocumentInv, PassportIsDocument, BodyIsPassport, Reply, Attribution
<1>2. DocumentInv /\ Attribution /\ [Next]_vars => (DocumentInv /\ Attribution)'
  BY DocumentStep, AttributionStep
<1>3. Attribution => ClaimsStaySeparate
  BY DEF Attribution, Attributed, IdsAreUnique, ClaimsStaySeparate, Items
<1> QED
  BY <1>1, <1>2, <1>3, PTL DEF Spec

-----------------------------------------------------------------------------
(* Sums of integers.                                                       *)

IsSum(f, weights, n) ==
  /\ f = [k \in 0..n |-> f[k]]
  /\ \A k \in 0..n : f[k] \in Int /\ f[k] = IF k = 0 THEN 0 ELSE f[k - 1] + weights[k]

LEMMA SumExists ==
  ASSUME NEW n \in Nat, NEW weights \in [1..n -> Int]
  PROVE  \E f : IsSum(f, weights, n)
<1> DEFINE T == {m \in 0..n : ~\E f : IsSum(f, weights, m)}
<1>1. SUFFICES ASSUME ~\E f : IsSum(f, weights, n) PROVE FALSE
  OBVIOUS
<1>2. PICK m \in T : \A k \in T : m <= k
  <2>1. T \in SUBSET Nat /\ n \in T
    BY <1>1
  <2> HIDE DEF T
  <2> QED
    BY <2>1, LeastExists
<1>3. m # 0
  <2> DEFINE f == [k \in 0..0 |-> 0]
  <2>1. f = [k \in 0..0 |-> f[k]] /\ \A k \in 0..0 : f[k] = 0 /\ k = 0
    OBVIOUS
  <2> HIDE DEF f
  <2>2. IsSum(f, weights, 0)
    BY <2>1 DEF IsSum
  <2> QED
    BY <1>2, <2>2
<1>4. m \in 1..n /\ m - 1 \in 0..n /\ m - 1 \notin T
  BY <1>2, <1>3
<1>5. PICK f : IsSum(f, weights, m - 1)
  BY <1>4
<1>6. m \in Nat /\ ~\E g : IsSum(g, weights, m)
  BY <1>2
<1> HIDE DEF T
<1> DEFINE g == [k \in 0..m |-> IF k = m THEN f[m - 1] + weights[m] ELSE f[k]]
<1>7. weights[m] \in Int /\ m - 1 \in 0..(m - 1)
  BY <1>4, <1>6
<1>8. \A k \in 0..(m - 1) : f[k] \in Int /\ f[k] = IF k = 0 THEN 0 ELSE f[k - 1] + weights[k]
  BY <1>5 DEF IsSum
<1>9. g = [k \in 0..m |-> g[k]]
  OBVIOUS
<1>10. g[m] = f[m - 1] + weights[m] /\ \A k \in 0..(m - 1) : g[k] = f[k]
  BY <1>4, <1>6
<1> HIDE DEF g
<1>11. \A k \in 0..(m - 1) : k # 0 => k - 1 \in 0..(m - 1)
  BY <1>6
<1>12. \A k \in 0..m : k = m \/ k \in 0..(m - 1)
  BY <1>6
<1>13. ASSUME NEW k \in 0..m PROVE g[k] \in Int /\ g[k] = IF k = 0 THEN 0 ELSE g[k - 1] + weights[k]
  <2>1. CASE k = m
    BY <1>3, <1>7, <1>8, <1>10, <2>1
  <2>2. CASE k \in 0..(m - 1)
    BY <1>8, <1>10, <1>11, <2>2
  <2> QED
    BY <1>12, <2>1, <2>2
<1>14. IsSum(g, weights, m)
  BY <1>9, <1>13 DEF IsSum
<1> QED
  BY <1>6, <1>14

(* Sums over lists that begin alike agree as far as that goes.             *)
LEMMA SumsAgree ==
  ASSUME NEW n \in Nat, NEW m \in Nat, n <= m, NEW f, NEW g, NEW weights, NEW more,
         IsSum(f, weights, n), IsSum(g, more, m), \A k \in 1..n : more[k] = weights[k]
  PROVE  f[n] = g[n]
<1> DEFINE T == {k \in 0..n : f[k] # g[k]}
<1>1. SUFFICES ASSUME T # {} PROVE FALSE
  OBVIOUS
<1>2. PICK k \in T : \A l \in T : k <= l
  <2>1. T \in SUBSET Nat
    OBVIOUS
  <2> HIDE DEF T
  <2> QED
    BY <1>1, <2>1, LeastExists
<1>3. k # 0
  BY <1>2 DEF IsSum
<1>4. k - 1 \in 0..n /\ k - 1 \notin T /\ k \in 1..n /\ k \in 0..m
  BY <1>2, <1>3
<1>5. f[k] = f[k - 1] + weights[k] /\ g[k] = g[k - 1] + more[k]
  BY <1>3, <1>4 DEF IsSum
<1> QED
  BY <1>2, <1>4, <1>5

LEMMA SumIsReached ==
  ASSUME NEW n \in Nat, NEW weights \in [1..n -> Int]
  PROVE  \E f : IsSum(f, weights, n) /\ Sum(weights) = f[n]
<1>1. Len(weights) = n
  <2>1. weights = [i \in 1..n |-> weights[i]]
    OBVIOUS
  <2> QED
    BY <2>1, IsListOfLength
<1> DEFINE sum == CHOOSE f : f = [k \in 0..n |-> IF k = 0 THEN 0 ELSE f[k - 1] + weights[k]]
<1>2. Sum(weights) = sum[n]
  BY <1>1 DEF Sum
<1>3. \E f : f = [k \in 0..n |-> IF k = 0 THEN 0 ELSE f[k - 1] + weights[k]]
  <2>1. PICK f : IsSum(f, weights, n)
    BY SumExists
  <2>2. f = [k \in 0..n |-> IF k = 0 THEN 0 ELSE f[k - 1] + weights[k]]
    BY <2>1 DEF IsSum
  <2> QED
    BY <2>2
<1>4. sum = [k \in 0..n |-> IF k = 0 THEN 0 ELSE sum[k - 1] + weights[k]]
  BY <1>3
<1> HIDE DEF sum
<1>5. \A k \in 0..n : sum[k] \in Int
  <2> DEFINE T == {k \in 0..n : sum[k] \notin Int}
  <2>1. SUFFICES ASSUME T # {} PROVE FALSE
    OBVIOUS
  <2>2. PICK k \in T : \A l \in T : k <= l
    <3>1. T \in SUBSET Nat
      OBVIOUS
    <3> HIDE DEF T
    <3> QED
      BY <2>1, <3>1, LeastExists
  <2>3. k # 0
    BY <1>4, <2>2
  <2>4. k - 1 \in 0..n /\ k - 1 \notin T /\ k \in 1..n
    BY <2>2, <2>3
  <2>5. sum[k] = sum[k - 1] + weights[k]
    BY <1>4, <2>3, <2>4
  <2> QED
    BY <2>2, <2>4, <2>5
<1>6. IsSum(sum, weights, n)
  BY <1>4, <1>5 DEF IsSum
<1> QED
  BY <1>2, <1>6

(* The sum of a longer list. *)
LEMMA SumOfMore ==
  ASSUME NEW n \in Nat, NEW weights \in [1..n -> Int], NEW more \in [1..(n + 1) -> Int],
         \A k \in 1..n : more[k] = weights[k]
  PROVE  Sum(weights) \in Int /\ Sum(more) = Sum(weights) + more[n + 1]
<1>1. PICK f : IsSum(f, weights, n) /\ Sum(weights) = f[n]
  BY SumIsReached
<1>2. PICK g : IsSum(g, more, n + 1) /\ Sum(more) = g[n + 1]
  <2>1. n + 1 \in Nat
    OBVIOUS
  <2> QED
    BY <2>1, SumIsReached
<1>3. f[n] = g[n]
  BY <1>1, <1>2, SumsAgree
<1>4. g[n + 1] = g[n] + more[n + 1] /\ f[n] \in Int
  <2>1. n + 1 \in 0..(n + 1) /\ n + 1 # 0 /\ (n + 1) - 1 = n /\ n \in 0..n
    OBVIOUS
  <2>2. g[n + 1] = g[(n + 1) - 1] + more[n + 1]
    BY <1>2, <2>1 DEF IsSum
  <2>3. f[n] \in Int
    BY <1>1, <2>1 DEF IsSum
  <2> QED
    BY <2>1, <2>2, <2>3
<1> QED
  BY <1>1, <1>2, <1>3, <1>4

-----------------------------------------------------------------------------
(* Occasions.                                                              *)
IsObservations(all) == IsList(all) /\ \A i \in DOMAIN all : StoredItem("materialObservations", all[i])

LEMMA PercentageIsInt ==
  ASSUME NEW o, StoredItem("materialObservations", o)
  PROVE  Percentage(o) \in Int
<1>1. CASE "percentage" \in Keys(o)
  <2>1. PICK p \in DOMAIN o : o[p][1] = "percentage" /\ Value(o, "percentage") = o[p][2]
    BY <1>1, KeyHasPlace
  <2>2. IsValue("percentage", o[p][2])
    BY <2>1 DEF StoredItem, Stored, IsObject
  <2>3. IsScalar("percentage", o[p][2])
    BY <2>2 DEF IsValue, LIST_ITEMS, NESTED
  <2>4. o[p][2].number \in Int
    BY <2>3 DEF IsScalar, INTEGER_FIELDS, DECIMAL_FIELDS, BOOLEAN_FIELDS
  <2> QED
    BY <1>1, <2>1, <2>4 DEF Percentage, Or
<1>2. CASE "percentage" \notin Keys(o)
  BY <1>2 DEF Percentage, Or, Number
<1> QED
  BY <1>1, <1>2

(* An occasion is told by the members that are there: none of them is "".  *)
LEMMA OccasionIsOwn ==
  ASSUME NEW o, StoredItem("materialObservations", o), NEW p, StoredItem("materialObservations", p)
  PROVE  OfOwnOccasion(o, p) <=> SuppliedMass(p) /\ Occasion(p) = Occasion(o)
<1> DEFINE keys == {"sourceOrganisationId", "sourceSystemId", "method", "observedAt"}
<1>1. \A m : StoredItem("materialObservations", m) => \A key \in Keys(m) : Value(m, key) # Text("")
  <2> SUFFICES ASSUME NEW m, StoredItem("materialObservations", m), NEW key \in Keys(m)
               PROVE  Value(m, key) # Text("")
    OBVIOUS
  <2>1. PICK q \in DOMAIN m : Value(m, key) = m[q][2]
    BY KeyHasPlace
  <2> QED
    BY <2>1 DEF StoredItem
<1>2. Occasion(p) = Occasion(o) <=> \A key \in keys : Or(p, key, Text("")) = Or(o, key, Text(""))
  BY DEF Occasion
<1>3. ASSUME NEW key
      PROVE  Or(p, key, Text("")) = Or(o, key, Text("")) <=>
             ((key \in Keys(o) \/ key \in Keys(p)) => (key \in Keys(o) \cap Keys(p) /\ Value(o, key) = Value(p, key)))
  BY <1>1 DEF Or
<1> QED
  BY <1>2, <1>3 DEF OfOwnOccasion

Weights(all, S) == [i \in DOMAIN all |-> IF i \in S THEN Percentage(all[i]) ELSE 0]

LEMMA WeightsFit ==
  ASSUME NEW all, IsObservations(all), NEW S
  PROVE  Weights(all, S) \in [1..Len(all) -> Int] /\ Len(all) \in Nat
<1>1. DOMAIN all = 1..Len(all) /\ Len(all) \in Nat
  BY ListFacts DEF IsObservations
<1>2. \A i \in DOMAIN all : Percentage(all[i]) \in Int
  BY PercentageIsInt DEF IsObservations
<1> QED
  BY <1>1, <1>2 DEF Weights

LEMMA OneMore ==
  ASSUME NEW all, IsObservations(all), NEW o, StoredItem("materialObservations", o)
  PROVE  /\ IsObservations(Append(all, o)) /\ Len(Append(all, o)) = Len(all) + 1
         /\ DOMAIN all = 1..Len(all) /\ DOMAIN Append(all, o) = 1..(Len(all) + 1) /\ Len(all) \in Nat
         /\ \A i \in DOMAIN all : Append(all, o)[i] = all[i]
         /\ Append(all, o)[Len(all) + 1] = o
<1>1. /\ IsList(Append(all, o)) /\ Len(Append(all, o)) = Len(all) + 1
      /\ DOMAIN all = 1..Len(all) /\ DOMAIN Append(all, o) = 1..(Len(all) + 1) /\ Len(all) \in Nat
      /\ \A i \in DOMAIN all : Append(all, o)[i] = all[i]
      /\ Append(all, o)[Len(all) + 1] = o
  BY AppendedList, ListFacts DEF IsObservations
<1>2. \A i \in DOMAIN Append(all, o) : i \in DOMAIN all \/ i = Len(all) + 1
  BY <1>1
<1> QED
  BY <1>1, <1>2 DEF IsObservations

LEMMA SumWithOneMore ==
  ASSUME NEW all, IsObservations(all), NEW o, StoredItem("materialObservations", o), NEW S,
         NEW T, \A i \in DOMAIN all : i \in T <=> i \in S
  PROVE  /\ Sum(Weights(all, S)) \in Int
         /\ Sum(Weights(Append(all, o), T))
              = Sum(Weights(all, S)) + (IF Len(all) + 1 \in T THEN Percentage(o) ELSE 0)
<1> DEFINE n == Len(all)
           more == Append(all, o)
           w == Weights(all, S)
           v == Weights(more, T)
<1>1. /\ IsObservations(more) /\ Len(more) = n + 1 /\ DOMAIN all = 1..n /\ DOMAIN more = 1..(n + 1) /\ n \in Nat
      /\ \A i \in DOMAIN all : more[i] = all[i]
      /\ more[n + 1] = o
  BY OneMore
<1> HIDE DEF more
<1>2. w \in [1..n -> Int] /\ v \in [1..(n + 1) -> Int]
  <2>1. v \in [1..Len(more) -> Int]
    BY <1>1, WeightsFit
  <2> QED
    BY <1>1, <2>1, WeightsFit
<1>3. \A k \in 1..n : v[k] = w[k]
  BY <1>1 DEF Weights
<1>4. v[n + 1] = IF n + 1 \in T THEN Percentage(o) ELSE 0
  BY <1>1 DEF Weights
<1> HIDE DEF v, w, n
<1>5. Sum(w) \in Int /\ Sum(v) = Sum(w) + v[n + 1]
  BY <1>1, <1>2, <1>3, SumOfMore
<1> QED
  BY <1>4, <1>5 DEF v, w, n, more

LEMMA TotalIsSum ==
  ASSUME NEW all, NEW S
  PROVE  Total(all, S) = Sum(Weights(all, S)) + (IF RoundsUp(all, S) THEN 1 ELSE 0)
  BY DEF Total, Weights

(* The occasion of an observation, among the others.                       *)
Judged(all, o) == {i \in DOMAIN all : SuppliedMass(all[i]) /\ Occasion(all[i]) = Occasion(o)}

LEMMA OccasionsAreJudged ==
  ASSUME NEW all, IsObservations(all), check_composition(all),
         NEW o, StoredItem("materialObservations", o), SuppliedMass(o)
  PROVE  LET total == Percentage(o) + Sum(Weights(all, Judged(all, o)))
         IN  /\ total \in Int
             /\ total < 1005 => check_composition(Append(all, o))
             /\ total > 1005 => ~check_composition(Append(all, o))
<1> DEFINE n == Len(all)
           more == Append(all, o)
           J == Judged(all, o)
           total == Percentage(o) + Sum(Weights(all, J))
           own == {j \in DOMAIN more : Occasion(more[j]) = Occasion(more[n + 1])}
           supplied(S) == {i \in S : SuppliedMass(more[i])}
<1>1. /\ IsObservations(more) /\ DOMAIN all = 1..n /\ DOMAIN more = 1..(n + 1) /\ n \in Nat
      /\ \A i \in DOMAIN all : more[i] = all[i]
      /\ more[n + 1] = o
  BY OneMore
<1> HIDE DEF more, n
<1>2. n + 1 \in supplied(own) /\ \A i \in DOMAIN all : i \in supplied(own) <=> i \in J
  BY <1>1 DEF Judged
<1>3. /\ Sum(Weights(all, J)) \in Int /\ Percentage(o) \in Int
      /\ Sum(Weights(more, supplied(own))) = Sum(Weights(all, J)) + Percentage(o)
  <2> HIDE DEF J, own, supplied
  <2>1. /\ Sum(Weights(all, J)) \in Int
        /\ Sum(Weights(more, supplied(own)))
             = Sum(Weights(all, J)) + (IF n + 1 \in supplied(own) THEN Percentage(o) ELSE 0)
    BY <1>2, SumWithOneMore DEF more, n
  <2> QED
    BY <1>2, <2>1, PercentageIsInt
<1>4. Total(more, supplied(own)) \in {total, total + 1} /\ total \in Int
  <2> HIDE DEF own, supplied, J
  <2>1. Total(more, supplied(own)) = Sum(Weights(more, supplied(own))) + (IF RoundsUp(more, supplied(own)) THEN 1 ELSE 0)
    BY TotalIsSum
  <2> QED
    BY <1>3, <2>1
<1>5. own \in observation_sets(more)
  BY <1>1 DEF observation_sets
<1>6. check_composition(more) <=> \A S \in observation_sets(more) : Total(more, supplied(S)) <= 1005
  BY DEF check_composition, COMPOSITION_TOLERANCE
<1>7. ASSUME NEW S \in observation_sets(more), S # own
      PROVE  Total(more, supplied(S)) <= 1005
  <2>1. PICK i \in DOMAIN more : S = {j \in DOMAIN more : Occasion(more[j]) = Occasion(more[i])}
    BY DEF observation_sets
  <2>2. Occasion(more[i]) # Occasion(o)
    BY <1>1, <1>7, <2>1
  <2>3. i \in DOMAIN all
    BY <1>1, <2>2
  <2>4. S = {j \in DOMAIN all : Occasion(all[j]) = Occasion(all[i])}
    BY <1>1, <2>1, <2>2, <2>3
  <2>5. S \in observation_sets(all)
    BY <2>3, <2>4 DEF observation_sets
  <2> DEFINE F == {j \in S : SuppliedMass(all[j])}
  <2>6. supplied(S) = F /\ F \subseteq DOMAIN all /\ n + 1 \notin F
    BY <1>1, <2>4
  <2>7. Total(all, F) <= 1005
    BY <2>5 DEF check_composition, COMPOSITION_TOLERANCE
  <2> HIDE DEF F, supplied
  <2>8. Sum(Weights(all, F)) \in Int /\ Sum(Weights(more, F)) = Sum(Weights(all, F))
    <3>1. /\ Sum(Weights(all, F)) \in Int
          /\ Sum(Weights(more, F)) = Sum(Weights(all, F)) + (IF n + 1 \in F THEN Percentage(o) ELSE 0)
      BY SumWithOneMore DEF more, n
    <3> QED
      BY <2>6, <3>1
  <2>9. RoundsUp(more, F) <=> RoundsUp(all, F)
    BY <1>1, <2>6 DEF RoundsUp
  <2> QED
    BY <2>6, <2>7, <2>8, <2>9, TotalIsSum
<1>8. ASSUME total < 1005 PROVE check_composition(more)
  <2>1. Total(more, supplied(own)) <= 1005
    <3> HIDE DEF own, supplied, total
    <3> QED
      BY <1>4, <1>8
  <2> QED
    BY <1>6, <1>7, <2>1
<1>9. ASSUME total > 1005 PROVE ~check_composition(more)
  <2>1. ~(Total(more, supplied(own)) <= 1005)
    <3> HIDE DEF own, supplied, total
    <3> QED
      BY <1>4, <1>9
  <2> QED
    BY <1>5, <1>6, <2>1
<1> HIDE DEF total
<1> QED
  BY <1>4, <1>8, <1>9 DEF total, more

(* What is in the service has passed the check of composition. *)
Composed == passport # Nothing => check_composition(passport.materialObservations)

LEMMA ComposedStep ==
  ASSUME Composed, [Next]_vars
  PROVE  Composed'
<1>1. \A d : Written(d) => Composed'
  BY DEF Written, validate_payload, Composed
<1> QED
  BY <1>1, StepCases DEF CreateStep, HandOverStep, PatchStep, ObserveStep, CommissionStep, IdleStep, Unwritten, Composed

(* Whatever the passport says from other occasions, an observation is      *)
(* accepted or refused by the sum of its own: at no length of the history  *)
(* does the binary rounding reach beyond the sum exactly at the limit.     *)
THEOREM OccasionsAreJudgedApart == Spec => []OccasionsJudgeThemselves
<1>1. Init => Composed
  BY DEF Init, Composed
<1>2. Composed /\ [Next]_vars => Composed'
  BY ComposedStep
<1>3. DocumentInv /\ Composed => OccasionsJudgeThemselves
  <2> SUFFICES ASSUME DocumentInv, Composed, passport # Nothing,
                      NEW o \in Observations, SuppliedMass(o)
               PROVE  LET all == passport.materialObservations
                          total == Percentage(o)
                            + Sum([i \in DOMAIN all |-> IF OfOwnOccasion(o, all[i]) THEN Percentage(all[i]) ELSE 0])
                          accepted == check_composition(Append(all, o))
                      IN  (total < 1005 => accepted) /\ (total > 1005 => ~accepted)
    BY DEF OccasionsJudgeThemselves
  <2> DEFINE all == passport.materialObservations
  <2>1. IsObservations(all) /\ check_composition(all)
    BY DEF DocumentInv, PassportIsDocument, IsDocument, ARRAYS, IsObservations, Composed
  <2>2. StoredItem("materialObservations", o)
    BY Typed, InputIsStored DEF IsItem, StoredItem
  <2> HIDE DEF all
  <2>3. [i \in DOMAIN all |-> IF OfOwnOccasion(o, all[i]) THEN Percentage(all[i]) ELSE 0] = Weights(all, Judged(all, o))
    <3>1. \A i \in DOMAIN all : OfOwnOccasion(o, all[i]) <=> i \in Judged(all, o)
      BY <2>1, <2>2, OccasionIsOwn DEF IsObservations, Judged
    <3> QED
      BY <3>1 DEF Weights
  <2> QED
    BY <2>1, <2>2, <2>3, OccasionsAreJudged DEF all
<1> QED
  BY <1>1, <1>2, <1>3, PassportsAreDocuments, PTL DEF Spec

-----------------------------------------------------------------------------
(* The order of the XML Schema.                                            *)

(* A document in order is written as the schema has it.                    *)
LEMMA WrittenInOrder ==
  ASSUME NEW name, NEW m, Stored(name, m), InSequence(name, m), NoExponent(m)
  PROVE  Accepts(name, WriteMembers(m))
<1> DEFINE elements == WriteMembers(m)
<1>1. DOMAIN elements = DOMAIN m /\ \A p \in DOMAIN m : elements[p] = write_value(m[p][1], m[p][2])
  BY DEF WriteMembers
<1> HIDE DEF elements
<1>2. \A p \in DOMAIN m : IsValue(m[p][1], m[p][2]) /\ elements[p].tag = m[p][1]
  BY <1>1, ValueIsRead DEF Stored, IsObject
<1>3. Tags(elements) = KeyOrder(m)
  BY <1>1, <1>2 DEF Tags, KeyOrder
<1>4. \A p \in DOMAIN elements : Decimals(elements[p])
  BY <1>1 DEF NoExponent
<1>5. ASSUME NEW p \in DOMAIN elements, elements[p].tag \in NESTED
      PROVE  Follows(Tags(elements[p].children), SCHEMA[elements[p].tag])
  <2> DEFINE key == m[p][1]
             inner == m[p][2].object
             children == [q \in DOMAIN inner |-> Leaf(inner[q][1], str(inner[q][2]))]
  <2>1. p \in DOMAIN m /\ key \in NESTED /\ elements[p].tag = key /\ Is("object", m[p][2]) /\ ~Is("array", m[p][2])
    <3>1. p \in DOMAIN m /\ key \in NESTED /\ elements[p].tag = key
      BY <1>1, <1>2, <1>5
    <3>2. Is("object", m[p][2]) /\ m[p][2] = Object(m[p][2].object)
      BY <1>2, <3>1 DEF IsValue, NESTED, LIST_ITEMS
    <3> QED
      BY <3>1, <3>2 DEF Is, Object
  <2>2. elements[p] = Node(key, children)
    <3>1. write_value(key, m[p][2]) = Node(key, children)
      BY <2>1 DEF write_value
    <3> HIDE DEF children
    <3> QED
      BY <1>1, <2>1, <3>1
  <2>3. Tags(children) = KeyOrder(inner)
    BY DEF Tags, KeyOrder, Leaf
  <2>4. Follows(KeyOrder(inner), SCHEMA[key])
    BY <2>1 DEF InSequence
  <2> HIDE DEF children, inner, key
  <2> QED
    BY <2>1, <2>2, <2>3, <2>4, ChildrenOfNode
<1>6. Follows(Tags(elements), SCHEMA[name])
  BY <1>3 DEF InSequence
<1> QED
  BY <1>4, <1>5, <1>6 DEF Accepts, elements

LEMMA InOrderIsValid ==
  ASSUME NEW d, IsDocument(d), InOrder(d), Plain(d),
         "recordVersion" \in DOMAIN d.root => Decimal(d.root["recordVersion"])
  PROVE  valid_xml(to_xml(d))
<1> DEFINE xml == to_xml(d)
           children == xml.children
<1>1. /\ DOMAIN children = {q \in DOMAIN WRITTEN : IsWritten(d, WRITTEN[q])}
      /\ \A p \in DOMAIN children : children[p] = WriteSection(d, WRITTEN[p])
  BY DEF to_xml
<1>2. \A n : WriteSection(d, n).tag = n
  BY DEF WriteSection, Leaf, Node
<1> HIDE DEF xml
<1>3. \A p \in DOMAIN children : children[p].tag = WRITTEN[p] /\ p \in DOMAIN WRITTEN
  BY <1>1, <1>2
<1>4. Follows(Tags(children), SCHEMA.root)
  <2>1. SCHEMA.root = WRITTEN
    BY DEF SCHEMA, WRITTEN
  <2> QED
    BY <1>3, <2>1 DEF Follows, Tags
<1>5. ASSUME NEW p \in DOMAIN children, children[p].tag \in ROOT_SCALARS
      PROVE  Decimal(children[p].text)
  <2> DEFINE name == WRITTEN[p]
  <2>1. name \in ROOT_SCALARS /\ name \in DOMAIN d.root /\ children[p] = Leaf(name, str(d.root[name]))
    <3>1. name \in ROOT_SCALARS /\ IsWritten(d, name) /\ children[p] = WriteSection(d, name)
      BY <1>1, <1>3, <1>5
    <3> HIDE DEF name
    <3>2. WriteSection(d, name) = Leaf(name, str(d.root[name]))
      BY <3>1, NamesAreApart DEF WriteSection
    <3> QED
      BY <3>1, <3>2 DEF IsWritten
  <2>2. children[p].text = str(d.root[name])
    BY <2>1 DEF Leaf
  <2>3. IsScalar(name, d.root[name])
    BY <2>1 DEF IsDocument, IsRoot
  <2> HIDE DEF name
  <2>4. CASE name = "recordVersion"
    <3>1. Is("number", d.root[name]) /\ d.root[name] = Number(d.root[name].number, d.root[name].form)
      BY <2>3, <2>4 DEF IsScalar, INTEGER_FIELDS, DECIMAL_FIELDS, BOOLEAN_FIELDS
    <3>2. str(d.root[name]) = d.root[name]
      BY <3>1 DEF str, Is, Number
    <3> QED
      BY <2>1, <2>2, <2>4, <3>2
  <2>5. CASE name # "recordVersion"
    <3>1. name \notin INTEGER_FIELDS \cup DECIMAL_FIELDS \cup BOOLEAN_FIELDS
      BY <2>1, <2>5 DEF ROOT_SCALARS, INTEGER_FIELDS, DECIMAL_FIELDS, BOOLEAN_FIELDS
    <3>2. IsText(d.root[name])
      BY <2>3, <3>1 DEF IsScalar
    <3>3. str(d.root[name]) = d.root[name] /\ ~Is("number", d.root[name])
      BY <3>2, TextIsPlain DEF str
    <3> QED
      BY <2>2, <3>3 DEF Decimal
  <2> QED
    BY <2>4, <2>5
<1>6. ASSUME NEW p \in DOMAIN children, children[p].tag \in OBJECTS
      PROVE  Accepts(children[p].tag, children[p].children)
  <2> DEFINE name == WRITTEN[p]
  <2>1. name \in OBJECTS /\ children[p].tag = name /\ children[p] = Node(name, WriteMembers(d[name]))
    BY <1>1, <1>3, <1>6, NamesAreApart DEF WriteSection
  <2> HIDE DEF name
  <2>2. Accepts(name, WriteMembers(d[name]))
    BY <2>1, WrittenInOrder DEF IsDocument, InOrder, Plain
  <2> QED
    BY <2>1, <2>2, ChildrenOfNode
<1>7. ASSUME NEW p \in DOMAIN children, children[p].tag \in DOMAIN ARRAYS,
             NEW i \in DOMAIN children[p].children
      PROVE  Accepts(children[p].tag, children[p].children[i].children)
  <2> DEFINE name == WRITTEN[p]
             items == d[name]
             nodes == [j \in DOMAIN items |-> Node(ARRAYS[name], WriteMembers(items[j]))]
  <2>1. name \in DOMAIN ARRAYS /\ children[p].tag = name /\ children[p] = Node(name, nodes)
    BY <1>1, <1>3, <1>7, NamesAreApart DEF WriteSection
  <2>2. \A j \in DOMAIN items : nodes[j] = Node(ARRAYS[name], WriteMembers(items[j]))
    OBVIOUS
  <2>3. DOMAIN nodes = DOMAIN items
    OBVIOUS
  <2> HIDE DEF nodes
  <2>4. children[p].children = nodes /\ i \in DOMAIN items
    BY <1>7, <2>1, <2>3, ChildrenOfNode
  <2>5. Stored(name, items[i])
    BY <2>1, <2>4 DEF IsDocument, StoredItem
  <2>6. InSequence(name, items[i]) /\ NoExponent(items[i])
    BY <2>1, <2>4 DEF InOrder, Plain, Items
  <2> HIDE DEF items, name
  <2>7. Accepts(name, WriteMembers(items[i]))
    BY <2>5, <2>6, WrittenInOrder
  <2> QED
    BY <2>1, <2>2, <2>4, <2>7, ChildrenOfNode
<1> QED
  BY <1>4, <1>5, <1>6, <1>7 DEF valid_xml, xml

(* Objects that are alike follow one order. *)
LEMMA AlikeOrder ==
  ASSUME NEW name, NEW m, NEW n, Alike(m, n), InSequence(name, m)
  PROVE  InSequence(name, n)
<1>1. KeyOrder(n) = KeyOrder(m)
  BY AlikeIsCanonical
<1>2. \A p \in DOMAIN n : p \in DOMAIN m /\ n[p][1] = m[p][1] /\
        (m[p][1] \in NESTED => KeyOrder(n[p][2].object) = KeyOrder(m[p][2].object))
  BY DEF Alike
<1> QED
  BY <1>1, <1>2 DEF InSequence

(* A merge keeps the order if what it adds is one key that comes after     *)
(* those there are.                                                        *)
LEMMA MergedOrder ==
  ASSUME NEW name, NEW members, NEW patch, Stored(name, members), Stored(name, patch),
         Follows(KeyOrder(members), SCHEMA[name]),
         NEW k \in DOMAIN SCHEMA[name], k \in Nat,
         \A r \in DOMAIN patch : patch[r][1] \in Keys(members) \/ patch[r][1] = SCHEMA[name][k],
         \A p \in DOMAIN members : members[p][1] # SCHEMA[name][k] =>
           \E l \in DOMAIN SCHEMA[name] : l < k /\ SCHEMA[name][l] = members[p][1]
  PROVE  Follows(KeyOrder(Merge(members, patch)), SCHEMA[name])
<1> DEFINE merged == Merge(members, patch)
           order == SCHEMA[name]
           last == Last(members)
<1>1. /\ last \in Nat /\ DOMAIN members \subseteq 1..last /\ DOMAIN members \subseteq DOMAIN merged
      /\ \A p \in DOMAIN members : merged[p] = <<members[p][1], Or(patch, members[p][1], members[p][2])>>
  BY MergePlaces DEF Stored
<1>2. \A p \in DOMAIN merged \ DOMAIN members :
        /\ p > last
        /\ \E r \in DOMAIN patch :
             r \in Nat /\ p = last + r /\ merged[p] = patch[r] /\ patch[r][1] \notin Keys(members)
  BY MergePlaces DEF Stored
<1> HIDE DEF merged, last
<1>3. \A p \in DOMAIN members : merged[p][1] = members[p][1]
  BY <1>1
<1>4. \A p \in DOMAIN merged \ DOMAIN members : merged[p][1] = order[k] /\ order[k] \notin Keys(members)
  BY <1>2
<1>5. \A p, q \in DOMAIN merged \ DOMAIN members : p = q
  <2> SUFFICES ASSUME NEW p \in DOMAIN merged \ DOMAIN members, NEW q \in DOMAIN merged \ DOMAIN members
               PROVE  p = q
    OBVIOUS
  <2>1. PICK r \in DOMAIN patch : p = last + r /\ merged[p] = patch[r]
    BY <1>2
  <2>2. PICK s \in DOMAIN patch : q = last + s /\ merged[q] = patch[s]
    BY <1>2
  <2>3. patch[r][1] = patch[s][1]
    BY <1>4, <2>1, <2>2
  <2>4. r = s
    BY <2>3 DEF Stored, IsObject, InSchema
  <2> QED
    BY <2>1, <2>2, <2>4
<1>6. ASSUME NEW p \in DOMAIN merged, NEW q \in DOMAIN merged, p < q
      PROVE  \E i, j \in DOMAIN order : i < j /\ order[i] = merged[p][1] /\ order[j] = merged[q][1]
  <2>1. CASE p \in DOMAIN members /\ q \in DOMAIN members
    <3>1. \E i, j \in DOMAIN order : i < j /\ order[i] = members[p][1] /\ order[j] = members[q][1]
      BY <1>6, <2>1 DEF Follows, KeyOrder
    <3> QED
      BY <1>3, <2>1, <3>1
  <2>2. CASE p \in DOMAIN members /\ q \notin DOMAIN members
    <3>1. members[p][1] # order[k]
      BY <1>4, <2>2 DEF Keys
    <3>2. PICK l \in DOMAIN order : l < k /\ order[l] = members[p][1]
      BY <2>2, <3>1
    <3> QED
      BY <1>3, <1>4, <2>2, <3>2
  <2>3. CASE p \notin DOMAIN members /\ q \in DOMAIN members
    <3>1. p > last /\ q <= last /\ q \in Nat /\ p \in Nat
      BY <1>1, <1>2, <2>3
    <3> QED
      BY <1>1, <1>6, <3>1
  <2>4. CASE p \notin DOMAIN members /\ q \notin DOMAIN members
    <3>1. p = q /\ p \in Nat
      BY <1>1, <1>2, <1>5, <2>4
    <3> QED
      BY <1>6, <3>1
  <2> QED
    BY <2>1, <2>2, <2>3, <2>4
<1>7. DOMAIN KeyOrder(merged) = DOMAIN merged /\ \A p \in DOMAIN merged : KeyOrder(merged)[p] = merged[p][1]
  BY DEF KeyOrder
<1> QED
  BY <1>6, <1>7 DEF Follows, merged

(* The keys an order is promised without. *)
PlainKeys(d) ==
  /\ Keys(d.identity) \cap {"sampleId", "sourceRecordId"} = {}
  /\ \A i \in DOMAIN d.carriers : Keys(d.carriers[i]) \cap {"resolverUri", "placement"} = {}

Orderly ==
  passport # Nothing =>
    /\ Decimal(passport.root["recordVersion"])
    /\ ordered /\ PlainKeys(passport) => InOrder(passport)

(* The schema has no nested values in identities and carriers.             *)
LEMMA FlatInSequence ==
  ASSUME NEW name \in {"identity", "carriers"}, NEW m, Stored(name, m), Follows(KeyOrder(m), SCHEMA[name])
  PROVE  InSequence(name, m)
<1>1. \A k \in DOMAIN SCHEMA[name] : SCHEMA[name][k] \notin NESTED
  BY DEF SCHEMA, NESTED
<1>2. \A p \in DOMAIN m : m[p][1] \notin NESTED
  BY <1>1 DEF Stored, IsObject, InSchema
<1> QED
  BY <1>2 DEF InSequence

(* epc comes after what an identity has, but for the two that are left     *)
(* out; so does closedAt in a carrier, but for its placement.              *)
LEMMA EpcInOrder ==
  ASSUME NEW m, Stored("identity", m), InSequence("identity", m),
         Keys(m) \cap {"sampleId", "sourceRecordId"} = {},
         NEW carrier, IsInput("carriers", carrier), "encodedIdentifier" \in Keys(carrier)
  PROVE  InSequence("identity", Merge(m, EpcPatch(carrier)))
<1> DEFINE patch == EpcPatch(carrier)
<1>1. Stored("identity", patch) /\ Keys(patch) = {"epc"}
  BY EpcIsStored
<1> HIDE DEF patch
<1>2. /\ 5 \in DOMAIN SCHEMA["identity"] /\ SCHEMA["identity"][5] = "epc"
      /\ \A l \in DOMAIN SCHEMA["identity"] : l < 5 \/ SCHEMA["identity"][l] \in {"epc", "sampleId", "sourceRecordId"}
  BY DEF SCHEMA
<1>3. \A r \in DOMAIN patch : patch[r][1] = "epc"
  BY <1>1 DEF Keys
<1>4. ASSUME NEW p \in DOMAIN m, m[p][1] # "epc"
      PROVE  \E l \in DOMAIN SCHEMA["identity"] : l < 5 /\ SCHEMA["identity"][l] = m[p][1]
  <2>1. PICK l \in DOMAIN SCHEMA["identity"] : SCHEMA["identity"][l] = m[p][1]
    BY DEF Stored, IsObject, InSchema
  <2>2. m[p][1] \in Keys(m)
    BY DEF Keys
  <2> QED
    BY <1>2, <1>4, <2>1, <2>2
<1>5. Follows(KeyOrder(Merge(m, patch)), SCHEMA["identity"])
  BY <1>1, <1>2, <1>3, <1>4, MergedOrder DEF InSequence
<1> QED
  BY <1>1, <1>5, MergedMembers, FlatInSequence DEF patch

LEMMA ClosedInOrder ==
  ASSUME NEW m, StoredItem("carriers", m), InSequence("carriers", m), "placement" \notin Keys(m), NEW now
  PROVE  InSequence("carriers", Close(m, now))
<1> DEFINE patch == Closing(now)
<1>1. Stored("carriers", patch) /\ Keys(patch) = {"bindingStatus", "closedAt"}
  BY ClosingIsStored
<1>2. Close(m, now) \in {m, Merge(m, patch)}
  BY DEF Close, Closing
<1> HIDE DEF patch
<1>3. /\ 9 \in DOMAIN SCHEMA["carriers"] /\ SCHEMA["carriers"][9] = "closedAt"
      /\ \A l \in DOMAIN SCHEMA["carriers"] : l < 9 \/ SCHEMA["carriers"][l] \in {"closedAt", "placement"}
  BY DEF SCHEMA
<1>4. \A r \in DOMAIN patch : patch[r][1] \in Keys(m) \/ patch[r][1] = "closedAt"
  <2>1. \A r \in DOMAIN patch : patch[r][1] \in {"bindingStatus", "closedAt"}
    BY <1>1 DEF Keys
  <2> QED
    BY <2>1 DEF StoredItem, REQUIRED
<1>5. ASSUME NEW p \in DOMAIN m, m[p][1] # "closedAt"
      PROVE  \E l \in DOMAIN SCHEMA["carriers"] : l < 9 /\ SCHEMA["carriers"][l] = m[p][1]
  <2>1. PICK l \in DOMAIN SCHEMA["carriers"] : SCHEMA["carriers"][l] = m[p][1]
    BY DEF StoredItem, Stored, IsObject, InSchema
  <2>2. m[p][1] \in Keys(m)
    BY DEF Keys
  <2> QED
    BY <1>3, <1>5, <2>1, <2>2
<1>6. Stored("carriers", m) /\ Follows(KeyOrder(m), SCHEMA["carriers"])
  BY DEF StoredItem, InSequence
<1>7. Follows(KeyOrder(Merge(m, patch)), SCHEMA["carriers"])
  BY <1>1, <1>3, <1>4, <1>5, <1>6, MergedOrder
<1>8. InSequence("carriers", Merge(m, patch))
  BY <1>1, <1>6, <1>7, MergedMembers, FlatInSequence
<1> QED
  BY <1>2, <1>8

LEMMA EntryInOrder ==
  ASSUME NEW carrier, IsInput("carriers", carrier), Keys(Entry(carrier)) \cap {"resolverUri", "placement"} = {}
  PROVE  InSequence("carriers", Entry(carrier))
<1> DEFINE entry == Entry(carrier)
           place == [p \in 1..7 |-> IF p < 5 THEN p ELSE p + 1]
<1>1. /\ Stored("carriers", entry)
      /\ \A p \in DOMAIN entry : p \in DOMAIN EntryOrder /\ entry[p][1] = EntryOrder[p]
  BY EntryIsStored DEF StoredItem
<1> HIDE DEF entry
<1>2. \A p \in DOMAIN EntryOrder : p \in 1..7 \/ EntryOrder[p] \in {"resolverUri", "placement"}
  BY DEF EntryOrder
<1>3. \A p \in DOMAIN entry : p \in 1..7
  BY <1>1, <1>2 DEF Keys, entry
<1>4. \A p \in 1..7 : place[p] \in DOMAIN SCHEMA["carriers"] /\ SCHEMA["carriers"][place[p]] = EntryOrder[p]
  BY DEF SCHEMA, EntryOrder
<1>5. \A p, q \in 1..7 : p < q => place[p] < place[q]
  OBVIOUS
<1> HIDE DEF place
<1>6. ASSUME NEW p \in DOMAIN entry, NEW q \in DOMAIN entry, p < q
      PROVE  \E k, l \in DOMAIN SCHEMA["carriers"] :
               k < l /\ SCHEMA["carriers"][k] = entry[p][1] /\ SCHEMA["carriers"][l] = entry[q][1]
  BY <1>1, <1>3, <1>4, <1>5, <1>6
<1>7. Follows(KeyOrder(entry), SCHEMA["carriers"])
  BY <1>6 DEF Follows, KeyOrder
<1> QED
  BY <1>1, <1>7, FlatInSequence DEF entry

(* Documents with the same content have the same order.                    *)
LEMMA SameOrder ==
  ASSUME NEW d, NEW e, SameContent(d, e)
  PROVE  (InOrder(e) <=> InOrder(d)) /\ (PlainKeys(e) <=> PlainKeys(d))
  BY DEF SameContent, InOrder, PlainKeys, OBJECTS, ARRAYS

LEMMA SameDocumentOrder ==
  ASSUME NEW d, NEW e, SameDocument(d, e)
  PROVE  (InOrder(d) => InOrder(e)) /\ (PlainKeys(e) => PlainKeys(d))
<1>1. /\ \A name \in OBJECTS : Alike(d[name], e[name])
      /\ \A name \in DOMAIN ARRAYS : DOMAIN e[name] = DOMAIN d[name]
      /\ \A name \in DOMAIN ARRAYS : \A i \in DOMAIN d[name] : Alike(d[name][i], e[name][i])
  BY DEF SameDocument, SameItems
<1>2. ASSUME InOrder(d) PROVE InOrder(e)
  BY <1>1, <1>2, AlikeOrder DEF InOrder
<1>3. ASSUME PlainKeys(e) PROVE PlainKeys(d)
  <2>1. Keys(d.identity) = Keys(e.identity)
    BY <1>1, AlikeIsCanonical DEF OBJECTS
  <2>2. DOMAIN e.carriers = DOMAIN d.carriers /\ \A i \in DOMAIN d.carriers : Keys(d.carriers[i]) = Keys(e.carriers[i])
    BY <1>1, AlikeIsCanonical DEF ARRAYS
  <2> QED
    BY <1>3, <2>1, <2>2 DEF PlainKeys
<1> QED
  BY <1>2, <1>3

(* A commissioning keeps the order. *)
LEMMA CommissionedInOrder ==
  ASSUME NEW d, IsDocument(d), NEW carrier \in Carriers, PlainKeys(Commissioned(d, carrier)),
         PlainKeys(d) => InOrder(d)
  PROVE  InOrder(Commissioned(d, carrier))
<1> DEFINE e == Commissioned(d, carrier)
           items == d.carriers
           now == Version(d) + 1
           closed == [i \in DOMAIN items |-> Close(items[i], now)]
           entry == Entry(carrier)
<1>1. /\ IsList(closed) /\ e.carriers = Append(closed, entry)
      /\ e.identity = Merge(d.identity, EpcPatch(carrier))
      /\ \A name \in {"product", "materialObservations", "components"} : e[name] = d[name]
  BY CommissionedIsDocument
<1>2. IsInput("carriers", carrier) /\ "encodedIdentifier" \in Keys(carrier)
  BY Typed
<1>3. Stored("identity", d.identity) /\ \A i \in DOMAIN items : StoredItem("carriers", items[i])
  BY DEF IsDocument, OBJECTS, ARRAYS
<1>4. DOMAIN closed = DOMAIN items /\ \A i \in DOMAIN items : closed[i] = Close(items[i], now)
  OBVIOUS
<1> HIDE DEF e, closed, now
<1>5. /\ DOMAIN closed = 1..Len(closed) /\ Len(closed) \in Nat
      /\ DOMAIN e.carriers = 1..(Len(closed) + 1)
      /\ \A i \in DOMAIN closed : e.carriers[i] = closed[i]
      /\ e.carriers[Len(closed) + 1] = entry
  BY <1>1, AppendedList, ListFacts
<1> HIDE DEF items, entry
<1>6. Keys(d.identity) \subseteq Keys(e.identity)
  BY <1>1, <1>2, <1>3, EpcIsStored, MergeKeepsKeys DEF Stored
<1>7. ASSUME NEW i \in DOMAIN items PROVE Keys(items[i]) \subseteq Keys(e.carriers[i]) /\ i \in DOMAIN e.carriers
  <2>1. Keys(items[i]) \subseteq Keys(Merge(items[i], Closing(now)))
    BY <1>3, ClosingIsStored, MergeKeepsKeys DEF StoredItem, Stored
  <2>2. Close(items[i], now) \in {items[i], Merge(items[i], Closing(now))}
    BY DEF Close, Closing
  <2> QED
    BY <1>4, <1>5, <2>1, <2>2
<1>8. PlainKeys(e)
  BY DEF e
<1>9. PlainKeys(d)
  BY <1>6, <1>7, <1>8 DEF PlainKeys, items
<1>10. InOrder(d)
  BY <1>9
<1>11. InSequence("identity", e.identity)
  BY <1>1, <1>2, <1>3, <1>9, <1>10, EpcInOrder DEF PlainKeys, InOrder, OBJECTS
<1>12. ASSUME NEW i \in DOMAIN e.carriers PROVE InSequence("carriers", e.carriers[i])
  <2>1. CASE i \in DOMAIN items
    <3>1. InSequence("carriers", items[i]) /\ "placement" \notin Keys(items[i])
      BY <1>9, <1>10, <2>1 DEF PlainKeys, InOrder, ARRAYS, items
    <3> QED
      BY <1>3, <1>4, <1>5, <2>1, <3>1, ClosedInOrder
  <2>2. CASE i = Len(closed) + 1
    <3>1. Keys(entry) \cap {"resolverUri", "placement"} = {}
      BY <1>5, <1>8, <2>2 DEF PlainKeys
    <3> QED
      BY <1>2, <1>5, <2>2, <3>1, EntryInOrder DEF entry
  <2> QED
    BY <1>4, <1>5, <2>1, <2>2
<1>13. /\ InSequence("product", e.product)
       /\ \A name \in {"materialObservations", "components"} :
            \A i \in DOMAIN e[name] : InSequence(name, e[name][i])
  BY <1>1, <1>10 DEF InOrder, OBJECTS, ARRAYS
<1> QED
  BY <1>11, <1>12, <1>13 DEF InOrder, OBJECTS, ARRAYS, e

LEMMA StampIsDecimal ==
  ASSUME NEW root, NEW n
  PROVE  Decimal(Stamped(root, n)["recordVersion"])
<1> DEFINE stamp == [recordVersion |-> Number(n, "int"), updatedAt |-> Time(n)]
<1>1. "recordVersion" \in DOMAIN stamp /\ stamp["recordVersion"] = Number(n, "int")
  OBVIOUS
<1> HIDE DEF stamp
<1>2. Overlay(root, stamp)["recordVersion"] = Number(n, "int")
  BY <1>1 DEF Overlay
<1>3. Stamped(root, n) = Overlay(root, stamp)
  BY DEF Stamped, stamp
<1>4. Decimal(Number(n, "int"))
  BY DEF Decimal, Number
<1> QED
  BY <1>2, <1>3, <1>4

LEMMA WrittenVersion ==
  ASSUME NEW d, IsDocument(d), NEW n
  PROVE  Decimal(Created(d).root["recordVersion"]) /\ Decimal(Updated(d, n).root["recordVersion"])
<1>1. \A root : [d EXCEPT !.root = root].root = root
  BY DEF IsDocument
<1>2. Created(d) = [d EXCEPT !.root = Stamped(Overlay(DEFAULTS, d.root), 1)]
  BY DEF Created
<1>3. Updated(d, n) = [d EXCEPT !.root = Stamped(d.root, n)]
  BY DEF Updated
<1> QED
  BY <1>1, <1>2, <1>3, StampIsDecimal

LEMMA WrittenOrderly ==
  ASSUME NEW d, Written(d), Decimal(d.root["recordVersion"]), ordered' /\ PlainKeys(d) => InOrder(d)
  PROVE  Orderly'
  BY DEF Written, Orderly, PlainKeys, InOrder

LEMMA OrderlyStep ==
  ASSUME DocumentInv, Orderly, [Next]_vars
  PROVE  Orderly'
<1>1. passport # Nothing => IsDocument(passport) /\ "recordVersion" \in DOMAIN passport.root
  BY DEF DocumentInv, PassportIsDocument
<1>2. CASE CreateStep
  <2>1. PICK body \in Bodies : Written(Created(body)) /\ ordered' = InOrder(body)
    BY <1>2 DEF CreateStep
  <2>2. IsDocument(body) /\ SameContent(body, Created(body))
    BY BodyIsDocument, CreatedIsDocument
  <2> QED
    BY <2>1, <2>2, SameOrder, WrittenVersion, WrittenOrderly
<1>3. CASE HandOverStep
  <2> DEFINE e == from_xml(reply.body)
  <2>1. /\ passport # Nothing /\ SameDocument(passport, e) /\ IsDocument(e)
        /\ Written(Created(e)) /\ ordered' = ordered
    BY <1>3, DocumentIsSomething, DocumentIsRead DEF HandOverStep, DocumentInv, BodyIsPassport
  <2> HIDE DEF e
  <2>2. SameContent(e, Created(e))
    BY <2>1, CreatedIsDocument
  <2>3. ordered' /\ PlainKeys(Created(e)) => InOrder(Created(e))
    BY <2>1, <2>2, SameOrder, SameDocumentOrder DEF Orderly
  <2> QED
    BY <2>1, <2>3, WrittenVersion, WrittenOrderly
<1>4. CASE PatchStep
  <2>1. PICK patch \in ProductPatches :
          /\ Written(Updated(Patched(passport, patch), Version(passport) + 1))
          /\ ordered' = (ordered /\ InSequence("product", passport'.product))
    BY <1>4 DEF PatchStep
  <2> DEFINE e == Patched(passport, patch)
             f == Updated(e, Version(passport) + 1)
  <2>2. /\ passport # Nothing /\ IsDocument(passport) /\ IsDocument(e) /\ e.root = passport.root
        /\ \A name \in {"identity"} \cup DOMAIN ARRAYS : e[name] = passport[name]
    BY <1>1, <1>4, PatchedIsDocument DEF Patched, PatchStep
  <2> HIDE DEF e
  <2>3. SameContent(e, f) /\ Written(f)
    BY <1>1, <1>4, <2>1, <2>2, UpdatedIsDocument DEF PatchStep, e
  <2>4. Decimal(f.root["recordVersion"])
    BY <2>2, WrittenVersion
  <2> HIDE DEF f
  <2>5. passport'.product = e.product
    BY <2>3 DEF Written, SameContent, OBJECTS
  <2>6. PlainKeys(e) <=> PlainKeys(passport)
    BY <2>2 DEF PlainKeys, ARRAYS
  <2>7. InOrder(passport) /\ InSequence("product", e.product) => InOrder(e)
    BY <2>2 DEF InOrder, OBJECTS
  <2>8. ordered' /\ PlainKeys(f) => InOrder(f)
    BY <2>1, <2>2, <2>3, <2>5, <2>6, <2>7, SameOrder DEF Orderly
  <2> QED
    BY <2>3, <2>4, <2>8, WrittenOrderly
<1>5. CASE ObserveStep
  <2>1. PICK o \in Observations :
          /\ Written(Updated(Observed(passport, o), Version(passport) + 1))
          /\ ordered' = (ordered /\ InSequence("materialObservations", o))
    BY <1>5 DEF ObserveStep
  <2> DEFINE e == Observed(passport, o)
             f == Updated(e, Version(passport) + 1)
             all == passport.materialObservations
  <2>2. /\ passport # Nothing /\ IsDocument(passport) /\ IsDocument(e) /\ e.root = passport.root
        /\ e.materialObservations = Append(all, o)
        /\ \A name \in OBJECTS \cup {"carriers", "components"} : e[name] = passport[name]
    BY <1>1, <1>5, ObservedIsDocument DEF Observed, ObserveStep
  <2> HIDE DEF e
  <2>3. SameContent(e, f) /\ Written(f)
    BY <1>1, <1>5, <2>1, <2>2, UpdatedIsDocument DEF ObserveStep, e
  <2>4. Decimal(f.root["recordVersion"])
    BY <2>2, WrittenVersion
  <2> HIDE DEF f
  <2>5. PlainKeys(e) <=> PlainKeys(passport)
    BY <2>2 DEF PlainKeys, OBJECTS
  <2>6. IsList(all)
    BY <2>2 DEF IsDocument, ARRAYS
  <2> HIDE DEF all
  <2>7. /\ DOMAIN all = 1..Len(all) /\ DOMAIN Append(all, o) = 1..(Len(all) + 1) /\ Len(all) \in Nat
        /\ \A i \in DOMAIN all : Append(all, o)[i] = all[i]
        /\ Append(all, o)[Len(all) + 1] = o
    BY <2>6, AppendedList, ListFacts
  <2>8. ASSUME InOrder(passport), InSequence("materialObservations", o)
        PROVE  \A i \in DOMAIN Append(all, o) : InSequence("materialObservations", Append(all, o)[i])
    <3>1. \A i \in DOMAIN all : InSequence("materialObservations", all[i])
      BY <2>8 DEF InOrder, ARRAYS, all
    <3>2. \A i \in DOMAIN Append(all, o) : i \in DOMAIN all \/ i = Len(all) + 1
      BY <2>7
    <3> QED
      BY <2>7, <2>8, <3>1, <3>2
  <2>9. InOrder(passport) /\ InSequence("materialObservations", o) => InOrder(e)
    BY <2>2, <2>8 DEF InOrder, OBJECTS, ARRAYS
  <2>10. ordered' /\ PlainKeys(f) => InOrder(f)
    BY <2>1, <2>2, <2>3, <2>5, <2>9, SameOrder DEF Orderly
  <2> QED
    BY <2>3, <2>4, <2>10, WrittenOrderly
<1>6. CASE CommissionStep
  <2>1. PICK carrier \in Carriers :
          Written(Updated(Commissioned(passport, carrier), Version(passport) + 1)) /\ ordered' = ordered
    BY <1>6 DEF CommissionStep
  <2> DEFINE e == Commissioned(passport, carrier)
             f == Updated(e, Version(passport) + 1)
  <2>2. passport # Nothing /\ IsDocument(passport) /\ IsDocument(e) /\ e.root = passport.root
    BY <1>1, <1>6, CommissionedIsDocument DEF CommissionStep
  <2>3. ordered /\ PlainKeys(e) => InOrder(e)
    BY <2>2, CommissionedInOrder DEF Orderly
  <2> HIDE DEF e
  <2>4. SameContent(e, f) /\ Written(f)
    BY <1>1, <1>6, <2>1, <2>2, UpdatedIsDocument DEF CommissionStep, e
  <2>5. Decimal(f.root["recordVersion"])
    BY <2>2, WrittenVersion
  <2> HIDE DEF f
  <2>6. ordered' /\ PlainKeys(f) => InOrder(f)
    BY <2>1, <2>3, <2>4, SameOrder
  <2> QED
    BY <2>4, <2>5, <2>6, WrittenOrderly
<1>7. CASE IdleStep
  BY <1>7 DEF IdleStep, Unwritten, Orderly, PlainKeys, InOrder
<1> QED
  BY <1>2, <1>3, <1>4, <1>5, <1>6, <1>7, StepCases

(* A passport whose clients keep to the order of the schema, without the   *)
(* members the service itself puts out of place, can be answered in XML    *)
(* after any history.                                                      *)
THEOREM PlainHistoriesExport == Spec => []PlainHistoryExports
<1>1. Init => Orderly
  BY DEF Init, Orderly
<1>2. DocumentInv /\ Orderly /\ [Next]_vars => Orderly'
  BY OrderlyStep
<1>3. DocumentInv /\ Orderly => PlainHistoryExports
  <2> SUFFICES ASSUME DocumentInv, Orderly, passport # Nothing, ordered, Plain(passport)
               PROVE  valid_xml(to_xml(passport))
    BY DEF PlainHistoryExports
  <2>1. PlainKeys(passport)
    BY DEF Plain, PlainKeys, Items
  <2>2. IsDocument(passport) /\ InOrder(passport) /\ Decimal(passport.root["recordVersion"])
    BY <2>1 DEF Orderly, DocumentInv, PassportIsDocument
  <2> QED
    BY <2>2, InOrderIsValid
<1> QED
  BY <1>1, <1>2, <1>3, PassportsAreDocuments, PTL DEF Spec

=============================================================================
