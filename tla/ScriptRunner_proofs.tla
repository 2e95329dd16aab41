------------------------- MODULE ScriptRunner_proofs ------------------------
(* One run of a script, for all ABIs, memories and answers.                *)
EXTENDS ScriptRunner, Integers, FiniteSetTheorems, WellFoundedInduction, TLAPS

LEMMA InputsAreNumbers ==
    /\ \A p \in Pointers : p \in Nat
    /\ \A size \in AnswerSizes : size \in Nat
    /\ \A length \in Lengths : length \in Nat
    /\ \A size \in MemorySizes : size \in Nat
  BY ScriptRunnerAssumption

LEMMA Sizes ==
    ASSUME NEW kind
    PROVE  Size(kind) \in {1, 2, 4, 8} /\ Width(kind) \in {4, 8}
  BY DEF Size, Width

LEMMA PlaceIsNatural ==
    ASSUME end \in Nat, NEW kind
    PROVE  Place(kind) \in Nat
<1>1. ASSUME NEW size \in {1, 2, 4, 8} PROVE end % size \in 0..(size - 1)
  BY <1>1
<1>2. end % Size(kind) \in 0..(Size(kind) - 1)
  BY <1>1, Sizes
<1> QED BY <1>2, Sizes DEF Place

LEMMA ItemIsTyped ==
    ASSUME RunnerTypeOK, NEW kind \in Kinds, NEW contents \in ArrayType
    PROVE  Item(kind, contents) \in Items
<1>1. offset \in Nat /\ end \in Nat /\ field \in Nat \ {0}
  BY DEF RunnerTypeOK
<1>2. Place(kind) \in Nat
  BY <1>1, PlaceIsNatural
<1> QED BY <1>1, <1>2 DEF Item, Items

LEMMA ReadKeepsTypes ==
    ASSUME RunnerTypeOK, NEW kind \in Kinds, Read(kind)
    PROVE  offset' \in Nat /\ field' \in Nat \ {0} /\ end' \in Nat
<1>1. offset \in Nat /\ field \in Nat \ {0} /\ end \in Nat
  BY DEF RunnerTypeOK
<1>2. Width(kind) \in Nat /\ Size(kind) \in Nat
  BY Sizes
<1>3. Place(kind) \in Nat
  BY <1>1, PlaceIsNatural
<1> QED BY <1>1, <1>2, <1>3 DEF Read, MoveOn

LEMMA NoArrayIsTyped == NoArray \in ArrayType
  BY DEF NoArray, ArrayAt, ArrayType

LEMMA TextIsTyped ==
    ASSUME NEW p \in Pointers, NEW text \in {0, p}
    PROVE  Text(text) \in ArrayType
<1>1. text \in Nat
  BY InputsAreNumbers
<1>2. <<text>> \in Seq(Nat) /\ <<>> \in Seq(Nat)
  BY <1>1
<1> QED BY <1>2 DEF Text, ArrayType

LEMMA BeforeCallTypes ==
    ASSUME RunnerTypeOK,
           ReadAbi \/ LinkImports \/ Instantiate \/ TakeExports \/ WriteAnswer \/ Report
    PROVE  RunnerTypeOK'
<1> USE DEF RunnerTypeOK, GoesTo, Panics, setup, decoder
<1>1. CASE ReadAbi
  BY <1>1 DEF ReadAbi
<1>2. CASE LinkImports
  <2>1. IsFiniteSet(Imported({"func", "table"}))
    <3>1. script.imports \in Seq(ImportKinds)
      BY ScriptRunnerAssumption DEF ScriptType
    <3>2. Len(script.imports) \in Int /\ 1 \in Int
      BY <3>1
    <3>3. IsFiniteSet(1..Len(script.imports))
      BY <3>2, FS_Interval
    <3> QED BY <3>3, FS_Subset DEF Imported
  <2>2. Cardinality(Imported({"func", "table"})) \in Nat
    BY <2>1, FS_CardinalityType
  <2> QED BY <1>2, <2>2 DEF LinkImports
<1>3. CASE Instantiate
  <2>1. script.memory \in Nat
    BY ScriptRunnerAssumption DEF ScriptType
  <2>2. \A size \in Grown(script.memory) : size \in Nat
    BY <2>1, InputsAreNumbers DEF Grown
  <2> QED BY <1>3, <2>2 DEF Instantiate
<1>4. CASE TakeExports
  BY <1>4 DEF TakeExports
<1>5. CASE WriteAnswer
  BY <1>5 DEF WriteAnswer
<1>6. CASE Report
  BY <1>6 DEF Report
<1> QED BY <1>1, <1>2, <1>3, <1>4, <1>5, <1>6

LEMMA FetchTypes ==
    ASSUME RunnerTypeOK, NEW size \in AnswerSizes, Fetch(size)
    PROVE  RunnerTypeOK'
  BY InputsAreNumbers DEF RunnerTypeOK, Fetch, GoesTo, setup, decoder

LEMMA CallTypes ==
    ASSUME RunnerTypeOK, NEW p \in Pointers, NEW size \in MemorySizes, CallProcess(p, size)
    PROVE  RunnerTypeOK'
<1>1. p \in Nat /\ size \in Nat
  BY InputsAreNumbers
<1> QED BY <1>1 DEF RunnerTypeOK, CallProcess, GoesTo, setup, decoder

LEMMA FieldTypesKept ==
    ASSUME RunnerTypeOK,
           \/ DecodeScalar \/ DecodeOther \/ SkipArray
           \/ \E p \in Pointers : DecodeString(p)
    PROVE  RunnerTypeOK'
<1> USE DEF RunnerTypeOK, setup
<1>1. CASE DecodeScalar
  <2>1. Field.kind \in Kinds
    BY <1>1 DEF DecodeScalar, Scalars, Kinds
  <2> QED BY <1>1, <2>1, ItemIsTyped, ReadKeepsTypes, NoArrayIsTyped DEF DecodeScalar
<1>2. CASE DecodeOther
  <2>1. Field.kind \in Kinds
    BY <1>2 DEF DecodeOther, Kinds
  <2> QED BY <1>2, <2>1, ReadKeepsTypes DEF DecodeOther
<1>3. CASE SkipArray
  <2>1. Place("array") \in Nat /\ Size("array") \in Nat
    BY PlaceIsNatural, Sizes
  <2> QED BY <1>3, <2>1 DEF SkipArray, MoveOn
<1>4. ASSUME NEW p \in Pointers, DecodeString(p) PROVE RunnerTypeOK'
  <2>1. "string" \in Kinds
    BY DEF Kinds
  <2>2. PICK text \in {0, p} :
            items' = Append(items, Item("string", Text(text)))
    BY <1>4 DEF DecodeString
  <2>3. Text(text) \in ArrayType
    BY TextIsTyped
  <2> QED BY <1>4, <2>1, <2>2, <2>3, ItemIsTyped, ReadKeepsTypes DEF DecodeString
<1> QED BY <1>1, <1>2, <1>3, <1>4

LEMMA ArrayTypesKept ==
    ASSUME RunnerTypeOK,
           \/ \E header, data \in Pointers, length \in Lengths : DecodeArray(header, data, length)
           \/ \E p \in Pointers : DecodeElement(p)
           \/ EndArray
    PROVE  RunnerTypeOK'
<1> USE DEF RunnerTypeOK, setup
<1>1. ASSUME NEW header \in Pointers, NEW data \in Pointers, NEW length \in Lengths,
             DecodeArray(header, data, length)
      PROVE  RunnerTypeOK'
  <2>1. data \in Nat /\ length \in Nat
    BY InputsAreNumbers
  <2>2. array' \in ArrayType
    BY <1>1, <2>1 DEF DecodeArray, ArrayAt, ArrayType
  <2> QED BY <1>1, <2>2 DEF DecodeArray
<1>2. ASSUME NEW p \in Pointers, DecodeElement(p) PROVE RunnerTypeOK'
  <2>1. p \in Nat
    BY InputsAreNumbers
  <2>2. array.seen \in Seq(Nat) /\ array.values \in Seq(Nat)
    BY DEF ArrayType
  <2>3. /\ Append(array.seen, p) \in Seq(Nat)
        /\ (IF p = 0 THEN array.values ELSE Append(array.values, p)) \in Seq(Nat)
    BY <2>1, <2>2
  <2> DEFINE seen == Append(array.seen, p)
             values == IF p = 0 THEN array.values ELSE Append(array.values, p)
  <2>4. array' = [array EXCEPT !.seen = seen, !.values = values]
    BY <1>2 DEF DecodeElement
  <2> HIDE DEF seen, values
  <2>5. array' \in ArrayType
    BY <2>3, <2>4 DEF ArrayType, seen, values
  <2> QED BY <1>2, <2>5 DEF DecodeElement
<1>3. CASE EndArray
  <2>1. "array" \in Kinds
    BY DEF Kinds
  <2> QED BY <1>3, <2>1, ItemIsTyped, ReadKeepsTypes, NoArrayIsTyped DEF EndArray
<1> QED BY <1>1, <1>2, <1>3

LEMMA RunnerTypesKept == RunnerTypeOK /\ [RunnerNext]_runVars => RunnerTypeOK'
<1> SUFFICES ASSUME RunnerTypeOK, [RunnerNext]_runVars PROVE RunnerTypeOK'
  OBVIOUS
<1>1. CASE BadRead
  BY <1>1 DEF BadRead, Panics, RunnerTypeOK, setup, decoder
<1>2. CASE UNCHANGED runVars
  BY <1>2 DEF runVars, RunnerTypeOK, setup, decoder
<1> QED
  BY <1>1, <1>2, BeforeCallTypes, FetchTypes, CallTypes, FieldTypesKept, ArrayTypesKept
  DEF RunnerNext, Proceed, Decode

(* Every variable of a run keeps its type: no read of the decoder (lines   *)
(* 267-381) leaves it with an offset or a list it cannot go on with.       *)
THEOREM RunnerTypeCorrect == RunnerSpec => []RunnerTypeOK
<1>1. RunnerInit => RunnerTypeOK
  BY NoArrayIsTyped DEF RunnerInit, RunnerTypeOK
<1> QED BY <1>1, RunnerTypesKept, PTL DEF RunnerSpec

-----------------------------------------------------------------------------
(* The fields of an object                                                 *)

(* A class that is registered has a last schema, a list of fields.         *)
LEMMA FieldsAreTyped ==
    ASSUME script \in Scripts
    PROVE  Fields \in Seq(FieldTypes)
<1> DEFINE classes == script.classes
           N == Len(classes)
           named == {i \in 1..N : classes[i].name = "Output"}
           left == {k \in Nat : \E i \in named : k = N - i}
<1>1. classes \in Seq(Classes) /\ N \in Nat
  BY ScriptRunnerAssumption DEF ScriptType
<1>2. \A i \in 1..N : classes[i].fields \in Seq(FieldTypes)
  <2>1. \A i \in 1..N : classes[i] \in Classes
    BY <1>1
  <2> HIDE DEF classes, N
  <2> QED BY <2>1 DEF Classes
<1>3. CASE ~Contains("Output")
  BY <1>3 DEF Fields
<1>4. CASE Contains("Output")
  <2> DEFINE IsLast(i) == /\ classes[i].name = "Output"
                          /\ \A k \in (i + 1)..N : classes[k].name # "Output"
  <2>1. PICK i \in 1..N : classes[i].name = "Output"
    BY <1>4 DEF Contains
  <2>2. i \in named /\ N - i \in left
    BY <1>1, <2>1
  <2>3. left \subseteq Nat /\ left # {}
    BY <2>2
  <2>4. \E m \in left : \A k \in left : ~(<<k, m>> \in OpToRel(<, Nat))
    BY <2>3, NatLessThanWellFounded, WFMin, Zenon
  <2>5. PICK m \in left : \A k \in left : ~(<<k, m>> \in OpToRel(<, Nat))
    BY <2>4, Zenon
  <2>6. \A k \in left : ~(k < m)
    BY <2>5, <2>3 DEF OpToRel
  <2>7. PICK last \in named : m = N - last
    OBVIOUS
  <2>8. \A k \in (last + 1)..N : k \notin named
    <3> SUFFICES ASSUME NEW k \in (last + 1)..N, k \in named PROVE FALSE
      OBVIOUS
    <3>1. N - k \in left /\ N - k < N - last
      BY <1>1
    <3> QED BY <2>6, <2>7, <3>1
  <2>9. last \in 1..N /\ IsLast(last)
    BY <1>1, <2>8
  <2> DEFINE chosen == CHOOSE i_1 \in 1..N : IsLast(i_1)
  <2>10. chosen \in 1..N
    BY <2>9
  <2>11. Fields = classes[chosen].fields
    BY <1>4 DEF Fields, Schema
  <2> HIDE DEF chosen
  <2> QED BY <1>2, <2>10, <2>11
<1> QED BY <1>3, <1>4

LEMMA FieldsStay ==
    ASSUME script' = script
    PROVE  Fields' = Fields /\ \A name : Contains(name)' = Contains(name)
  BY DEF Fields, Schema, Contains

(* What the decoder has done when it comes to a field.                     *)
AbiInv ==
    /\ field <= Len(Fields) + 1
    /\ pc = "element" => field <= Len(Fields) /\ Field.kind = "array" /\ Contains(Field.of)
    /\ pc = "done" => field > Len(Fields)
    /\ \A i \in 1..Len(items) :
          /\ items[i].nth \in 1..(field - 1) /\ Understood(items[i].nth)
          /\ items[i].kind = Fields[items[i].nth].kind
    /\ \A m \in 1..(field - 1) : Understood(m) => \E i \in 1..Len(items) : items[i].nth = m
    /\ \A i, k \in 1..Len(items) : i < k => items[i].nth < items[k].nth

LEMMA AppendFollows ==
    ASSUME RunnerTypeOK, AbiInv, script' = script, field <= Len(Fields),
           NEW item \in Items, item.nth = field, item.kind = Field.kind, Understood(field),
           items' = Append(items, item), field' = field + 1, pc' = "decode"
    PROVE  AbiInv'
<1>1. /\ items \in Seq(Items) /\ Len(items') = Len(items) + 1 /\ Len(items) \in Nat
      /\ items'[Len(items) + 1] = item /\ \A i \in 1..Len(items) : items'[i] = items[i]
  BY DEF RunnerTypeOK
<1>2. \A i \in 1..Len(items') : i = Len(items) + 1 \/ i \in 1..Len(items)
  BY <1>1
<1>3. Len(Fields) \in Nat /\ field \in Nat \ {0} /\ script \in Scripts
  BY FieldsAreTyped DEF RunnerTypeOK
<1>4. Fields' = Fields /\ \A m : Understood(m)' = Understood(m)
  BY FieldsStay DEF Understood
<1>5. \A m \in 1..(field' - 1) : m = field \/ m \in 1..(field - 1)
  BY <1>3
<1>6. /\ \A i \in 1..Len(items) : items[i].nth \in 1..(field - 1) /\ Understood(items[i].nth)
                                 /\ items[i].kind = Fields[items[i].nth].kind
      /\ \A m \in 1..(field - 1) : Understood(m) => \E i \in 1..Len(items) : items[i].nth = m
      /\ \A i, k \in 1..Len(items) : i < k => items[i].nth < items[k].nth
  BY DEF AbiInv
<1>7. \A i \in 1..Len(items') :
         /\ items'[i].nth \in 1..(field' - 1) /\ Understood(items'[i].nth)
         /\ items'[i].kind = Fields[items'[i].nth].kind
  BY <1>1, <1>2, <1>3, <1>6 DEF Field
<1>8. \A m \in 1..(field' - 1) : Understood(m) => \E i \in 1..Len(items') : items'[i].nth = m
  <2> SUFFICES ASSUME NEW m \in 1..(field' - 1), Understood(m)
               PROVE  \E i \in 1..Len(items') : items'[i].nth = m
    OBVIOUS
  <2>1. CASE m = field
    <3>1. Len(items) + 1 \in 1..Len(items')
      BY <1>1
    <3> QED BY <1>1, <2>1, <3>1
  <2>2. CASE m \in 1..(field - 1)
    <3>1. PICK i \in 1..Len(items) : items[i].nth = m
      BY <1>6, <2>2
    <3>2. i \in 1..Len(items')
      BY <1>1
    <3> QED BY <1>1, <3>1, <3>2
  <2> QED BY <1>5, <2>1, <2>2
<1>9. \A i, k \in 1..Len(items') : i < k => items'[i].nth < items'[k].nth
  <2> SUFFICES ASSUME NEW i \in 1..Len(items'), NEW k \in 1..Len(items'), i < k
               PROVE  items'[i].nth < items'[k].nth
    OBVIOUS
  <2>1. i \in 1..Len(items)
    BY <1>1
  <2>2. CASE k = Len(items) + 1
    BY <1>1, <1>3, <1>6, <2>1, <2>2
  <2>3. CASE k \in 1..Len(items)
    BY <1>1, <1>6, <2>1, <2>3
  <2> QED BY <1>2, <2>2, <2>3
<1>10. field' <= Len(Fields) + 1
  BY <1>3
<1> QED BY <1>4, <1>7, <1>8, <1>9, <1>10 DEF AbiInv

LEMMA PassedFollows ==
    ASSUME RunnerTypeOK, AbiInv, script' = script, field <= Len(Fields), ~Understood(field),
           items' = items, field' = field + 1, pc' = "decode"
    PROVE  AbiInv'
<1>1. Len(Fields) \in Nat /\ field \in Nat \ {0} /\ script \in Scripts
  BY FieldsAreTyped DEF RunnerTypeOK
<1>2. Fields' = Fields /\ \A m : Understood(m)' = Understood(m)
  BY FieldsStay DEF Understood
<1>3. \A m \in 1..(field' - 1) : m = field \/ m \in 1..(field - 1)
  BY <1>1
<1>4. /\ \A i \in 1..Len(items) : items[i].nth \in 1..(field - 1) /\ Understood(items[i].nth)
                                 /\ items[i].kind = Fields[items[i].nth].kind
      /\ \A m \in 1..(field - 1) : Understood(m) => \E i \in 1..Len(items) : items[i].nth = m
      /\ \A i, k \in 1..Len(items) : i < k => items[i].nth < items[k].nth
  BY DEF AbiInv
<1>5. \A i \in 1..Len(items) : items[i].nth \in 1..(field' - 1)
  BY <1>1, <1>4
<1>6. \A m \in 1..(field' - 1) : Understood(m) => \E i \in 1..Len(items) : items[i].nth = m
  BY <1>3, <1>4
<1>7. field' <= Len(Fields) + 1
  BY <1>1
<1> QED BY <1>2, <1>4, <1>5, <1>6, <1>7 DEF AbiInv

LEMMA AbiInvKept == RunnerTypeOK /\ AbiInv /\ [RunnerNext]_runVars => AbiInv'
<1> SUFFICES ASSUME RunnerTypeOK, AbiInv, [RunnerNext]_runVars PROVE AbiInv'
  OBVIOUS
<1> USE DEF Decoding
<1>1. CASE DecodeScalar
  <2> DEFINE item == Item(Field.kind, NoArray)
  <2>1. Field.kind \in Kinds /\ Understood(field)
    BY <1>1 DEF DecodeScalar, Scalars, Kinds, Understood, Field
  <2>2. item \in Items /\ item.nth = field /\ item.kind = Field.kind
    BY <2>1, ItemIsTyped, NoArrayIsTyped DEF Item
  <2>3. /\ items' = Append(items, item) /\ pc' = "decode" /\ script' = script
        /\ field <= Len(Fields) /\ field' = field + 1
    BY <1>1 DEF DecodeScalar, Read
  <2> HIDE DEF item
  <2> QED BY <2>1, <2>2, <2>3, AppendFollows
<1>2. ASSUME NEW p \in Pointers, DecodeString(p) PROVE AbiInv'
  <2>1. PICK text \in {0, p} : items' = Append(items, Item("string", Text(text)))
    BY <1>2 DEF DecodeString
  <2> DEFINE item == Item("string", Text(text))
  <2>2. "string" \in Kinds /\ Field.kind = "string" /\ Understood(field)
    BY <1>2 DEF DecodeString, Kinds, Understood, Field
  <2>3. item \in Items /\ item.nth = field /\ item.kind = Field.kind
    BY <2>2, ItemIsTyped, TextIsTyped DEF Item
  <2>4. /\ items' = Append(items, item) /\ pc' = "decode" /\ script' = script
        /\ field <= Len(Fields) /\ field' = field + 1
    BY <1>2, <2>1 DEF DecodeString, Read
  <2> HIDE DEF item
  <2> QED BY <2>2, <2>3, <2>4, AppendFollows
<1>3. CASE EndArray
  <2> DEFINE item == Item("array", array)
  <2>1. /\ "array" \in Kinds /\ array \in ArrayType
        /\ field <= Len(Fields) /\ Field.kind = "array" /\ Contains(Field.of)
    BY <1>3 DEF EndArray, Kinds, RunnerTypeOK, AbiInv
  <2>2. Understood(field)
    BY <2>1 DEF Understood, Field
  <2>3. item \in Items /\ item.nth = field /\ item.kind = Field.kind
    BY <2>1, ItemIsTyped DEF Item
  <2>4. /\ items' = Append(items, item) /\ pc' = "decode" /\ script' = script
        /\ field' = field + 1
    BY <1>3 DEF EndArray, Read
  <2> HIDE DEF item
  <2> QED BY <2>1, <2>2, <2>3, <2>4, AppendFollows
<1>4. CASE DecodeOther
  <2>1. ~Understood(field)
    BY <1>4 DEF DecodeOther, OtherKinds, Scalars, Understood, Field
  <2> QED BY <1>4, <2>1, PassedFollows DEF DecodeOther, Read
<1>5. CASE SkipArray
  <2>1. ~Understood(field)
    BY <1>5 DEF SkipArray, Scalars, Understood, Field
  <2> QED BY <1>5, <2>1, PassedFollows DEF SkipArray
<1>6. ASSUME script' = script, field' = field, items' = items,
             pc' = "element" => field <= Len(Fields) /\ Field.kind = "array" /\ Contains(Field.of),
             pc' = "done" => field > Len(Fields)
      PROVE  AbiInv'
  <2>1. Fields' = Fields /\ \A name : Contains(name)' = Contains(name)
    BY <1>6, FieldsStay
  <2>2. Field' = Field /\ Contains(Field.of)' = Contains(Field.of)
    BY <1>6, <2>1 DEF Field
  <2>3. \A m : Understood(m)' = Understood(m)
    BY <2>1 DEF Understood
  <2> QED BY <1>6, <2>1, <2>2, <2>3 DEF AbiInv
<1>7. CASE Report
  BY <1>6, <1>7 DEF Report, GoesTo, decoder
<1>8. ASSUME NEW header \in Pointers, NEW data \in Pointers, NEW length \in Lengths,
             DecodeArray(header, data, length)
      PROVE  AbiInv'
  BY <1>6, <1>8 DEF DecodeArray
<1>9. CASE UNCHANGED <<script, field, items>> /\ (pc' \notin {"element", "done"} \/ pc' = pc)
  BY <1>6, <1>9 DEF AbiInv
<1> QED
  BY <1>1, <1>2, <1>3, <1>4, <1>5, <1>7, <1>8, <1>9
  DEF RunnerNext, Proceed, Decode, ReadAbi, LinkImports, Instantiate, TakeExports, Fetch,
      WriteAnswer, CallProcess, DecodeElement, BadRead, Panics, GoesTo, runVars, decoder

LEMMA AbiInvHolds == RunnerSpec => []AbiInv
<1>1. RunnerInit => AbiInv
  <2> SUFFICES ASSUME RunnerInit PROVE AbiInv
    OBVIOUS
  <2>1. Len(Fields) \in Nat
    BY FieldsAreTyped DEF RunnerInit
  <2> QED BY <2>1 DEF RunnerInit, AbiInv
<1> QED BY <1>1, AbiInvKept, RunnerTypeCorrect, PTL DEF RunnerSpec

(* Whatever the ABI declares and the memory holds, the nth value of a      *)
(* result is that of the nth field the decoder understands: nothing is     *)
(* left out, doubled or moved (lines 274-374).                             *)
THEOREM ResultsFollowTheAbi == RunnerSpec => []ResultFollowsAbi
<1>1. RunnerTypeOK /\ AbiInv => ResultFollowsAbi
  <2> SUFFICES ASSUME RunnerTypeOK, AbiInv, pc = "done" PROVE ResultFollowsAbi
    BY DEF ResultFollowsAbi
  <2>1. Len(Fields) \in Nat /\ field \in Nat \ {0}
    BY FieldsAreTyped DEF RunnerTypeOK
  <2>2. field - 1 = Len(Fields)
    BY <2>1 DEF AbiInv
  <2>3. {items[i].nth : i \in 1..Len(items)} = {m \in 1..Len(Fields) : Understood(m)}
    BY <2>2 DEF AbiInv
  <2> QED BY <2>3 DEF AbiInv, ResultFollowsAbi
<1> QED BY <1>1, AbiInvHolds, RunnerTypeCorrect, PTL

-----------------------------------------------------------------------------
(* Where fields are read                                                   *)

(* After regular fields, the next one is read where the last one ends.     *)
(* That is a multiple of 4, and one of 8 if the number of fields of four   *)
(* bytes so far is even.                                                   *)
InStep ==
    /\ Regular(field - 1) =>
          /\ offset = end /\ end % 4 = 0
          /\ end % 8 = 0 <=> Cardinality(Before(field)) % 2 = 0
    /\ DecodedInPlace

LEMMA FourMore ==
    ASSUME NEW e \in Nat, NEW c \in Nat, e % 4 = 0, e % 8 = 0 <=> c % 2 = 0
    PROVE  (e + 4) % 4 = 0 /\ ((e + 4) % 8 = 0 <=> (c + 1) % 2 = 0)
<1>1. (e + 4) % 4 = 0
  OBVIOUS
<1>2. (c + 1) % 2 = 0 <=> c % 2 # 0
  OBVIOUS
<1>3. (e + 4) % 8 = 0 <=> e % 8 # 0
  OBVIOUS
<1> QED BY <1>1, <1>2, <1>3

LEMMA EightMore ==
    ASSUME NEW e \in Nat
    PROVE  (e % 8 = 0 => e % 4 = 0) /\ (e + 8) % 4 = e % 4 /\ (e + 8) % 8 = e % 8
  OBVIOUS

LEMMA BeforeNext ==
    ASSUME field \in Nat \ {0}
    PROVE  /\ IsFiniteSet(Before(field)) /\ Cardinality(Before(field)) \in Nat
           /\ Cardinality(Before(field + 1)) =
                 IF FourBytes(field) THEN Cardinality(Before(field)) + 1
                                     ELSE Cardinality(Before(field))
<1>1. IsFiniteSet(1..(field - 1))
  BY FS_Interval
<1>2. IsFiniteSet(Before(field)) /\ Cardinality(Before(field)) \in Nat
  BY <1>1, FS_Subset, FS_CardinalityType DEF Before
<1>3. \A m : m \in 1..((field + 1) - 1) <=> m = field \/ m \in 1..(field - 1)
  OBVIOUS
<1>4. field \notin Before(field)
  BY DEF Before
<1>5. CASE FourBytes(field)
  <2>1. Before(field + 1) = Before(field) \cup {field}
    BY <1>3, <1>5 DEF Before
  <2> QED BY <1>2, <1>4, <1>5, <2>1, FS_AddElement
<1>6. CASE ~FourBytes(field)
  <2>1. Before(field + 1) = Before(field)
    BY <1>3, <1>6 DEF Before
  <2> QED BY <1>2, <1>6, <2>1
<1> QED BY <1>5, <1>6

(* The same without the variable field.                                    *)
LEMMA LayoutStays ==
    ASSUME script' = script
    PROVE  /\ \A n : Regular(n)' = Regular(n)
           /\ \A n : Before(n)' = Before(n)
<1>1. Fields' = Fields /\ \A name : Contains(name)' = Contains(name)
  BY FieldsStay
<1>2. \A m : FourBytes(m)' = FourBytes(m) /\ EightBytes(m)' = EightBytes(m)
  BY <1>1 DEF FourBytes, EightBytes
<1>3. \A n : Before(n)' = Before(n)
  BY <1>2 DEF Before
<1> QED BY <1>2, <1>3 DEF Regular

LEMMA RegularSoFar ==
    ASSUME field \in Nat \ {0}, Regular(field)
    PROVE  /\ Regular(field - 1)
           /\ FourBytes(field) \/ (EightBytes(field) /\ Cardinality(Before(field)) % 2 = 0)
<1>1. field \in 1..field /\ \A m \in 1..(field - 1) : m \in 1..field
  OBVIOUS
<1> QED BY <1>1 DEF Regular

(* A regular field is read where it is, and the next one is in step.       *)
LEMMA FieldRead ==
    ASSUME RunnerTypeOK, InStep, Read(Field.kind), Regular(field)
    PROVE  /\ offset = Place(Field.kind)
           /\ offset' = end' /\ end' % 4 = 0
           /\ end' % 8 = 0 <=> Cardinality(Before(field + 1)) % 2 = 0
<1> DEFINE c == Cardinality(Before(field))
<1>1. offset \in Nat /\ end \in Nat /\ field \in Nat \ {0}
  BY DEF RunnerTypeOK
<1>2. /\ offset = end /\ end % 4 = 0
      /\ end % 8 = 0 <=> c % 2 = 0
  BY <1>1, RegularSoFar DEF InStep
<1>3. /\ c \in Nat
      /\ Cardinality(Before(field + 1)) = IF FourBytes(field) THEN c + 1 ELSE c
  BY <1>1, BeforeNext
<1>4. FourBytes(field) \/ (EightBytes(field) /\ c % 2 = 0)
  BY <1>1, RegularSoFar
<1>5. offset' = offset + Width(Field.kind) /\ end' = Place(Field.kind) + Size(Field.kind)
  BY DEF Read, MoveOn
<1> HIDE DEF c
<1>6. CASE FourBytes(field)
  <2>1. Width(Field.kind) = 4 /\ Size(Field.kind) = 4
    BY <1>6 DEF FourBytes, Width, Size, Field
  <2>2. Place(Field.kind) = end
    BY <1>2, <2>1 DEF Place
  <2>3. offset' = end + 4 /\ end' = end + 4
    BY <1>2, <1>5, <2>1, <2>2
  <2>4. (end + 4) % 4 = 0 /\ ((end + 4) % 8 = 0 <=> (c + 1) % 2 = 0)
    BY <1>1, <1>2, <1>3, FourMore
  <2> QED BY <1>2, <1>3, <1>6, <2>2, <2>3, <2>4
<1>7. CASE ~FourBytes(field)
  <2>1. Width(Field.kind) = 8 /\ Size(Field.kind) = 8
    BY <1>4, <1>7 DEF EightBytes, Width, Size, Field
  <2>2. Place(Field.kind) = end
    BY <1>2, <1>4, <1>7, <2>1 DEF Place
  <2>3. offset' = end + 8 /\ end' = end + 8
    BY <1>2, <1>5, <2>1, <2>2
  <2>4. (end + 8) % 4 = 0 /\ (end + 8) % 8 = end % 8
    BY <1>1, <1>2, EightMore
  <2> QED BY <1>2, <1>3, <1>7, <2>2, <2>3, <2>4
<1> QED BY <1>6, <1>7

LEMMA ItemInStep ==
    ASSUME RunnerTypeOK, InStep, script' = script, Read(Field.kind),
           Field.kind \in Kinds, NEW contents \in ArrayType,
           items' = Append(items, Item(Field.kind, contents))
    PROVE  InStep'
<1> DEFINE item == Item(Field.kind, contents)
<1>1. /\ items \in Seq(Items) /\ field \in Nat \ {0}
      /\ item \in Items /\ item.at = offset /\ item.home = Place(Field.kind) /\ item.nth = field
  BY ItemIsTyped DEF Item, RunnerTypeOK
<1>2. items' = Append(items, item)
  OBVIOUS
<1> HIDE DEF item
<1>3. /\ Len(items') = Len(items) + 1 /\ Len(items) \in Nat
      /\ items'[Len(items) + 1] = item /\ \A i \in 1..Len(items) : items'[i] = items[i]
  BY <1>1, <1>2
<1>4. \A i \in 1..Len(items') : i = Len(items) + 1 \/ i \in 1..Len(items)
  BY <1>3
<1>5. /\ \A n : Regular(n)' = Regular(n)
      /\ \A n : Before(n)' = Before(n)
  BY LayoutStays
<1>6. field' = field + 1 /\ field' - 1 = field
  BY <1>1 DEF Read
<1>7. \A i \in 1..Len(items') : Regular(items'[i].nth) => items'[i].at = items'[i].home
  BY <1>1, <1>3, <1>4, FieldRead DEF InStep, DecodedInPlace
<1>8. DecodedInPlace'
  BY <1>5, <1>7 DEF DecodedInPlace
<1>9. Regular(field' - 1) =>
         /\ offset' = end' /\ end' % 4 = 0
         /\ end' % 8 = 0 <=> Cardinality(Before(field')) % 2 = 0
  BY <1>6, FieldRead
<1> QED BY <1>5, <1>8, <1>9 DEF InStep

LEMMA InStepKept == RunnerTypeOK /\ AbiInv /\ InStep /\ [RunnerNext]_runVars => InStep'
<1> SUFFICES ASSUME RunnerTypeOK, AbiInv, InStep, [RunnerNext]_runVars PROVE InStep'
  OBVIOUS
<1>1. CASE DecodeScalar
  <2>1. Field.kind \in Kinds
    BY <1>1 DEF DecodeScalar, Scalars, Kinds
  <2> QED BY <1>1, <2>1, NoArrayIsTyped, ItemInStep DEF DecodeScalar
<1>2. ASSUME NEW p \in Pointers, DecodeString(p) PROVE InStep'
  <2>1. PICK text \in {0, p} : items' = Append(items, Item("string", Text(text)))
    BY <1>2 DEF DecodeString
  <2>2. Text(text) \in ArrayType
    BY TextIsTyped
  <2>3. "string" \in Kinds /\ Field.kind = "string"
    BY <1>2 DEF DecodeString, Kinds
  <2> QED BY <1>2, <2>1, <2>2, <2>3, ItemInStep DEF DecodeString
<1>3. CASE EndArray
  <2>1. "array" \in Kinds /\ array \in ArrayType /\ Field.kind = "array"
    BY <1>3 DEF EndArray, Kinds, RunnerTypeOK, AbiInv
  <2> QED BY <1>3, <2>1, ItemInStep DEF EndArray
<1>4. CASE DecodeOther
  <2>1. /\ \A n : Regular(n)' = Regular(n)
        /\ \A n : Before(n)' = Before(n)
    BY <1>4, LayoutStays DEF DecodeOther
  <2>2. field' = field + 1 /\ field' - 1 = field /\ items' = items
    BY <1>4 DEF DecodeOther, Read, RunnerTypeOK
  <2>3. Regular(field' - 1) =>
           /\ offset' = end' /\ end' % 4 = 0
           /\ end' % 8 = 0 <=> Cardinality(Before(field')) % 2 = 0
    BY <1>4, <2>2, FieldRead DEF DecodeOther
  <2> QED BY <2>1, <2>2, <2>3 DEF InStep, DecodedInPlace
<1>5. CASE SkipArray
  <2>1. \A n : Regular(n)' = Regular(n)
    BY <1>5, LayoutStays DEF SkipArray
  <2>2. field \in Nat \ {0} /\ field' - 1 = field /\ items' = items
    BY <1>5 DEF SkipArray, RunnerTypeOK
  <2>3. ~FourBytes(field) /\ ~EightBytes(field)
    BY <1>5 DEF SkipArray, FourBytes, EightBytes, Field
  <2>4. ~Regular(field)
    BY <2>2, <2>3, RegularSoFar
  <2> QED BY <2>1, <2>2, <2>4 DEF InStep, DecodedInPlace
<1>6. CASE UNCHANGED <<script, field, offset, items, end>>
  <2>1. /\ \A n : Regular(n)' = Regular(n)
        /\ \A n : Before(n)' = Before(n)
    BY <1>6, LayoutStays
  <2> QED BY <1>6, <2>1 DEF InStep, DecodedInPlace
<1> QED
  BY <1>1, <1>2, <1>3, <1>4, <1>5, <1>6
  DEF RunnerNext, Proceed, Decode, ReadAbi, LinkImports, Instantiate, TakeExports, Fetch,
      WriteAnswer, CallProcess, DecodeArray, DecodeElement, BadRead, Report, Panics, GoesTo,
      runVars, decoder

(* Whatever the ABI declares: a field is read where the object has it if   *)
(* it and all before it are of four bytes, or of eight after an even       *)
(* number of those (lines 270-374).                                        *)
THEOREM FieldsAreReadInPlace == RunnerSpec => []DecodedInPlace
<1>1. RunnerInit => InStep
  <2> SUFFICES ASSUME RunnerInit PROVE InStep
    OBVIOUS
  <2>1. Before(field) = {}
    BY DEF RunnerInit, Before
  <2>2. Cardinality(Before(field)) = 0
    BY <2>1, FS_EmptySet
  <2> QED BY <2>2 DEF RunnerInit, InStep, DecodedInPlace
<1>2. InStep => DecodedInPlace
  BY DEF InStep
<1> QED BY <1>1, <1>2, InStepKept, AbiInvHolds, RunnerTypeCorrect, PTL DEF RunnerSpec

-----------------------------------------------------------------------------
(* Imports                                                                 *)

Instantiated == {"exports", "fetch", "write", "call", "decode", "element", "done"}
Linked == Instantiated \cup {"instance"}

LinkInv ==
    /\ pc \in Linked => given = Cardinality(Imported({"func", "table"}))
                        /\ Imported({"unsupported"}) = {}
    /\ pc \in Instantiated => given = Len(script.imports)

LEMMA LinkInvKept == RunnerTypeOK /\ LinkInv /\ [RunnerNext]_runVars => LinkInv'
<1> SUFFICES ASSUME RunnerTypeOK, LinkInv, [RunnerNext]_runVars PROVE LinkInv'
  OBVIOUS
<1> USE DEF LinkInv, Linked, Instantiated, Imported
<1>1. CASE LinkImports
  BY <1>1 DEF LinkImports, GoesTo, Panics
<1>2. CASE Instantiate
  BY <1>2 DEF Instantiate, GoesTo, Panics, setup
<1>3. CASE ReadAbi
  BY <1>3 DEF ReadAbi, GoesTo, Panics, setup
<1>4. CASE UNCHANGED <<script, given>> /\ (pc' = "panic" \/ pc' = pc \/ pc \in Instantiated)
  BY <1>4 DEF RunnerTypeOK
<1>5. CASE UNCHANGED runVars
  BY <1>5 DEF runVars, setup
<1> QED
  BY <1>1, <1>2, <1>3, <1>4, <1>5
  DEF RunnerNext, Proceed, Decode, TakeExports, Fetch, WriteAnswer, CallProcess, DecodeScalar,
      DecodeString, DecodeOther, SkipArray, DecodeArray, DecodeElement, EndArray, BadRead,
      Report, Panics, GoesTo, setup, Decoding

(* A script with an import that is neither a function nor a table never    *)
(* gives a result (lines 181-219).                                         *)
THEOREM OnlyLinkedScriptsFinish == RunnerSpec => []ResultNeedsItsImports
<1>1. RunnerInit => LinkInv
  BY DEF RunnerInit, LinkInv, Linked, Instantiated
<1>2. RunnerTypeOK /\ LinkInv => ResultNeedsItsImports
  <2> SUFFICES ASSUME RunnerTypeOK, LinkInv, pc = "done",
                      NEW i \in Imported({"global", "unsupported"})
               PROVE  FALSE
    BY DEF ResultNeedsItsImports
  <2> DEFINE all == 1..Len(script.imports)
             linked == Imported({"func", "table"})
  <2>1. script.imports \in Seq(ImportKinds)
    BY ScriptRunnerAssumption DEF RunnerTypeOK, ScriptType
  <2>2. IsFiniteSet(all) /\ Cardinality(all) = Len(script.imports)
    BY <2>1, FS_Interval
  <2>3. linked \subseteq all /\ i \in all /\ i \notin linked
    BY DEF Imported
  <2>4. Cardinality(linked) = Cardinality(all)
    BY <2>2 DEF LinkInv, Linked, Instantiated
  <2>5. linked = all
    BY <2>2, <2>3, <2>4, FS_Subset
  <2> QED BY <2>3, <2>5
<1> QED BY <1>1, <1>2, LinkInvKept, RunnerTypeCorrect, PTL DEF RunnerSpec

-----------------------------------------------------------------------------
(* Lists                                                                   *)

(* The list that is being decoded leaves out the nulls seen so far.        *)
ListInv ==
    /\ pc = "element" => OnlyNullsLeftOut(array.values, array.seen)
    /\ NullsAndOnlyNulls

LEMMA NothingSeen == OnlyNullsLeftOut(<<>>, <<>>)
<1> DEFINE from == [k \in 1..0 |-> k]
<1>1. NonNull(<<>>) = {} /\ 1..Len(<<>>) = {}
  BY DEF NonNull
<1>2. from \in [1..Len(<<>>) -> NonNull(<<>>)]
  OBVIOUS
<1> HIDE DEF from
<1> QED BY <1>1, <1>2 DEF OnlyNullsLeftOut

LEMMA SeenOneMore ==
    ASSUME NEW seen \in Seq(Nat), NEW p \in Nat
    PROVE  /\ Append(seen, p) \in Seq(Nat) /\ Len(Append(seen, p)) = Len(seen) + 1
           /\ Len(seen) \in Nat
           /\ Append(seen, p)[Len(seen) + 1] = p
           /\ \A i \in 1..Len(seen) : Append(seen, p)[i] = seen[i]
  OBVIOUS

LEMMA NullSeen ==
    ASSUME NEW values \in Seq(Nat), NEW seen \in Seq(Nat), OnlyNullsLeftOut(values, seen)
    PROVE  OnlyNullsLeftOut(values, Append(seen, 0))
<1>1. PICK from \in [1..Len(values) -> NonNull(seen)] :
         /\ \A i \in NonNull(seen) : \E k \in 1..Len(values) : from[k] = i
         /\ \A k, l \in 1..Len(values) : k < l => from[k] < from[l]
         /\ \A k \in 1..Len(values) : values[k] = seen[from[k]]
  BY DEF OnlyNullsLeftOut
<1> DEFINE now == Append(seen, 0)
<1>2. /\ Len(now) = Len(seen) + 1 /\ Len(seen) \in Nat /\ now[Len(seen) + 1] = 0
      /\ \A i \in 1..Len(seen) : now[i] = seen[i]
  BY SeenOneMore
<1> HIDE DEF now
<1>3. NonNull(now) = NonNull(seen) /\ NonNull(seen) \subseteq 1..Len(seen)
  BY <1>2 DEF NonNull
<1>4. \A k \in 1..Len(values) : values[k] = now[from[k]]
  BY <1>1, <1>2, <1>3
<1>5. OnlyNullsLeftOut(values, now)
  BY <1>1, <1>3, <1>4 DEF OnlyNullsLeftOut
<1> QED BY <1>5 DEF now

LEMMA ElementSeen ==
    ASSUME NEW values \in Seq(Nat), NEW seen \in Seq(Nat), OnlyNullsLeftOut(values, seen),
           NEW p \in Nat, p # 0
    PROVE  OnlyNullsLeftOut(Append(values, p), Append(seen, p))
<1>1. PICK from \in [1..Len(values) -> NonNull(seen)] :
         /\ \A i \in NonNull(seen) : \E k \in 1..Len(values) : from[k] = i
         /\ \A k, l \in 1..Len(values) : k < l => from[k] < from[l]
         /\ \A k \in 1..Len(values) : values[k] = seen[from[k]]
  BY DEF OnlyNullsLeftOut
<1> DEFINE n == Len(values)
           m == Len(seen)
           list == Append(values, p)
           now == Append(seen, p)
           to == [k \in 1..(n + 1) |-> IF k = n + 1 THEN m + 1 ELSE from[k]]
<1>2. /\ Len(now) = m + 1 /\ m \in Nat /\ now[m + 1] = p
      /\ \A i \in 1..m : now[i] = seen[i]
  BY SeenOneMore
<1>3. /\ Len(list) = n + 1 /\ n \in Nat /\ list[n + 1] = p
      /\ \A k \in 1..n : list[k] = values[k]
  BY SeenOneMore
<1>4. \A i \in NonNull(seen) : i \in 1..m
  BY DEF NonNull
<1>5. \A k \in 1..n : from[k] \in NonNull(seen) /\ from[k] \in 1..m
  BY <1>4
<1>6. \A k \in 1..(n + 1) : to[k] = IF k = n + 1 THEN m + 1 ELSE from[k]
  OBVIOUS
<1>7. \A k \in 1..(n + 1) : k # n + 1 => k \in 1..n
  BY <1>3
<1>8. NonNull(now) = NonNull(seen) \cup {m + 1}
  <2> HIDE DEF now, m
  <2>1. \A i \in 1..(m + 1) : i = m + 1 \/ i \in 1..m
    BY <1>2
  <2>2. m + 1 \in 1..(m + 1) /\ \A i \in 1..m : i \in 1..(m + 1)
    BY <1>2
  <2> QED BY <1>2, <2>1, <2>2 DEF NonNull, m
<1>9. to \in [1..(n + 1) -> NonNull(now)]
  BY <1>5, <1>7, <1>8
<1> HIDE DEF to, now, list
<1>10. ASSUME NEW i \in NonNull(now) PROVE \E k \in 1..(n + 1) : to[k] = i
  <2>1. CASE i = m + 1
    <3>1. n + 1 \in 1..(n + 1)
      BY <1>3
    <3> QED BY <1>6, <2>1, <3>1
  <2>2. CASE i \in NonNull(seen)
    <3>1. PICK k \in 1..n : from[k] = i
      BY <1>1, <2>2
    <3>2. k \in 1..(n + 1) /\ k # n + 1
      BY <1>3
    <3> QED BY <1>6, <3>1, <3>2
  <2> QED BY <1>8, <2>1, <2>2
<1>11. ASSUME NEW k \in 1..(n + 1), NEW l \in 1..(n + 1), k < l PROVE to[k] < to[l]
  <2>1. k # n + 1 /\ k \in 1..n /\ to[k] = from[k] /\ from[k] \in 1..m
    BY <1>3, <1>5, <1>6, <1>11
  <2>2. CASE l = n + 1
    <3>1. to[l] = m + 1
      BY <1>6, <2>2
    <3> QED BY <1>2, <2>1, <3>1
  <2>3. CASE l # n + 1
    <3>1. l \in 1..n /\ to[l] = from[l]
      BY <1>6, <1>7, <2>3
    <3> QED BY <1>1, <1>11, <2>1, <3>1
  <2> QED BY <2>2, <2>3
<1>12. ASSUME NEW k \in 1..(n + 1) PROVE list[k] = now[to[k]]
  <2>1. CASE k = n + 1
    BY <1>2, <1>3, <1>6, <2>1
  <2>2. CASE k # n + 1
    <3>1. k \in 1..n /\ to[k] = from[k] /\ from[k] \in 1..m
      BY <1>5, <1>6, <1>7, <2>2
    <3>2. list[k] = values[k] /\ now[from[k]] = seen[from[k]]
      BY <1>2, <1>3, <3>1
    <3> QED BY <1>1, <3>1, <3>2
  <2> QED BY <2>1, <2>2
<1>13. OnlyNullsLeftOut(list, now)
  <2> HIDE DEF n, m
  <2>1. /\ \A i \in NonNull(now) : \E k \in 1..(n + 1) : to[k] = i
        /\ \A k, l \in 1..(n + 1) : k < l => to[k] < to[l]
        /\ \A k \in 1..(n + 1) : list[k] = now[to[k]]
    BY <1>10, <1>11, <1>12
  <2>2. Len(list) = n + 1
    BY <1>3
  <2> QED BY <1>9, <2>1, <2>2 DEF OnlyNullsLeftOut
<1> QED BY <1>13 DEF list, now

LEMMA ElementKeepsList ==
    ASSUME RunnerTypeOK, ListInv, NEW p \in Pointers, DecodeElement(p)
    PROVE  ListInv'
<1>1. array.values \in Seq(Nat) /\ array.seen \in Seq(Nat) /\ p \in Nat
  BY InputsAreNumbers DEF RunnerTypeOK, ArrayType
<1>2. OnlyNullsLeftOut(array.values, array.seen)
  BY DEF ListInv, DecodeElement
<1> DEFINE values == IF p = 0 THEN array.values ELSE Append(array.values, p)
           seen == Append(array.seen, p)
<1>3. OnlyNullsLeftOut(values, seen)
  BY <1>1, <1>2, NullSeen, ElementSeen
<1>4. array' = [array EXCEPT !.seen = seen, !.values = values] /\ items' = items
  BY DEF DecodeElement
<1> HIDE DEF values, seen
<1>5. array'.values = values /\ array'.seen = seen
  BY <1>4 DEF RunnerTypeOK, ArrayType
<1> QED BY <1>3, <1>4, <1>5 DEF ListInv, NullsAndOnlyNulls

LEMMA ItemKeepsLists ==
    ASSUME RunnerTypeOK, NullsAndOnlyNulls, NEW item \in Items, items' = Append(items, item),
           item.kind = "array" => /\ OnlyNullsLeftOut(item.array.values, item.array.seen)
                                  /\ Len(item.array.seen) = item.array.length
    PROVE  NullsAndOnlyNulls'
<1>1. /\ items \in Seq(Items) /\ Len(items') = Len(items) + 1 /\ Len(items) \in Nat
      /\ items'[Len(items) + 1] = item /\ \A i \in 1..Len(items) : items'[i] = items[i]
  BY DEF RunnerTypeOK
<1>2. \A i \in 1..Len(items') : i = Len(items) + 1 \/ i \in 1..Len(items)
  BY <1>1
<1> QED BY <1>1, <1>2 DEF NullsAndOnlyNulls

LEMMA ListInvKept == RunnerTypeOK /\ ListInv /\ [RunnerNext]_runVars => ListInv'
<1> SUFFICES ASSUME RunnerTypeOK, ListInv, [RunnerNext]_runVars PROVE ListInv'
  OBVIOUS
<1>1. NullsAndOnlyNulls
  BY DEF ListInv
<1>2. CASE DecodeScalar
  <2> DEFINE item == Item(Field.kind, NoArray)
  <2>1. Field.kind \in Kinds /\ Field.kind # "array"
    BY <1>2 DEF DecodeScalar, Scalars, Kinds
  <2>2. item \in Items /\ item.kind # "array"
    BY <2>1, ItemIsTyped, NoArrayIsTyped DEF Item
  <2>3. items' = Append(items, item) /\ pc' # "element"
    BY <1>2 DEF DecodeScalar, Decoding
  <2> HIDE DEF item
  <2> QED BY <1>1, <2>2, <2>3, ItemKeepsLists DEF ListInv
<1>3. ASSUME NEW p \in Pointers, DecodeString(p) PROVE ListInv'
  <2>1. PICK text \in {0, p} : items' = Append(items, Item("string", Text(text)))
    BY <1>3 DEF DecodeString
  <2> DEFINE item == Item("string", Text(text))
  <2>2. "string" \in Kinds
    BY DEF Kinds
  <2>3. item \in Items /\ item.kind # "array"
    BY <2>2, ItemIsTyped, TextIsTyped DEF Item
  <2>4. items' = Append(items, item) /\ pc' # "element"
    BY <1>3, <2>1 DEF DecodeString, Decoding
  <2> HIDE DEF item
  <2> QED BY <1>1, <2>3, <2>4, ItemKeepsLists DEF ListInv
<1>4. CASE EndArray
  <2> DEFINE item == Item("array", array)
  <2>1. "array" \in Kinds /\ array \in ArrayType
    BY DEF Kinds, RunnerTypeOK
  <2>2. item \in Items /\ item.array = array
    BY <2>1, ItemIsTyped DEF Item
  <2>3. /\ OnlyNullsLeftOut(array.values, array.seen) /\ Len(array.seen) = array.length
        /\ items' = Append(items, item) /\ pc' # "element"
    BY <1>4 DEF EndArray, ListInv
  <2> HIDE DEF item
  <2> QED BY <1>1, <2>2, <2>3, ItemKeepsLists DEF ListInv
<1>5. ASSUME NEW header \in Pointers, NEW data \in Pointers, NEW length \in Lengths,
             DecodeArray(header, data, length)
      PROVE  ListInv'
  <2>1. array' = ArrayAt(data, length) /\ items' = items
    BY <1>5 DEF DecodeArray
  <2>2. array'.values = <<>> /\ array'.seen = <<>>
    BY <2>1 DEF ArrayAt
  <2> QED BY <1>1, <2>1, <2>2, NothingSeen DEF ListInv, NullsAndOnlyNulls
<1>6. CASE items' = items /\ (pc' # "element" \/ UNCHANGED <<pc, array>>)
  BY <1>6 DEF ListInv, NullsAndOnlyNulls
<1> QED
  BY <1>2, <1>3, <1>4, <1>5, <1>6, ElementKeepsList
  DEF RunnerNext, Proceed, Decode, ReadAbi, LinkImports, Instantiate, TakeExports, Fetch,
      WriteAnswer, CallProcess, DecodeOther, SkipArray, BadRead, Report, Panics, GoesTo,
      runVars, decoder, setup, Decoding

(* The list in a result is the array without its nulls, complete and in    *)
(* order, whatever the memory of the script holds (lines 333-350).         *)
THEOREM ListsLoseOnlyNulls == RunnerSpec => []NullsAndOnlyNulls
<1>1. RunnerInit => ListInv
  BY DEF RunnerInit, ListInv, NullsAndOnlyNulls
<1>2. ListInv => NullsAndOnlyNulls
  BY DEF ListInv
<1> QED BY <1>1, <1>2, ListInvKept, RunnerTypeCorrect, PTL DEF RunnerSpec
=============================================================================
