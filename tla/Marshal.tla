------------------------------- MODULE Marshal -------------------------------
(***************************************************************************)
(* Context.create and Value.Unmarshal as functions between Go values and   *)
(* JS values.  A Go type is a sequence: its kind, then the kinds of its    *)
(* elements, as <<"slice", "ptr", "int">> for []*int; []byte is <<"bytes">>.*)
(* A Go pointer is <<>> or <<x>>; a slice or a map is a record with nil.   *)
(* The struct types have a pointer, a small integer and a string as their  *)
(* tagged fields, and no V8Construct; a struct tells its type, as a        *)
(* reflect.Value does.  What its wrapper is, is in Create.  Strings pass   *)
(* unchanged.                                                              *)
(*                                                                         *)
(* Integers go through float64, a number with MantissaBits of precision,   *)
(* and come back as int64, a word of WordBits.                             *)
(***************************************************************************)
EXTENDS Integers, Sequences

CONSTANTS
    MantissaBits,
    WordBits,
    IntKinds,       \* [kind -> [signed, bits]]
    StructKinds,    \* struct types
    GoTypes,        \* Go types, with the types of their elements
    MaxNesting,     \* the length of the longest of them
    Texts,          \* strings
    Keys,           \* property names
    IndexKeys,      \* the names of the indexes of an array, in order
    Samples,        \* the Go values of each type that go to JavaScript and back
    Passed          \* the JS values that are to be any of the types

Compound == {"ptr", "slice", "map"}

Power[n \in 0..(MantissaBits + WordBits)] == IF n = 0 THEN 1 ELSE 2 * Power[n - 1]

MaxWord == Power[WordBits - 1] - 1
MinWord == -Power[WordBits - 1]

Lowest(kind) == IF IntKinds[kind].signed THEN -Power[IntKinds[kind].bits - 1] ELSE 0
Highest(kind) == Lowest(kind) + Power[IntKinds[kind].bits] - 1
Word(kind) == Lowest(kind)..Highest(kind)

\* Mutant: what does not fit is left as it is.
Convert_Kept(kind, n) == n

(* Go's conversion of an int64: the low bits, in two's complement. *)
Convert(kind, n) == Lowest(kind) + ((n - Lowest(kind)) % Power[IntKinds[kind].bits])

-----------------------------------------------------------------------------
(* The values that a Go variable of a type can hold *)

Optional(S) == {s \in Seq(S) : Len(s) <= 1}
Lists(S) == {s \in Seq(S) : Len(s) <= MaxWord}
SliceOf(S) == {s \in [nil : BOOLEAN, items : Lists(S)] : s.nil => s.items = <<>>}
MapOf(S) == [nil : BOOLEAN, entries : [Keys -> Optional(S)]]
Structs == [type : StructKinds, n : Optional(Word("int")), small : Word("int8"), text : Texts]
StructsOf(kind) == {x \in Structs : x.type = kind}

HeldBy(type, elem) ==
    LET kind == Head(type) IN
    CASE kind \in DOMAIN IntKinds -> Word(kind)
      [] kind = "bool"   -> BOOLEAN
      [] kind = "string" -> Texts
      [] kind = "bytes"  -> SliceOf(Word("uint8"))
      [] kind \in StructKinds -> StructsOf(kind)
      [] kind = "ptr"    -> Optional(elem)
      [] kind = "slice"  -> SliceOf(elem)
      [] kind = "map"    -> MapOf(elem)
      [] OTHER           -> {kind}

Held[type \in GoTypes] == HeldBy(type, Held[Tail(type)])

-----------------------------------------------------------------------------
(* JS values, and what native code tells of them.  What an object has under *)
(* a name is <<v>>, or <<>> for nothing.                                   *)

JsKinds == {"undefined", "null", "symbol", "boolean", "number", "string", "buffer", "wrapper", "array", "object"}

Scalars ==
    [js : {"undefined", "null", "symbol"}] \cup [js : {"boolean"}, true : BOOLEAN]
        \cup [js : {"number"}, number : Int] \cup [js : {"string"}, string : Texts]
        \cup [js : {"buffer"}, bytes : Lists(Word("uint8"))]
Wrappers == [js : {"wrapper"}, receiver : Structs, fields : [Keys -> Optional(Scalars)]]

NestedIn(values) ==
    Scalars \cup Wrappers \cup [js : {"array"}, items : Lists(values)]
        \cup [js : {"object"}, fields : [Keys -> Optional(values)]]

(* Values with n others in one another. *)
Nested[n \in 0..MaxNesting] == IF n = 0 THEN Scalars \cup Wrappers ELSE NestedIn(Nested[n - 1])

JsValues == Nested[MaxNesting]

Undefined == [js |-> "undefined"]
NumberOf(n) == [js |-> "number", number |-> n]

IsNil(v) == v.js \in {"undefined", "null"}
IsObject(v) == v.js \in {"array", "object", "wrapper", "buffer"}

\* Mutant: numbers that are no word are read modulo its size.
IntegerValue_Wrapped(v) ==
    CASE v.js = "number" -> MinWord + ((v.number - MinWord) % Power[WordBits])
      [] v.js = "boolean" -> IF v.true THEN 1 ELSE 0
      [] OTHER -> 0

(* IntegerValue saturates.  No string or object here has a numeric text. *)
IntegerValue(v) ==
    CASE v.js = "number" -> IF v.number > MaxWord THEN MaxWord
                            ELSE IF v.number < MinWord THEN MinWord ELSE v.number
      [] v.js = "boolean" -> IF v.true THEN 1 ELSE 0
      [] OTHER -> 0

Truth(v) ==
    CASE v.js = "boolean" -> v.true
      [] v.js = "number" -> v.number # 0
      [] v.js = "string" -> v.string # ""
      [] OTHER -> ~IsNil(v)

(* The text of any other value is told by its kind. *)
Text(v) == IF v.js = "string" THEN v.string ELSE v.js

OwnKeys(v) ==
    CASE v.js = "array" -> {IndexKeys[i] : i \in DOMAIN v.items}
      [] v.js \in {"object", "wrapper"} -> {k \in Keys : v.fields[k] # <<>>}
      [] OTHER -> {}

Index(v, i) == IF v.js = "array" /\ i \in DOMAIN v.items THEN v.items[i] ELSE Undefined

(* Value.Get of an object *)
Property(v, key) ==
    CASE v.js = "array" /\ key = "length" -> NumberOf(Len(v.items))
      [] v.js = "array" /\ key \in OwnKeys(v) ->
            Index(v, CHOOSE i \in DOMAIN v.items : IndexKeys[i] = key)
      [] v.js \in {"object", "wrapper"} /\ key \in OwnKeys(v) -> v.fields[key][1]
      [] OTHER -> Undefined

-----------------------------------------------------------------------------
(* Results *)

Ok(x) == [result |-> "value", value |-> x]
Error == [result |-> "error"]
Panic == [result |-> "panic"]
Invalid == [result |-> "invalid"]     \* the zero reflect.Value, without an error
Other(x) == [result |-> "other", value |-> x]     \* x is of another type, without an error

IsOk(r) == r.result = "value"
Values(results) == [i \in DOMAIN results |-> results[i].value]

(* The first of the results that is not a value ends the whole. *)
InOrder(results, whole) ==
    LET bad == {i \in DOMAIN results : ~IsOk(results[i])} IN
    IF bad = {} THEN Ok(whole) ELSE results[CHOOSE i \in bad : \A j \in bad : i <= j]

(* Any one that fails does.  Others may be Invalid. *)
InAnyOrder(results, whole) ==
    LET bad == {k \in DOMAIN results : results[k].result \in {"error", "panic"}} IN
    IF bad = {} THEN Ok(whole) ELSE results[CHOOSE k \in bad : TRUE]

-----------------------------------------------------------------------------
(* Context.create *)

Abs(n) == IF n < 0 THEN -n ELSE n

(* The exponent that a number with MantissaBits needs. *)
Exponent(n) ==
    CHOOSE e \in 0..WordBits :
        /\ Abs(n) < Power[MantissaBits + e]
        /\ e > 0 => Abs(n) >= Power[MantissaBits + e - 1]

(* The nearest number with MantissaBits, halves to even. *)
Rounded(n) ==
    LET step == Power[Exponent(n)]
        low == Abs(n) \div step
        rest == Abs(n) % step
        up == 2 * rest > step \/ (2 * rest = step /\ low % 2 = 1)
        mag == (IF up THEN low + 1 ELSE low) * step
    IN IF n < 0 THEN -mag ELSE mag

CreateScalar(kind, x) ==
    CASE kind = "bytes" -> IF x.nil THEN Ok(Undefined) ELSE Ok([js |-> "buffer", bytes |-> x.items])
      [] kind = "string" -> Ok([js |-> "string", string |-> x])
      [] kind = "bool" -> Ok([js |-> "boolean", true |-> x])
      [] kind \in DOMAIN IntKinds -> Ok(NumberOf(Rounded(x)))
      [] OTHER -> Error

CreateStruct(x) ==
    [js |-> "wrapper", receiver |-> x,
     fields |-> [k \in Keys |->
        CASE k = "n" -> IF x.n = <<>> THEN <<Undefined>> ELSE <<NumberOf(Rounded(x.n[1]))>>
          [] k = "small" -> <<NumberOf(Rounded(x.small))>>
          [] k = "text" -> <<[js |-> "string", string |-> x.text]>>
          [] OTHER -> <<>>]]

(* A struct is wrapped under its address, so it must have one. *)
CreateBy(type, elem) ==
    [addressable \in BOOLEAN |-> [x \in Held[type] |->
        LET kind == Head(type) IN
        CASE kind = "ptr" -> IF x = <<>> THEN Ok(Undefined) ELSE elem[TRUE][x[1]]
          [] kind = "slice" ->
                LET results == [i \in DOMAIN x.items |-> elem[TRUE][x.items[i]]] IN
                IF x.nil THEN Ok(Undefined)
                ELSE InOrder(results, [js |-> "array", items |-> Values(results)])
          [] kind = "map" ->
                LET keys == {k \in Keys : x.entries[k] # <<>>}
                    results == [k \in keys |-> elem[FALSE][x.entries[k][1]]]
                    fields == [k \in Keys |-> IF k \in keys THEN <<results[k].value>> ELSE <<>>]
                IN IF x.nil THEN Ok(Undefined)
                   ELSE InAnyOrder(results, [js |-> "object", fields |-> fields])
          [] kind \in StructKinds -> IF addressable THEN Ok(CreateStruct(x)) ELSE Panic
          [] OTHER -> CreateScalar(kind, x)]]

Create[type \in GoTypes] == CreateBy(type, Create[Tail(type)])

-----------------------------------------------------------------------------
(* Value.Unmarshal *)

UnmarshalScalar(v, kind) ==
    CASE kind = "string" -> Ok(Text(v))
      [] kind = "bool" -> Ok(Truth(v))
      [] kind \in DOMAIN IntKinds -> Ok(Convert(kind, IntegerValue(v)))
      [] OTHER -> Panic

(* The receiver is answered whatever its type. *)
Received(x, kind, v) == IF x.type = kind THEN Ok(v) ELSE Other(v)

(* Set and SetMapIndex refuse a value of another type. *)
Assignable(elem) ==
    [v \in JsValues |-> IF elem[v].result = "other" THEN Panic ELSE elem[v]]

(* MakeSlice refuses a negative length, and Set the zero reflect.Value. *)
UnmarshalSlice(v, elem) ==
    LET length == IntegerValue(Property(v, "length"))
        Item(i) == IF elem[Index(v, i)] = Invalid THEN Panic ELSE elem[Index(v, i)]
        results == [i \in 1..length |-> Item(i)] IN
    IF ~IsObject(v) THEN Error
    ELSE IF length < 0 THEN Panic
    ELSE InOrder(results, [nil |-> FALSE, items |-> Values(results)])

(* The bytes of an empty buffer are nil. *)
UnmarshalBytes(v) ==
    IF v.js = "buffer" THEN Ok([nil |-> v.bytes = <<>>, items |-> v.bytes])
    ELSE UnmarshalSlice(v, [item \in JsValues |-> UnmarshalScalar(item, "uint8")])

(* SetMapIndex with the zero reflect.Value deletes the key.  Object.keys    *)
(* refuses nil, and Get what it lists for a string, its characters.        *)
UnmarshalMap(v, elem) ==
    LET results == [k \in OwnKeys(v) |-> elem[Property(v, k)]]
        Entry(k) == IF k \in OwnKeys(v) /\ IsOk(results[k]) THEN <<results[k].value>> ELSE <<>> IN
    IF IsNil(v) \/ (v.js = "string" /\ v.string # "") THEN Error
    ELSE InAnyOrder(results, [nil |-> FALSE, entries |-> [k \in Keys |-> Entry(k)]])

UnmarshalPointer(v, kind) ==
    CASE kind \in StructKinds ->
            IF v.js = "wrapper" THEN Received(v.receiver, kind, <<v.receiver>>) ELSE Invalid
      [] kind \in {"int", "string"} ->
            IF IsNil(v) THEN Ok(<<>>) ELSE Ok(<<UnmarshalScalar(v, kind).value>>)
      [] OTHER -> Panic

(* A pointer field is filled with its element, unless that is zero. *)
UnmarshalStruct(v, struct) ==
    LET Int64(key, kind) == Convert(kind, IntegerValue(Property(v, key))) IN
    IF v.js = "wrapper" THEN Received(v.receiver, struct, v.receiver)
    ELSE IF ~IsObject(v) THEN Error
    ELSE Ok([type |-> struct,
             n |-> IF Int64("n", "int") = 0 THEN <<>> ELSE <<Int64("n", "int")>>,
             small |-> Int64("small", "int8"),
             text |-> Text(Property(v, "text"))])

UnmarshalBy(type, elem) ==
    [v \in JsValues |->
        LET kind == Head(type) IN
        CASE kind = "ptr" -> UnmarshalPointer(v, Head(Tail(type)))
          [] kind = "slice" -> UnmarshalSlice(v, Assignable(elem))
          [] kind = "bytes" -> UnmarshalBytes(v)
          [] kind = "map" -> UnmarshalMap(v, Assignable(elem))
          [] kind \in StructKinds -> UnmarshalStruct(v, kind)
          [] OTHER -> UnmarshalScalar(v, kind)]

Unmarshal[type \in GoTypes] == UnmarshalBy(type, Unmarshal[Tail(type)])

-----------------------------------------------------------------------------
(* Assumptions on the constants *)

ASSUME IntegersAssumption ==
    /\ MantissaBits \in Nat \ {0} /\ WordBits \in Nat \ {0, 1}
    /\ IntKinds \in [DOMAIN IntKinds -> [signed : BOOLEAN, bits : 1..WordBits]]
    /\ {"int", "int8", "uint8"} \subseteq DOMAIN IntKinds
    /\ DOMAIN IntKinds \cap ({"bool", "string", "bytes"} \cup Compound) = {}

ASSUME StructsAssumption ==
    StructKinds \cap ({"bool", "string", "bytes"} \cup Compound \cup DOMAIN IntKinds) = {}

ASSUME GoTypesAssumption ==
    /\ MaxNesting \in Nat
    /\ \A type \in GoTypes :
          /\ type \in Seq(STRING) /\ Len(type) \in 1..MaxNesting
          /\ IF Head(type) \in Compound THEN Tail(type) \in GoTypes ELSE Tail(type) = <<>>

ASSUME KeysAssumption ==
    /\ {"n", "small", "text"} \subseteq Keys
    /\ IndexKeys \in [1..MaxWord -> Keys \ {"n", "small", "text", "length"}]
    /\ \A i, j \in DOMAIN IndexKeys : IndexKeys[i] = IndexKeys[j] => i = j

ASSUME TextsAssumption == JsKinds \subseteq Texts

ASSUME SamplesAssumption ==
    /\ \A type \in GoTypes : \A x \in Samples[type] : x \in Held[type]
    /\ \A v \in Passed : v \in JsValues

-----------------------------------------------------------------------------
(* What survives the way to JavaScript and back *)

Exact(n) == \E e \in 0..WordBits, m \in 0..(Power[MantissaBits] - 1) : Abs(n) = m * Power[e]

FaithfulBy(type, elem) ==
    [addressable \in BOOLEAN |-> {x \in Held[type] :
        LET kind == Head(type)  of == Head(Tail(type)) IN
        CASE kind \in DOMAIN IntKinds -> x = MaxWord \/ (Exact(x) /\ x <= MaxWord)
          [] kind = "ptr" -> IF x = <<>> THEN of \in {"int", "string"}
                             ELSE of \in {"int", "string"} \cup StructKinds /\ x[1] \in elem[TRUE]
          [] kind = "slice" -> ~x.nil /\ \A i \in DOMAIN x.items : x.items[i] \in elem[TRUE]
          [] kind = "map" ->
                ~x.nil /\ \A k \in Keys : x.entries[k] # <<>> => x.entries[k][1] \in elem[FALSE]
          [] kind \in StructKinds -> addressable
          [] kind = "bytes" -> x.items # <<>>
          [] OTHER -> kind \in {"string", "bool"}}]

(* The values that come back as they were. *)
Faithful[type \in GoTypes] == FaithfulBy(type, Faithful[Tail(type)])

RoundTrips(type, x) ==
    LET made == Create[type][FALSE][x] IN IsOk(made) /\ Unmarshal[type][made.value] = Ok(x)
=============================================================================
