------------------------------ MODULE MCCreate ------------------------------
(* A small world of types for model-checking Create (Leaf embeds Left and Right),
   and samples of Go and JS values for the functions of Marshal. *)
EXTENDS Boundary, SequencesExt, TLC

MCTypes == {"Left", "Right", "Leaf"}
MCNames == MCTypes
MCOwn == [type \in MCTypes |-> {type}]
MCBases == [type \in MCTypes |->
    CASE type = "Leaf" -> <<"Left", "Right">> [] OTHER -> <<>>]
MCLazy == {"Leaf"}

\* part is the Left that is embedded in leaf1.
MCObjects == {"leaf1", "part", "leaf2", "error"}
MCTypeOf == [o \in MCObjects |-> CASE o \in {"leaf1", "leaf2"} -> "Leaf"
                                   [] o = "part" -> "Left"
                                   [] OTHER -> "Error"]
MCAddressOf == [o \in MCObjects |-> IF o = "part" THEN "leaf1" ELSE o]
MCAddresses == MCObjects \ {"part"}

MCIntKinds ==
    [kind \in {"int", "uint64", "uint8", "int8"} |->
        [signed |-> kind \in {"int", "int8"},
         bits |-> CASE kind \in {"int", "uint64"} -> WordBits [] OTHER -> 3]]

MCGoTypes ==
    {<<"int">>, <<"uint64">>, <<"uint8">>, <<"int8">>, <<"bool">>, <<"string">>, <<"bytes">>, <<"chan">>,
     <<"structA">>, <<"structB">>, <<"ptr", "int">>, <<"ptr", "int8">>, <<"ptr", "string">>,
     <<"ptr", "structA">>, <<"ptr", "structB">>,
     <<"slice", "int">>, <<"slice", "ptr", "structA">>, <<"slice", "structA">>, <<"slice", "bool">>,
     <<"slice", "slice", "bool">>, <<"map", "ptr", "string">>, <<"map", "ptr", "structA">>,
     <<"map", "structA">>, <<"slice", "uint64">>, <<"map", "slice", "uint64">>}

MCIndexKeys == [i \in 1..MaxWord |-> ToString(i - 1)]
MCKeys == {"n", "small", "text", "length", "a", "b"} \cup {MCIndexKeys[i] : i \in DOMAIN MCIndexKeys}

MCTexts == STRING

MCStructKinds == {"structA", "structB"}

MCStructs(kind) == {[type |-> kind, n |-> <<>>, small |-> 3, text |-> ""],
                    [type |-> kind, n |-> <<7>>, small |-> -4, text |-> "t"]}

Pointers(xs) == {<<>>} \cup {<<x>> : x \in xs}
Nil == [nil |-> TRUE, items |-> <<>>]
Slices(xs) == {Nil} \cup {[nil |-> FALSE, items |-> s] : s \in BoundedSeq(xs, 2)}
Entries(xs) == {[k \in MCKeys |-> IF k = "a" THEN p ELSE IF k = "b" THEN q ELSE <<>>] :
                    p \in Pointers(xs), q \in Pointers(xs)}
Maps(xs) == {[nil |-> TRUE, entries |-> [k \in MCKeys |-> <<>>]]}
               \cup {[nil |-> FALSE, entries |-> e] : e \in Entries(xs)}

MCSamples == [type \in MCGoTypes |->
    CASE type = <<"int">>                      -> MinWord..MaxWord
      [] type = <<"uint64">>                   -> 0..(2^WordBits - 1)
      [] type = <<"uint8">>                    -> 0..7
      [] type = <<"int8">>                     -> -4..3
      [] type = <<"bool">>                     -> BOOLEAN
      [] type = <<"string">>                   -> {"", "t"}
      [] type = <<"bytes">>                    -> Slices({0, 7})
      [] type = <<"chan">>                     -> {"chan"}
      [] type \in {<<"structA">>, <<"structB">>} -> MCStructs(type[1])
      [] type = <<"ptr", "int">>               -> Pointers(MinWord..MaxWord)
      [] type = <<"ptr", "int8">>              -> Pointers({0, 1})
      [] type = <<"ptr", "string">>            -> Pointers({"", "t"})
      [] type \in {<<"ptr", "structA">>, <<"ptr", "structB">>} -> Pointers(MCStructs(type[2]))
      [] type = <<"slice", "int">>             -> Slices({0, 13, 14, MaxWord})
      [] type = <<"slice", "ptr", "structA">>   -> Slices(Pointers(MCStructs("structA")))
      [] type = <<"slice", "structA">>          -> Slices(MCStructs("structA"))
      [] type = <<"slice", "bool">>            -> Slices(BOOLEAN)
      [] type = <<"slice", "slice", "bool">>   -> Slices(Slices(BOOLEAN))
      [] type = <<"map", "ptr", "string">>     -> Maps(Pointers({"", "t"}))
      [] type = <<"map", "ptr", "structA">>     -> Maps(Pointers(MCStructs("structA")))
      [] type = <<"map", "structA">>            -> Maps(MCStructs("structA"))
      [] type = <<"slice", "uint64">>          -> Slices({5, 33})
      [] type = <<"map", "slice", "uint64">>   -> Maps(Slices({5, 33}))]

Text1 == [js |-> "string", string |-> "t"]
Wrapper1 == CreateStruct([type |-> "structA", n |-> <<7>>, small |-> -4, text |-> "t"])
Wrapper2 == CreateStruct([type |-> "structB", n |-> <<>>, small |-> 3, text |-> ""])
Named(f) == [k \in MCKeys |-> IF k \in DOMAIN f THEN <<f[k]>> ELSE <<>>]
Object1 == [js |-> "object", fields |-> Named([n |-> NumberOf(100), small |-> NumberOf(-5)])]
MCPassed == {
    Undefined, [js |-> "null"], [js |-> "boolean", true |-> TRUE], [js |-> "symbol"],
    NumberOf(0), NumberOf(9), NumberOf(-9), NumberOf(100), NumberOf(-100), Text1,
    [js |-> "string", string |-> ""], [js |-> "buffer", bytes |-> <<0, 7>>], Wrapper1, Wrapper2, Object1,
    [js |-> "array", items |-> <<>>],
    [js |-> "array", items |-> <<NumberOf(9), Undefined, Text1>>],
    [js |-> "array", items |-> <<Wrapper1, Object1>>],
    [js |-> "array", items |-> <<Wrapper1, Wrapper2>>],
    [js |-> "object", fields |-> Named([length |-> NumberOf(2), a |-> NumberOf(100), b |-> Wrapper1])],
    [js |-> "object", fields |-> Named([length |-> NumberOf(-1)])]}

Symmetry == Permutations(Goroutines) \cup Permutations(Templates) \cup Permutations(Handles)

=============================================================================
