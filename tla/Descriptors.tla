----------------------------- MODULE Descriptors -----------------------------
(***************************************************************************)
(* The own properties of one JS object: Go code defines them with          *)
(* DefineProperty, RebindMethod and RebindAll, and scripts define them as  *)
(* they like.  V8 refuses to change what is not configurable.              *)
(***************************************************************************)
CONSTANTS
    Keys,
    Inherited,      \* the keys of the object's prototype, which are methods
    Functions,
    Data,           \* values that are no functions
    Undefined,
    None            \* a nil *Value, or no property

VARIABLES
    property,       \* the own property of a key
    asked,          \* the descriptor Go defined it with last, if Go did (history)
    rebinding       \* the keys RebindAll has still to do

vars == <<property, asked, rebinding>>

Values == Functions \cup Data \cup {Undefined}
Flags == [enumerable : BOOLEAN, configurable : BOOLEAN, writable : BOOLEAN]

DescriptorOf(value, get, set, flags) ==
    [value |-> value, get |-> get, set |-> set, enumerable |-> flags.enumerable,
     configurable |-> flags.configurable, writable |-> flags.writable]

IsNil(v) == v \in {None, Undefined}
IsData(p) == p.get = None

(* What Value.Get finds; a getter may answer anything. *)
Get(k) ==
    IF property[k] = None THEN (IF k \in Inherited THEN Functions ELSE {Undefined})
    ELSE IF IsData(property[k]) THEN {property[k].value} ELSE Values

Init ==
    /\ property = [k \in Keys |-> None]
    /\ asked = [k \in Keys |-> None]
    /\ rebinding = {}

-----------------------------------------------------------------------------
(* V8 *)

Accepts(old, new) ==
    old # None /\ ~old.configurable =>
        /\ ~new.configurable /\ new.enumerable = old.enumerable
        /\ IsData(old) <=> IsData(new)
        /\ old.get = new.get /\ old.set = new.set
        /\ IsData(old) /\ ~old.writable => new.value = old.value /\ ~new.writable

(* v8_Value_DefinePropertyValue and v8_Value_DefineProperty. *)
DataProperty(value, enumerable, configurable, writable) ==
    DescriptorOf(value, None, None,
        [enumerable |-> enumerable, configurable |-> configurable, writable |-> writable])
Accessor(get, set, enumerable, configurable) ==
    DescriptorOf(Undefined, get, set,
        [enumerable |-> enumerable, configurable |-> configurable, writable |-> FALSE])

-----------------------------------------------------------------------------
(* Value.DefineProperty *)

(* The flags are passed by position. *)
Native(d) ==
    IF ~IsNil(d.value) /\ IsNil(d.get) /\ IsNil(d.set)
    THEN DataProperty(d.value, d.configurable, d.enumerable, d.writable)
    ELSE Accessor(d.get, d.set, d.configurable, d.enumerable)

Defined(k, d) ==
    /\ Accepts(property[k], Native(d))
    /\ property' = [property EXCEPT ![k] = Native(d)]
    /\ asked' = [asked EXCEPT ![k] = d]

Refused(k, d) ==
    /\ ~Accepts(property[k], Native(d))
    /\ UNCHANGED <<property, asked>>

\* Without a value, a nil Get or Set is dereferenced.
DefineProperty(k, d) ==
    /\ \/ ~IsNil(d.value) /\ IsNil(d.get) /\ IsNil(d.set)
       \/ d.get # None /\ d.set # None
    /\ (Defined(k, d) \/ Refused(k, d))
    /\ UNCHANGED rebinding

Bound(b) == DescriptorOf(b, None, None,
                [enumerable |-> FALSE, configurable |-> FALSE, writable |-> TRUE])

RebindMethod(k) ==
    /\ Get(k) \cap Functions # {}
    /\ \E b \in Functions : Defined(k, Bound(b)) \/ Refused(k, Bound(b))
    /\ UNCHANGED rebinding

BeginRebindAll ==
    /\ rebinding = {}
    /\ rebinding' = {k \in Keys : property[k] # None} \cup Inherited
    /\ UNCHANGED <<property, asked>>

(* In the order of a Go map; the first refusal ends it. *)
RebindNext(k) ==
    /\ k \in rebinding
    /\ \/ /\ Get(k) \cap Functions # {}
          /\ \E b \in Functions : \/ Defined(k, Bound(b)) /\ rebinding' = rebinding \ {k}
                                  \/ Refused(k, Bound(b)) /\ rebinding' = {}
       \/ /\ Get(k) \ Functions # {}
          /\ rebinding' = rebinding \ {k}
          /\ UNCHANGED <<property, asked>>

(* Object.defineProperty in a script. *)
Script(k, p) ==
    /\ Accepts(property[k], p)
    /\ property' = [property EXCEPT ![k] = p]
    /\ asked' = [asked EXCEPT ![k] = None]
    /\ UNCHANGED rebinding

Descriptors ==
    {DescriptorOf(v, None, None, flags) : v \in Values, flags \in Flags}
    \cup {DescriptorOf(None, get, set, flags) :
             get, set \in Functions \cup {Undefined}, flags \in Flags}

Next ==
    \/ \E k \in Keys : \/ RebindMethod(k) \/ RebindNext(k)
                       \/ \E d \in Descriptors : DefineProperty(k, d)
                       \/ \E p \in Descriptors : p.value # None /\ Script(k, p)
    \/ BeginRebindAll

Spec == Init /\ [][Next]_vars

(***************************************************************************)
(* A property that Go defined is enumerable and configurable as its        *)
(* descriptor says: v8_c_bridge.h:237-238 declares the parameters in the   *)
(* order enumerable, configurable.                                         *)
(***************************************************************************)
DefinedAsAsked ==
    \A k \in Keys : asked[k] # None =>
        /\ property[k].enumerable = asked[k].enumerable
        /\ property[k].configurable = asked[k].configurable
=============================================================================
