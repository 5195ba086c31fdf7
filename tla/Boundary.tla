------------------------------- MODULE Boundary -------------------------------
(***************************************************************************)
(* The two sides of create and Unmarshal together: Create is about the     *)
(* structs and errors that are wrapped as objects and the classes made for *)
(* them, Marshal about the values that are made of other values.  The      *)
(* functions of Marshal read no variable: what is true of them is true in  *)
(* all states or in none, and is stated for the first ones.                *)
(***************************************************************************)
EXTENDS Create, Marshal

(***************************************************************************)
(* A Go value comes back from JavaScript as it was exactly if it is        *)
(* Faithful: integers of up to MantissaBits and the greatest word, no nil  *)
(* or empty bytes, no nil slice or map, no pointers but to int, string and *)
(* struct, no nil pointer to a struct, and structs only where they have an *)
(* address (v8_create.go:184-376, v8_unmarshal.go:82-258).                 *)
(***************************************************************************)
RoundTripsAreFaithful == Init =>
    \A type \in GoTypes : \A x \in Samples[type] :
        RoundTrips(type, x) <=> x \in Faithful[type][FALSE]

(***************************************************************************)
(* A JS object that is passed where a struct or a pointer to it is wanted, *)
(* and is the wrapper of a struct of another type.                         *)
(***************************************************************************)
Mistaken(type, v) ==
    /\ v.js = "wrapper"
    /\ \E kind \in StructKinds : type \in {<<kind>>, <<"ptr", kind>>} /\ v.receiver.type # kind

(***************************************************************************)
(* Whatever JavaScript passes, a value that Unmarshal answers is one of    *)
(* the type that was asked for, also when a number does not fit            *)
(* (v8_unmarshal.go:94), but for two cases in which it answers something   *)
(* else without an error: the wrapper of a struct of another type, and     *)
(* just that, gets the struct it wraps (lines 134, 188), and the zero      *)
(* reflect.Value is for pointers to structs alone (line 134).  Neither is  *)
(* ever an item of a slice or an entry of a map.                           *)
(***************************************************************************)
UnmarshalIsTyped == Init =>
    \A type \in GoTypes, v \in Passed :
        LET r == Unmarshal[type][v] IN
        /\ IsOk(r) => r.value \in Held[type]
        /\ r.result = "other" <=> Mistaken(type, v)
        /\ r = Invalid => \E kind \in StructKinds : type = <<"ptr", kind>>
===============================================================================
