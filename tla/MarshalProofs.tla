---------------------------- MODULE MarshalProofs ----------------------------
(***************************************************************************)
(* What goes to JavaScript and comes back, for every set of types, nested  *)
(* in one another, every size of the integers and of the numbers that they *)
(* go through, and all values that variables of the types can hold.        *)
(*                                                                         *)
(* The functions of Marshal recurse over types, whose length is bounded:   *)
(* they exist and unfold by induction over it (SetInduction, for sets of   *)
(* naturals, since the library's induction takes an operator).  So do the  *)
(* theorems.  AnswersTyped, what Unmarshal answers is of the type, and     *)
(* ComesBack, what becomes of a value fails or comes back as it was just   *)
(* if it is Faithful, hold for a type if they hold for that of its         *)
(* elements.  ComesBack needs that what is made of a value nests no deeper *)
(* than the type, so that it is a JS value, and IntegersReturn: rounding   *)
(* moves an integer by at most half of itself, not at all if it has few    *)
(* enough bits, and the greatest word up, where it is cut off again.       *)
(***************************************************************************)
EXTENDS Boundary, TLAPS, WellFoundedInduction

-----------------------------------------------------------------------------
(* Induction, and recursive functions *)

(* Induction over the naturals, for a set. *)
LEMMA SetInduction ==
    ASSUME NEW S, 0 \in S, \A n \in Nat : n \in S => n + 1 \in S
    PROVE  Nat \subseteq S
<1>1. SUFFICES ASSUME Nat \ S # {} PROVE FALSE
    OBVIOUS
<1> DEFINE R == OpToRel(<, Nat)
           T == Nat \ S
<1>2. \A x, y \in Nat : y < x => <<y, x>> \in R
    BY DEF OpToRel
<1>3. PICK x \in T : \A y \in T : <<y, x>> \notin R
    <2> HIDE DEF R
    <2>1. IsWellFoundedOn(R, Nat)
        BY NatLessThanWellFounded DEF R
    <2>2. T \subseteq Nat /\ T # {}
        BY <1>1
    <2> HIDE DEF T
    <2>3. QED
        BY <2>1, <2>2, WFMin
<1>4. x \in Nat /\ x # 0
    BY <1>3
<1>5. x - 1 \in Nat /\ x - 1 < x
    BY <1>4
<1>6. x - 1 \notin T
    <2> HIDE DEF T, R
    <2>1. QED
        BY <1>2, <1>3, <1>4, <1>5
<1>7. (x - 1) + 1 \in S /\ (x - 1) + 1 = x
    BY <1>4, <1>5, <1>6
<1>8. QED
    BY <1>3, <1>4, <1>7

(* A set of naturals has a least one. *)
LEMMA LeastExists ==
    ASSUME NEW S \in SUBSET Nat, S # {}
    PROVE  \E i \in S : \A j \in S : i <= j
<1> DEFINE R == OpToRel(<, Nat)
<1>1. \A x, y \in Nat : y < x => <<y, x>> \in R
    BY DEF OpToRel
<1> HIDE DEF R
<1>2. PICK x \in S : \A y \in S : <<y, x>> \notin R
    <2>1. IsWellFoundedOn(R, Nat)
        BY NatLessThanWellFounded DEF R
    <2>2. QED
        BY <2>1, WFMin
<1>3. ASSUME NEW y \in S PROVE x <= y
    <2>1. ~(y < x)
        BY <1>1, <1>2
    <2>2. QED
        BY <2>1
<1>4. QED
    BY <1>3

(* What GoTypesAssumption says of one type. *)
LEMMA TypeFacts ==
    ASSUME NEW type \in GoTypes
    PROVE  /\ type \in Seq(STRING) /\ Len(type) \in 1 .. MaxNesting /\ MaxNesting \in Nat
           /\ Head(type) = type[1]
           /\ Head(type) \in Compound => Tail(type) \in GoTypes /\ Len(Tail(type)) = Len(type) - 1
           /\ Head(type) \notin Compound => Tail(type) = <<>> /\ Len(type) = 1
<1>1. /\ type \in Seq(STRING) /\ Len(type) \in 1 .. MaxNesting
      /\ IF Head(type) \in Compound THEN Tail(type) \in GoTypes ELSE Tail(type) = <<>>
    BY GoTypesAssumption
<1>2. Len(Tail(type)) = Len(type) - 1 /\ Head(type) = type[1]
    BY <1>1
<1>3. ASSUME Tail(type) = <<>> PROVE Len(type) = 1
    <2>1. Len(Tail(type)) = Len(<<>>) /\ Len(<<>>) = 0
        BY <1>3
    <2>2. Len(type) - 1 = 0 /\ Len(type) \in Int
        BY <1>1, <1>2, <2>1
    <2>3. QED
        BY <2>2
<1>4. MaxNesting \in Nat
    BY GoTypesAssumption
<1> HIDE DEF Compound
<1>5. QED
    BY <1>1, <1>2, <1>3, <1>4

(* The types of at most a length. *)
TypesTo(n) == {type \in GoTypes : Len(type) <= n}

LEMMA TypesOfAllLengths ==
    /\ TypesTo(MaxNesting) = GoTypes
    /\ TypesTo(0) = {}
    /\ \A n \in Nat : \A type \in TypesTo(n + 1) :
          Head(type) \in Compound => Tail(type) \in TypesTo(n) /\ Tail(type) \in TypesTo(n + 1)
    /\ \A type \in GoTypes : Head(type) \in Compound => Tail(type) \in TypesTo(Len(type) - 1)
<1>1. ASSUME NEW type \in GoTypes PROVE type \in TypesTo(MaxNesting) /\ type \notin TypesTo(0)
    BY TypeFacts DEF TypesTo
<1>2. ASSUME NEW n \in Nat, NEW type \in TypesTo(n + 1), Head(type) \in Compound
      PROVE  Tail(type) \in TypesTo(n) /\ Tail(type) \in TypesTo(n + 1)
    BY <1>2, TypeFacts DEF TypesTo
<1>3. ASSUME NEW type \in GoTypes, Head(type) \in Compound
      PROVE  Tail(type) \in TypesTo(Len(type) - 1)
    BY <1>3, TypeFacts DEF TypesTo
<1>4. TypesTo(MaxNesting) \subseteq GoTypes /\ TypesTo(0) \subseteq GoTypes
    BY DEF TypesTo
<1>5. QED
    BY <1>1, <1>2, <1>3, <1>4

(* F does what Power does, up to n. *)
Powers(F, n) == F = [i \in 0..n |-> IF i = 0 THEN 1 ELSE 2 * F[i - 1]]

LEMMA PowersExist == \A n \in Nat : \E F : Powers(F, n)
<1> DEFINE S == {n \in Nat : \E F : Powers(F, n)}
<1>1. \E F : Powers(F, 0)
    <2> DEFINE F == [i \in 0..0 |-> 1]
    <2>1. Powers(F, 0)
        BY DEF Powers
    <2>2. QED
        BY <2>1
<1>2. ASSUME NEW n \in Nat, NEW F, Powers(F, n) PROVE \E G : Powers(G, n + 1)
    <2>1. F = [i \in 0..n |-> IF i = 0 THEN 1 ELSE 2 * F[i - 1]]
        BY <1>2 DEF Powers
    <2> DEFINE G == [i \in 0..(n + 1) |-> IF i = 0 THEN 1 ELSE 2 * F[i - 1]]
    <2>2. \A i \in 0..n : G[i] = F[i]
        BY <2>1
    <2>3. \A i \in 0..(n + 1) : i # 0 => G[i - 1] = F[i - 1]
        BY <2>2
    <2>4. G = [i \in 0..(n + 1) |-> IF i = 0 THEN 1 ELSE 2 * G[i - 1]]
        BY <2>3
    <2> HIDE DEF G
    <2>5. QED
        BY <2>4 DEF Powers
<1>3. Nat \subseteq S
    <2>1. 0 \in S
        BY <1>1
    <2>2. ASSUME NEW n \in Nat, n \in S PROVE n + 1 \in S
        BY <1>2, <2>2
    <2> HIDE DEF S
    <2>3. QED
        BY <2>1, <2>2, SetInduction
<1>4. QED
    BY <1>3

LEMMA PowerUnfolds ==
    /\ Power[0] = 1
    /\ \A n \in 1 .. (MantissaBits + WordBits) : Power[n] = 2 * Power[n - 1]
<1> DEFINE most == MantissaBits + WordBits
<1>1. most \in Nat
    BY IntegersAssumption
<1>2. \E F : F = [i \in 0..most |-> IF i = 0 THEN 1 ELSE 2 * F[i - 1]]
    BY <1>1, PowersExist DEF Powers
<1>3. Power = [i \in 0..most |-> IF i = 0 THEN 1 ELSE 2 * Power[i - 1]]
    BY <1>2 DEF Power
<1> HIDE DEF most
<1>4. Power[0] = 1
    BY <1>1, <1>3
<1>5. ASSUME NEW n \in 1..most PROVE Power[n] = 2 * Power[n - 1]
    BY <1>1, <1>3
<1>6. QED
    BY <1>4, <1>5 DEF most

(* F nests values as Nested does, up to n. *)
NestedBy(n, values) == IF n = 0 THEN Scalars \cup Wrappers ELSE NestedIn(values)
Nests(F, n) == F = [i \in 0..n |-> NestedBy(i, F[i - 1])]

LEMMA NestsExist == \A n \in Nat : \E F : Nests(F, n)
<1> DEFINE S == {n \in Nat : \E F : Nests(F, n)}
<1>1. \A e, f : NestedBy(0, e) = NestedBy(0, f)
    BY DEF NestedBy
<1>2. \E F : Nests(F, 0)
    <2> DEFINE F == [i \in 0..0 |-> NestedBy(0, {})]
    <2>1. Nests(F, 0)
        BY <1>1 DEF Nests
    <2>2. QED
        BY <2>1
<1>3. ASSUME NEW n \in Nat, NEW F, Nests(F, n) PROVE \E G : Nests(G, n + 1)
    <2>1. F = [i \in 0..n |-> NestedBy(i, F[i - 1])]
        BY <1>3 DEF Nests
    <2> DEFINE G == [i \in 0..(n + 1) |-> NestedBy(i, F[i - 1])]
    <2>2. \A i \in 0..n : G[i] = F[i]
        BY <2>1
    <2>3. \A i \in 0..(n + 1) : NestedBy(i, G[i - 1]) = NestedBy(i, F[i - 1])
        BY <1>1, <2>2
    <2>4. G = [i \in 0..(n + 1) |-> NestedBy(i, G[i - 1])]
        BY <2>3
    <2> HIDE DEF G
    <2>5. QED
        BY <2>4 DEF Nests
<1>4. Nat \subseteq S
    <2>1. 0 \in S
        BY <1>2
    <2>2. ASSUME NEW n \in Nat, n \in S PROVE n + 1 \in S
        BY <1>3, <2>2
    <2> HIDE DEF S
    <2>3. QED
        BY <2>1, <2>2, SetInduction
<1>5. QED
    BY <1>4

LEMMA NestedUnfolds ==
    /\ Nested[0] = Scalars \cup Wrappers
    /\ \A n \in 1 .. MaxNesting : Nested[n] = NestedIn(Nested[n - 1])
<1>1. MaxNesting \in Nat
    BY GoTypesAssumption
<1>2. \E F : F = [i \in 0..MaxNesting |-> NestedBy(i, F[i - 1])]
    BY <1>1, NestsExist DEF Nests
<1>3. Nested = [i \in 0..MaxNesting |-> NestedBy(i, Nested[i - 1])]
    BY <1>2 DEF Nested, NestedBy
<1>4. Nested[0] = NestedBy(0, Nested[0 - 1])
    BY <1>1, <1>3
<1>5. \A n \in 1 .. MaxNesting : Nested[n] = NestedBy(n, Nested[n - 1])
    BY <1>1, <1>3
<1>6. QED
    BY <1>4, <1>5 DEF NestedBy

LEMMA HeldUnfolds == \A type \in GoTypes : Held[type] = HeldBy(type, Held[Tail(type)])
<1> DEFINE S == {n \in Nat : \E F : F = [type \in TypesTo(n) |-> HeldBy(type, F[Tail(type)])]}
<1>1. ASSUME NEW type, Head(type) \notin Compound, NEW e, NEW f
      PROVE  HeldBy(type, e) = HeldBy(type, f)
    BY <1>1 DEF HeldBy, Compound
<1>2. 0 \in S
    <2> DEFINE F == [type \in TypesTo(0) |-> {}]
    <2>1. F = [type \in TypesTo(0) |-> HeldBy(type, F[Tail(type)])]
        BY TypesOfAllLengths
    <2>2. QED
        BY <2>1
<1>3. ASSUME NEW n \in Nat, n \in S PROVE n + 1 \in S
    <2>1. PICK F : F = [type \in TypesTo(n) |-> HeldBy(type, F[Tail(type)])]
        BY <1>3
    <2> DEFINE G == [type \in TypesTo(n + 1) |-> HeldBy(type, F[Tail(type)])]
    <2>2. ASSUME NEW type \in TypesTo(n + 1)
          PROVE  HeldBy(type, G[Tail(type)]) = HeldBy(type, F[Tail(type)])
        <3>1. CASE Head(type) \in Compound
            <4>1. Tail(type) \in TypesTo(n) /\ Tail(type) \in TypesTo(n + 1)
                BY <3>1, TypesOfAllLengths
            <4>2. G[Tail(type)] = F[Tail(type)]
                BY <2>1, <4>1
            <4>3. QED
                BY <4>2
        <3>2. CASE Head(type) \notin Compound
            <4> HIDE DEF G
            <4>1. QED
                BY <1>1, <3>2
        <3>3. QED
            BY <3>1, <3>2
    <2>3. G = [type \in TypesTo(n + 1) |-> HeldBy(type, G[Tail(type)])]
        BY <2>2
    <2> HIDE DEF G
    <2>4. QED
        BY <2>3
<1>4. MaxNesting \in S
    <2> HIDE DEF S
    <2>1. Nat \subseteq S
        BY <1>2, <1>3, SetInduction
    <2>2. QED
        BY <2>1, GoTypesAssumption
<1>5. Held = [type \in GoTypes |-> HeldBy(type, Held[Tail(type)])]
    BY <1>4, TypesOfAllLengths DEF Held
<1>6. QED
    BY <1>5

LEMMA CreateUnfolds == \A type \in GoTypes : Create[type] = CreateBy(type, Create[Tail(type)])
<1> DEFINE S == {n \in Nat : \E F : F = [type \in TypesTo(n) |-> CreateBy(type, F[Tail(type)])]}
<1>1. ASSUME NEW type, Head(type) \notin Compound, NEW e, NEW f
      PROVE  CreateBy(type, e) = CreateBy(type, f)
    BY <1>1 DEF CreateBy, Compound
<1>2. 0 \in S
    <2> DEFINE F == [type \in TypesTo(0) |-> {}]
    <2>1. F = [type \in TypesTo(0) |-> CreateBy(type, F[Tail(type)])]
        BY TypesOfAllLengths
    <2>2. QED
        BY <2>1
<1>3. ASSUME NEW n \in Nat, n \in S PROVE n + 1 \in S
    <2>1. PICK F : F = [type \in TypesTo(n) |-> CreateBy(type, F[Tail(type)])]
        BY <1>3
    <2> DEFINE G == [type \in TypesTo(n + 1) |-> CreateBy(type, F[Tail(type)])]
    <2>2. ASSUME NEW type \in TypesTo(n + 1)
          PROVE  CreateBy(type, G[Tail(type)]) = CreateBy(type, F[Tail(type)])
        <3>1. CASE Head(type) \in Compound
            <4>1. Tail(type) \in TypesTo(n) /\ Tail(type) \in TypesTo(n + 1)
                BY <3>1, TypesOfAllLengths
            <4>2. G[Tail(type)] = F[Tail(type)]
                BY <2>1, <4>1
            <4>3. QED
                BY <4>2
        <3>2. CASE Head(type) \notin Compound
            <4> HIDE DEF G
            <4>1. QED
                BY <1>1, <3>2
        <3>3. QED
            BY <3>1, <3>2
    <2>3. G = [type \in TypesTo(n + 1) |-> CreateBy(type, G[Tail(type)])]
        BY <2>2
    <2> HIDE DEF G
    <2>4. QED
        BY <2>3
<1>4. MaxNesting \in S
    <2> HIDE DEF S
    <2>1. Nat \subseteq S
        BY <1>2, <1>3, SetInduction
    <2>2. QED
        BY <2>1, GoTypesAssumption
<1>5. Create = [type \in GoTypes |-> CreateBy(type, Create[Tail(type)])]
    BY <1>4, TypesOfAllLengths DEF Create
<1>6. QED
    BY <1>5

LEMMA UnmarshalUnfolds == \A type \in GoTypes : Unmarshal[type] = UnmarshalBy(type, Unmarshal[Tail(type)])
<1> DEFINE S == {n \in Nat : \E F : F = [type \in TypesTo(n) |-> UnmarshalBy(type, F[Tail(type)])]}
<1>1. ASSUME NEW type, Head(type) \notin Compound, NEW e, NEW f
      PROVE  UnmarshalBy(type, e) = UnmarshalBy(type, f)
    BY <1>1 DEF UnmarshalBy, Compound
<1>2. 0 \in S
    <2> DEFINE F == [type \in TypesTo(0) |-> {}]
    <2>1. F = [type \in TypesTo(0) |-> UnmarshalBy(type, F[Tail(type)])]
        BY TypesOfAllLengths
    <2>2. QED
        BY <2>1
<1>3. ASSUME NEW n \in Nat, n \in S PROVE n + 1 \in S
    <2>1. PICK F : F = [type \in TypesTo(n) |-> UnmarshalBy(type, F[Tail(type)])]
        BY <1>3
    <2> DEFINE G == [type \in TypesTo(n + 1) |-> UnmarshalBy(type, F[Tail(type)])]
    <2>2. ASSUME NEW type \in TypesTo(n + 1)
          PROVE  UnmarshalBy(type, G[Tail(type)]) = UnmarshalBy(type, F[Tail(type)])
        <3>1. CASE Head(type) \in Compound
            <4>1. Tail(type) \in TypesTo(n) /\ Tail(type) \in TypesTo(n + 1)
                BY <3>1, TypesOfAllLengths
            <4>2. G[Tail(type)] = F[Tail(type)]
                BY <2>1, <4>1
            <4>3. QED
                BY <4>2
        <3>2. CASE Head(type) \notin Compound
            <4> HIDE DEF G
            <4>1. QED
                BY <1>1, <3>2
        <3>3. QED
            BY <3>1, <3>2
    <2>3. G = [type \in TypesTo(n + 1) |-> UnmarshalBy(type, G[Tail(type)])]
        BY <2>2
    <2> HIDE DEF G
    <2>4. QED
        BY <2>3
<1>4. MaxNesting \in S
    <2> HIDE DEF S
    <2>1. Nat \subseteq S
        BY <1>2, <1>3, SetInduction
    <2>2. QED
        BY <2>1, GoTypesAssumption
<1>5. Unmarshal = [type \in GoTypes |-> UnmarshalBy(type, Unmarshal[Tail(type)])]
    BY <1>4, TypesOfAllLengths DEF Unmarshal
<1>6. QED
    BY <1>5

LEMMA FaithfulUnfolds == \A type \in GoTypes : Faithful[type] = FaithfulBy(type, Faithful[Tail(type)])
<1> DEFINE S == {n \in Nat : \E F : F = [type \in TypesTo(n) |-> FaithfulBy(type, F[Tail(type)])]}
<1>1. ASSUME NEW type, Head(type) \notin Compound, NEW e, NEW f
      PROVE  FaithfulBy(type, e) = FaithfulBy(type, f)
    BY <1>1 DEF FaithfulBy, Compound
<1>2. 0 \in S
    <2> DEFINE F == [type \in TypesTo(0) |-> {}]
    <2>1. F = [type \in TypesTo(0) |-> FaithfulBy(type, F[Tail(type)])]
        BY TypesOfAllLengths
    <2>2. QED
        BY <2>1
<1>3. ASSUME NEW n \in Nat, n \in S PROVE n + 1 \in S
    <2>1. PICK F : F = [type \in TypesTo(n) |-> FaithfulBy(type, F[Tail(type)])]
        BY <1>3
    <2> DEFINE G == [type \in TypesTo(n + 1) |-> FaithfulBy(type, F[Tail(type)])]
    <2>2. ASSUME NEW type \in TypesTo(n + 1)
          PROVE  FaithfulBy(type, G[Tail(type)]) = FaithfulBy(type, F[Tail(type)])
        <3>1. CASE Head(type) \in Compound
            <4>1. Tail(type) \in TypesTo(n) /\ Tail(type) \in TypesTo(n + 1)
                BY <3>1, TypesOfAllLengths
            <4>2. G[Tail(type)] = F[Tail(type)]
                BY <2>1, <4>1
            <4>3. QED
                BY <4>2
        <3>2. CASE Head(type) \notin Compound
            <4> HIDE DEF G
            <4>1. QED
                BY <1>1, <3>2
        <3>3. QED
            BY <3>1, <3>2
    <2>3. G = [type \in TypesTo(n + 1) |-> FaithfulBy(type, G[Tail(type)])]
        BY <2>2
    <2> HIDE DEF G
    <2>4. QED
        BY <2>3
<1>4. MaxNesting \in S
    <2> HIDE DEF S
    <2>1. Nat \subseteq S
        BY <1>2, <1>3, SetInduction
    <2>2. QED
        BY <2>1, GoTypesAssumption
<1>5. Faithful = [type \in GoTypes |-> FaithfulBy(type, Faithful[Tail(type)])]
    BY <1>4, TypesOfAllLengths DEF Faithful
<1>6. QED
    BY <1>5

-----------------------------------------------------------------------------
(* Integers: powers of two, the words of the kinds, and rounding *)

Powered == 0 .. (MantissaBits + WordBits)

LEMMA BitsFacts ==
    /\ MantissaBits \in Nat \ {0} /\ WordBits \in Nat \ {0, 1}
    /\ MantissaBits + WordBits \in Nat
    /\ 0 .. WordBits \subseteq Powered
    BY IntegersAssumption DEF Powered

LEMMA PowerType == \A n \in Powered : Power[n] \in Nat \ {0}
<1> DEFINE S == {n \in Nat : n \in Powered => Power[n] \in Nat \ {0}}
<1>1. 0 \in S
    BY PowerUnfolds
<1>2. ASSUME NEW n \in Nat, n \in S PROVE n + 1 \in S
    <2>1. SUFFICES ASSUME n + 1 \in Powered PROVE Power[n + 1] \in Nat \ {0}
        BY <1>2
    <2>2. n \in Powered /\ n + 1 \in 1 .. (MantissaBits + WordBits)
        BY <2>1, BitsFacts DEF Powered
    <2>3. Power[n + 1] = 2 * Power[(n + 1) - 1] /\ (n + 1) - 1 = n
        BY <2>2, PowerUnfolds
    <2>4. Power[n] \in Nat \ {0}
        BY <1>2, <2>2
    <2>5. Power[n + 1] = 2 * Power[n]
        BY <2>3
    <2>6. QED
        BY <2>4, <2>5
<1>3. Nat \subseteq S
    <2> HIDE DEF S
    <2>1. QED
        BY <1>1, <1>2, SetInduction
<1>4. QED
    BY <1>3, BitsFacts DEF Powered

LEMMA PowerSucceeds ==
    ASSUME NEW n \in Nat, n + 1 \in Powered
    PROVE  n \in Powered /\ Power[n + 1] = 2 * Power[n] /\ Power[n] \in Nat \ {0}
<1>1. n \in Powered /\ n + 1 \in 1 .. (MantissaBits + WordBits)
    BY BitsFacts DEF Powered
<1>2. Power[n + 1] = 2 * Power[(n + 1) - 1] /\ (n + 1) - 1 = n
    BY <1>1, PowerUnfolds
<1>3. QED
    BY <1>1, <1>2, PowerType

LEMMA PowerOfSum ==
    ASSUME NEW m \in Nat, NEW n \in Nat, m + n \in Powered
    PROVE  m \in Powered /\ n \in Powered /\ Power[m + n] = Power[m] * Power[n]
<1> DEFINE S == {k \in Nat : m + k \in Powered => Power[m + k] = Power[m] * Power[k]}
<1>1. m \in Powered /\ n \in Powered
    BY BitsFacts DEF Powered
<1>2. 0 \in S
    <2>1. Power[m] \in Nat \ {0} /\ Power[0] = 1 /\ m + 0 = m
        BY <1>1, PowerType, PowerUnfolds
    <2>2. Power[m + 0] = Power[m] /\ Power[m] * Power[0] = Power[m]
        BY <2>1
    <2>3. QED
        BY <2>2
<1>3. ASSUME NEW k \in Nat, k \in S PROVE k + 1 \in S
    <2>1. SUFFICES ASSUME m + (k + 1) \in Powered
                   PROVE  Power[m + (k + 1)] = Power[m] * Power[k + 1]
        BY <1>3
    <2>2. m + (k + 1) = (m + k) + 1 /\ m + k \in Nat /\ k + 1 \in Powered
        BY <2>1, BitsFacts DEF Powered
    <2>3. Power[(m + k) + 1] = 2 * Power[m + k] /\ m + k \in Powered
        BY <2>1, <2>2, PowerSucceeds
    <2>4. Power[k + 1] = 2 * Power[k] /\ Power[k] \in Nat
        BY <2>2, PowerSucceeds
    <2>5. Power[m + k] = Power[m] * Power[k]
        BY <1>3, <2>3
    <2> DEFINE p == Power[m]
               q == Power[k]
    <2>6. p \in Nat /\ q \in Nat
        BY <1>1, <2>4, PowerType
    <2> HIDE DEF p, q
    <2>7. 2 * (p * q) = p * (2 * q)
        BY <2>6
    <2>8. Power[m + (k + 1)] = 2 * (p * q) /\ Power[m] * Power[k + 1] = p * (2 * q)
        BY <2>2, <2>3, <2>4, <2>5 DEF p, q
    <2>9. QED
        BY <2>7, <2>8
<1>4. Nat \subseteq S
    <2> HIDE DEF S
    <2>1. QED
        BY <1>2, <1>3, SetInduction
<1>5. n \in S
    BY <1>4
<1>6. QED
    BY <1>1, <1>5

LEMMA PowerGrows ==
    ASSUME NEW m \in Powered, NEW n \in Powered, m < n
    PROVE  Power[m] < Power[n]
<1>1. PICK k \in Nat : n = m + (k + 1)
    <2>1. n - m - 1 \in Nat /\ n = m + ((n - m - 1) + 1)
        BY DEF Powered
    <2>2. QED
        BY <2>1
<1>2. m \in Nat /\ k + 1 \in Nat /\ m + (k + 1) \in Powered
    BY <1>1 DEF Powered
<1>3. Power[n] = Power[m] * Power[k + 1] /\ k + 1 \in Powered
    BY <1>1, <1>2, PowerOfSum
<1>4. Power[k + 1] = 2 * Power[k] /\ Power[k] \in Nat \ {0} /\ Power[m] \in Nat \ {0}
    BY <1>3, PowerSucceeds, PowerType
<1> DEFINE p == Power[m]
           q == Power[k]
<1>5. p \in Nat \ {0} /\ q \in Nat \ {0} /\ Power[n] = p * (2 * q)
    BY <1>3, <1>4
<1> HIDE DEF p, q
<1>6. p < p * (2 * q)
    BY <1>5
<1>7. QED
    BY <1>5, <1>6 DEF p, q

(* Powers are compared as their exponents are. *)
LEMMA PowerReflects ==
    ASSUME NEW m \in Powered, NEW n \in Powered, Power[m] < Power[n]
    PROVE  m < n
<1>1. m \in Nat /\ n \in Nat /\ Power[m] \in Nat /\ Power[n] \in Nat
    BY PowerType DEF Powered
<1>2. CASE n < m
    BY <1>1, <1>2, PowerGrows
<1>3. CASE n = m
    BY <1>1, <1>3
<1>4. QED
    BY <1>1, <1>2, <1>3

LEMMA WordFacts ==
    ASSUME NEW kind \in DOMAIN IntKinds
    PROVE  /\ IntKinds[kind].bits \in Powered
           /\ Power[IntKinds[kind].bits] \in Nat \ {0}
           /\ MaxWord \in Nat /\ MinWord = -(MaxWord + 1) /\ Power[WordBits] = 2 * (MaxWord + 1)
           /\ Power[IntKinds[kind].bits] <= 2 * (MaxWord + 1)
           /\ Lowest(kind) \in Int /\ Lowest(kind) <= 0 /\ MinWord <= Lowest(kind)
           /\ Highest(kind) = Lowest(kind) + Power[IntKinds[kind].bits] - 1
           /\ \A x \in Word(kind) : x \in Int /\ Abs(x) <= Power[IntKinds[kind].bits]
<1> DEFINE b == IntKinds[kind].bits
<1>1. b \in 1 .. WordBits /\ IntKinds[kind].signed \in BOOLEAN
    BY IntegersAssumption
<1> HIDE DEF b
<1>2. b \in Powered /\ WordBits \in Powered /\ Power[b] \in Nat \ {0}
    BY <1>1, BitsFacts, PowerType DEF Powered
<1>3. Power[b] <= Power[WordBits] /\ Power[WordBits] \in Nat
    <2>1. b = WordBits \/ b < WordBits
        BY <1>1, BitsFacts
    <2>2. QED
        BY <1>2, <2>1, PowerGrows, PowerType
<1>4. Power[b] = 2 * Power[b - 1] /\ Power[b - 1] \in Nat \ {0}
    <2>1. b - 1 \in Nat /\ b = (b - 1) + 1
        BY <1>1
    <2>2. QED
        BY <1>2, <2>1, PowerSucceeds
<1>5. Power[WordBits] = 2 * Power[WordBits - 1] /\ Power[WordBits - 1] \in Nat \ {0}
    <2>1. WordBits - 1 \in Nat /\ WordBits = (WordBits - 1) + 1
        BY BitsFacts
    <2>2. QED
        BY <1>2, <2>1, PowerSucceeds
<1>6. MaxWord \in Nat /\ MinWord = -(MaxWord + 1) /\ Power[WordBits] = 2 * (MaxWord + 1)
    BY <1>5 DEF MaxWord, MinWord
<1>7. Lowest(kind) = (IF IntKinds[kind].signed THEN -Power[b - 1] ELSE 0)
    BY DEF Lowest, b
<1>8. Lowest(kind) \in Int /\ Lowest(kind) <= 0 /\ MinWord <= Lowest(kind)
    BY <1>3, <1>4, <1>5, <1>6, <1>7
<1>9. Highest(kind) = Lowest(kind) + Power[b] - 1
    BY DEF Highest, b
<1>10. ASSUME NEW x \in Word(kind) PROVE x \in Int /\ Abs(x) <= Power[b]
    <2>1. x \in Int /\ Lowest(kind) <= x /\ x <= Lowest(kind) + Power[b] - 1
        BY <1>2, <1>8, <1>9, <1>10 DEF Word
    <2>2. QED
        BY <1>1, <1>2, <1>4, <1>7, <2>1 DEF Abs
<1>11. QED
    BY <1>2, <1>3, <1>6, <1>8, <1>9, <1>10 DEF b

LEMMA GreatestFacts == MaxWord \in Nat \ {0} /\ MinWord = -(MaxWord + 1)
<1>1. "int" \in DOMAIN IntKinds
    BY IntegersAssumption
<1>2. WordBits - 1 \in Powered /\ 0 \in Powered /\ 0 < WordBits - 1
    BY BitsFacts DEF Powered
<1>3. Power[0] < Power[WordBits - 1] /\ Power[0] = 1 /\ Power[WordBits - 1] \in Nat
    BY <1>2, PowerGrows, PowerType, PowerUnfolds
<1>4. MaxWord # 0
    BY <1>3 DEF MaxWord
<1>5. QED
    BY <1>1, <1>4, WordFacts

(* A conversion answers a word, keeps one, and otherwise goes a whole turn. *)
LEMMA ConvertFacts ==
    ASSUME NEW kind \in DOMAIN IntKinds, NEW n \in Int
    PROVE  /\ Convert(kind, n) \in Word(kind)
           /\ n \in Word(kind) => Convert(kind, n) = n
           /\ \A x \in Word(kind) : Convert(kind, n) = x /\ n # x =>
                 x - n >= Power[IntKinds[kind].bits] \/ n - x >= Power[IntKinds[kind].bits]
<1> DEFINE p == Power[IntKinds[kind].bits]
           l == Lowest(kind)
           r == (n - l) % p
           q == (n - l) \div p
<1>1. p \in Nat \ {0} /\ l \in Int /\ Highest(kind) = l + p - 1
    BY WordFacts
<1>2. Convert(kind, n) = l + r /\ Word(kind) = l .. (l + p - 1)
    BY <1>1 DEF Convert, Word
<1> HIDE DEF p, l
<1>3. r \in 0 .. (p - 1) /\ q \in Int /\ n - l = p * q + r
    BY <1>1
<1> HIDE DEF r, q
<1>4. l + r \in l .. (l + p - 1)
    BY <1>1, <1>3
<1>5. ASSUME n \in l .. (l + p - 1) PROVE l + r = n
    <2>1. 0 <= n - l /\ n - l < p
        BY <1>1, <1>5
    <2>2. q = 0
        <3>1. CASE q >= 1
            <4>1. p * q >= p
                BY <1>1, <1>3, <3>1
            <4>2. QED
                BY <1>1, <1>3, <2>1, <4>1
        <3>2. CASE q <= -1
            <4>1. p * q <= -p
                BY <1>1, <1>3, <3>2
            <4>2. QED
                BY <1>1, <1>3, <2>1, <4>1
        <3>3. QED
            BY <1>3, <3>1, <3>2
    <2>3. p * q = 0
        BY <1>1, <2>2
    <2>4. QED
        BY <1>1, <1>3, <2>3
<1>6. ASSUME NEW x \in Int, l + r = x, n # x PROVE x - n >= p \/ n - x >= p
    <2>1. n - x = p * q
        BY <1>1, <1>3, <1>6
    <2>2. q # 0
        BY <1>1, <1>3, <1>6, <2>1
    <2>3. p * q >= p \/ p * q <= -p
        <3>1. CASE q >= 1
            BY <1>1, <1>3, <3>1
        <3>2. CASE q <= -1
            BY <1>1, <1>3, <3>2
        <3>3. QED
            BY <1>3, <2>2, <3>1, <3>2
    <2>4. QED
        BY <1>1, <1>3, <1>6, <2>1, <2>3
<1>7. \A x \in l .. (l + p - 1) : x \in Int
    BY <1>1
<1>8. QED
    BY <1>2, <1>4, <1>5, <1>6, <1>7 DEF p

LEMMA ExponentFacts ==
    ASSUME NEW n \in Int, Abs(n) <= Power[WordBits]
    PROVE  /\ Exponent(n) \in 0 .. WordBits /\ MantissaBits + Exponent(n) \in Powered
           /\ Abs(n) \in Nat /\ Abs(n) < Power[MantissaBits + Exponent(n)]
           /\ Exponent(n) > 0 => /\ MantissaBits + Exponent(n) - 1 \in Powered
                                 /\ Abs(n) >= Power[MantissaBits + Exponent(n) - 1]
<1> DEFINE S == {e \in 0 .. WordBits : Abs(n) < Power[MantissaBits + e]}
           Needed(e) == /\ Abs(n) < Power[MantissaBits + e]
                        /\ e > 0 => Abs(n) >= Power[MantissaBits + e - 1]
<1>1. Abs(n) \in Nat
    BY DEF Abs
<1>2. \A e \in 0 .. WordBits : MantissaBits + e \in Powered /\ (e > 0 => MantissaBits + e - 1 \in Powered)
    BY BitsFacts DEF Powered
<1>3. WordBits \in S
    <2>1. WordBits \in 0 .. WordBits /\ WordBits < MantissaBits + WordBits
        BY BitsFacts
    <2>2. Power[WordBits] < Power[MantissaBits + WordBits]
        BY <1>2, <2>1, BitsFacts, PowerGrows
    <2>3. Power[WordBits] \in Nat /\ Power[MantissaBits + WordBits] \in Nat
        BY <1>2, <2>1, BitsFacts, PowerType
    <2>4. QED
        BY <1>1, <2>1, <2>2, <2>3
<1>4. PICK e \in S : \A f \in S : e <= f
    <2>1. S \in SUBSET Nat /\ S # {}
        BY <1>3, BitsFacts
    <2> HIDE DEF S
    <2>2. QED
        BY <2>1, LeastExists
<1>5. e \in 0 .. WordBits /\ Abs(n) < Power[MantissaBits + e]
    BY <1>4
<1>6. ASSUME e > 0 PROVE Abs(n) >= Power[MantissaBits + e - 1]
    <2>1. e - 1 \in 0 .. WordBits /\ ~(e <= e - 1) /\ MantissaBits + (e - 1) = MantissaBits + e - 1
        BY <1>5, <1>6, BitsFacts
    <2>2. e - 1 \notin S
        <3> HIDE DEF S
        <3>1. QED
            BY <1>4, <2>1
    <2>3. ~(Abs(n) < Power[MantissaBits + (e - 1)])
        BY <2>1, <2>2
    <2>4. Power[MantissaBits + e - 1] \in Nat
        BY <1>2, <1>5, <1>6, PowerType
    <2>5. QED
        BY <1>1, <2>1, <2>3, <2>4
<1>7. \E f \in 0 .. WordBits : Needed(f)
    BY <1>5, <1>6
<1>8. Exponent(n) = CHOOSE f \in 0 .. WordBits : Needed(f)
    BY DEF Exponent
<1> HIDE DEF Needed
<1>9. Exponent(n) \in 0 .. WordBits /\ Needed(Exponent(n))
    BY <1>7, <1>8
<1>10. QED
    BY <1>1, <1>2, <1>9 DEF Needed

(* The multiple of the step below a number, what is above it, and the way it is rounded. *)
Up(step, low, rest) == 2 * rest > step \/ (2 * rest = step /\ low % 2 = 1)

LEMMA RoundedParts ==
    ASSUME NEW n \in Int, Abs(n) <= Power[WordBits]
    PROVE  \E step \in Nat \ {0}, low \in Nat, rest \in Nat, mag \in Nat :
              /\ step = Power[Exponent(n)] /\ rest < step
              /\ Abs(n) = low * step + rest
              /\ mag = (IF Up(step, low, rest) THEN low + 1 ELSE low) * step
              /\ Rounded(n) = IF n < 0 THEN -mag ELSE mag
<1> DEFINE step == Power[Exponent(n)]
           a == Abs(n)
           low == a \div step
           rest == a % step
           mag == (IF Up(step, low, rest) THEN low + 1 ELSE low) * step
<1>1. step \in Nat \ {0} /\ a \in Nat
    BY ExponentFacts, PowerType, BitsFacts
<1>2. Rounded(n) = IF n < 0 THEN -mag ELSE mag
    BY DEF Rounded, Up
<1> HIDE DEF step, a
<1>3. low \in Int /\ rest \in 0 .. (step - 1) /\ a = step * low + rest
    BY <1>1
<1> HIDE DEF low, rest
<1>4. low \in Nat
    <2>1. ASSUME low <= -1 PROVE FALSE
        <3>1. step * low <= -step
            BY <1>1, <1>3, <2>1
        <3>2. QED
            BY <1>1, <1>3, <3>1
    <2>2. QED
        BY <1>3, <2>1
<1>5. step * low = low * step
    BY <1>1, <1>4
<1>6. mag \in Nat
    <2>1. \A k \in Nat : k * step \in Nat
        BY <1>1
    <2>2. (IF Up(step, low, rest) THEN low + 1 ELSE low) \in Nat
        BY <1>4
    <2>3. QED
        BY <2>1, <2>2
<1> HIDE DEF mag
<1>7. rest \in Nat /\ rest < step /\ a = low * step + rest
    BY <1>1, <1>3, <1>5
<1>8. QED
    BY <1>1, <1>2, <1>4, <1>6, <1>7 DEF mag, step, a

(* A number is rounded to itself exactly if it has few enough bits. *)
LEMMA RoundedIsExact ==
    ASSUME NEW n \in Int, Abs(n) <= Power[WordBits]
    PROVE  Rounded(n) = n <=> Exact(n)
<1> DEFINE a == Abs(n)
           e == Exponent(n)
<1>1. PICK step \in Nat \ {0}, low \in Nat, rest \in Nat, mag \in Nat :
          /\ step = Power[e] /\ rest < step
          /\ a = low * step + rest
          /\ mag = (IF Up(step, low, rest) THEN low + 1 ELSE low) * step
          /\ Rounded(n) = IF n < 0 THEN -mag ELSE mag
    BY RoundedParts
<1>2. /\ e \in 0 .. WordBits /\ MantissaBits + e \in Powered /\ a \in Nat
      /\ a < Power[MantissaBits + e]
      /\ e > 0 => MantissaBits + e - 1 \in Powered /\ a >= Power[MantissaBits + e - 1]
    BY ExponentFacts
<1>3. /\ MantissaBits \in Powered /\ Power[MantissaBits] \in Nat \ {0}
      /\ Power[MantissaBits + e] = Power[MantissaBits] * step
    <2>1. MantissaBits \in Nat /\ e \in Nat
        BY <1>2, BitsFacts
    <2>2. QED
        BY <1>1, <1>2, <2>1, PowerOfSum, PowerType
<1>4. Rounded(n) = n <=> mag = a
    BY <1>1 DEF Abs
<1> HIDE DEF a, e
<1>5. mag = a <=> rest = 0
    <2>1. CASE Up(step, low, rest)
        <3>1. mag = (low + 1) * step /\ (low + 1) * step = low * step + step
            <4>1. mag = (low + 1) * step
                BY <1>1, <2>1
            <4>2. (low + 1) * step = low * step + step
                OBVIOUS
            <4>3. QED
                BY <4>1, <4>2
        <3>2. 2 * rest >= step
            BY <1>1, <2>1 DEF Up
        <3> DEFINE m == low * step
        <3>3. m \in Nat
            BY <1>1
        <3> HIDE DEF m
        <3>4. a = m + rest /\ mag = m + step
            BY <1>1, <3>1 DEF m
        <3>5. QED
            BY <1>1, <3>2, <3>3, <3>4
    <2>2. CASE ~Up(step, low, rest)
        <3>1. mag = low * step
            BY <1>1, <2>2
        <3> DEFINE m == low * step
        <3>2. m \in Nat
            BY <1>1
        <3> HIDE DEF m
        <3>3. a = m + rest /\ mag = m
            BY <1>1, <3>1 DEF m
        <3>4. QED
            BY <1>1, <3>2, <3>3
    <2>3. QED
        BY <2>1, <2>2
<1>6. ASSUME rest = 0 PROVE Exact(n)
    <2>1. a = low * step
        <3>1. low * step \in Nat
            OBVIOUS
        <3>2. QED
            BY <1>1, <1>6, <3>1
    <2>2. low < Power[MantissaBits]
        <3>1. ASSUME low >= Power[MantissaBits] PROVE FALSE
            <4> DEFINE p == Power[MantissaBits]
            <4>1. p \in Nat /\ low >= p
                BY <1>3, <3>1
            <4>2. low * step < p * step
                BY <1>2, <1>3, <2>1
            <4> HIDE DEF p
            <4>3. low * step >= p * step
                BY <4>1
            <4>4. low * step \in Nat /\ p * step \in Nat
                BY <4>1
            <4>5. QED
                BY <4>2, <4>3, <4>4
        <3>2. QED
            BY <1>3, <3>1
    <2>3. low \in 0 .. (Power[MantissaBits] - 1)
        BY <1>3, <2>2
    <2>4. QED
        BY <1>1, <1>2, <2>1, <2>3 DEF Exact, a
<1>7. ASSUME Exact(n) PROVE rest = 0
    <2>1. PICK k \in 0 .. WordBits, m \in 0 .. (Power[MantissaBits] - 1) : a = m * Power[k]
        BY <1>7 DEF Exact, a
    <2>2. k \in Nat /\ e \in Nat /\ k \in Powered /\ e \in Powered /\ MantissaBits \in Nat
        BY <1>2, BitsFacts
    <2>3. m \in Nat /\ m < Power[MantissaBits] /\ Power[k] \in Nat \ {0}
        BY <1>3, <2>1, <2>2, PowerType
    <2>4. e = 0 \/ e <= k
        <3>1. SUFFICES ASSUME e > 0 PROVE e <= k
            BY <2>2
        <3>2. MantissaBits + k \in Powered
            BY <2>1, BitsFacts DEF Powered
        <3>3. Power[MantissaBits + k] = Power[MantissaBits] * Power[k]
            BY <2>2, <3>2, PowerOfSum
        <3>4. m * Power[k] < Power[MantissaBits] * Power[k]
            <4> DEFINE p == Power[MantissaBits]
                       q == Power[k]
            <4>1. p \in Nat /\ q \in Nat \ {0} /\ m < p
                BY <1>3, <2>3
            <4> HIDE DEF p, q
            <4>2. m * q < p * q
                BY <2>3, <4>1
            <4>3. QED
                BY <4>2 DEF p, q
        <3>5. /\ MantissaBits + e - 1 \in Powered /\ Power[MantissaBits + e - 1] \in Nat
              /\ Power[MantissaBits + e - 1] <= a /\ Power[MantissaBits + k] \in Nat
            BY <1>2, <3>1, <3>2, PowerType
        <3>6. Power[MantissaBits + e - 1] < Power[MantissaBits + k]
            BY <1>2, <2>1, <3>3, <3>4, <3>5
        <3>7. MantissaBits + e - 1 < MantissaBits + k
            BY <3>2, <3>5, <3>6, PowerReflects
        <3>8. QED
            BY <2>2, <3>7
    <2>5. PICK j \in Nat : a = j * step
        <3>1. CASE e = 0
            <4>1. step = 1
                BY <1>1, <3>1, PowerUnfolds
            <4>2. a = a * step
                BY <1>2, <4>1
            <4>3. QED
                BY <1>2, <4>2
        <3>2. CASE e <= k
            <4>1. k - e \in Nat /\ (k - e) + e = k /\ (k - e) + e \in Powered
                BY <2>2, <3>2
            <4>2. Power[k] = Power[k - e] * Power[e] /\ Power[k - e] \in Nat
                BY <2>2, <4>1, PowerOfSum, PowerType
            <4> DEFINE r == Power[k - e]
            <4>3. r \in Nat /\ a = m * (r * step)
                BY <1>1, <2>1, <4>2
            <4> HIDE DEF r
            <4>4. a = (m * r) * step /\ m * r \in Nat
                BY <2>3, <4>3
            <4>5. QED
                BY <4>4
        <3>3. QED
            BY <2>4, <3>1, <3>2
    <2>6. j * step = low * step + rest /\ rest < step
        BY <1>1, <2>5
    <2>7. CASE j > low
        <3>1. j * step >= (low + 1) * step
            BY <2>7
        <3>2. (low + 1) * step = low * step + step
            OBVIOUS
        <3> DEFINE p == low * step
        <3>3. p \in Nat
            OBVIOUS
        <3> HIDE DEF p
        <3>4. p + rest >= p + step
            BY <2>6, <3>1, <3>2 DEF p
        <3>5. QED
            BY <2>6, <3>3, <3>4
    <2>8. CASE j < low
        <3>1. (j + 1) * step <= low * step
            BY <2>8
        <3>2. (j + 1) * step = j * step + step
            OBVIOUS
        <3> DEFINE p == low * step
        <3>3. p \in Nat
            OBVIOUS
        <3> HIDE DEF p
        <3>4. (p + rest) + step <= p
            BY <2>6, <3>1, <3>2 DEF p
        <3>5. QED
            BY <3>3, <3>4
    <2>9. CASE j = low
        <3> DEFINE p == low * step
        <3>1. p \in Nat /\ p = p + rest
            BY <2>6, <2>9
        <3> HIDE DEF p
        <3>2. QED
            BY <3>1
    <2>10. QED
        BY <2>7, <2>8, <2>9
<1>8. QED
    BY <1>4, <1>5, <1>6, <1>7

(* A number is rounded by less than itself, and by at most half of itself. *)
LEMMA RoundedIsNear ==
    ASSUME NEW n \in Int, Abs(n) <= Power[WordBits]
    PROVE  /\ Rounded(n) \in Int /\ (n >= 0 => Rounded(n) >= 0)
           /\ 2 * (Rounded(n) - n) <= Abs(n) /\ 2 * (n - Rounded(n)) <= Abs(n)
<1> DEFINE a == Abs(n)
           e == Exponent(n)
<1>1. PICK step \in Nat \ {0}, low \in Nat, rest \in Nat, mag \in Nat :
          /\ step = Power[e] /\ rest < step
          /\ a = low * step + rest
          /\ mag = (IF Up(step, low, rest) THEN low + 1 ELSE low) * step
          /\ Rounded(n) = IF n < 0 THEN -mag ELSE mag
    BY RoundedParts
<1>2. /\ e \in 0 .. WordBits /\ a \in Nat
      /\ e > 0 => MantissaBits + e - 1 \in Powered /\ a >= Power[MantissaBits + e - 1]
    BY ExponentFacts
<1>3. e = 0 \/ step <= a
    <2>1. SUFFICES ASSUME e > 0 PROVE step <= a
        BY <1>2, BitsFacts
    <2>2. e \in Powered /\ MantissaBits + e - 1 \in Powered
        BY <1>2, <2>1, BitsFacts
    <2>3. e <= MantissaBits + e - 1
        BY <1>2, BitsFacts
    <2>4. Power[e] <= Power[MantissaBits + e - 1] /\ Power[MantissaBits + e - 1] \in Nat
        <3>1. CASE e = MantissaBits + e - 1
            BY <2>2, <3>1, PowerType
        <3>2. CASE e < MantissaBits + e - 1
            BY <2>2, <3>2, PowerGrows, PowerType
        <3>3. QED
            BY <1>2, <2>3, <3>1, <3>2, BitsFacts
    <2>5. QED
        BY <1>1, <1>2, <2>1, <2>4
<1>4. e = 0 => step = 1
    BY <1>1, PowerUnfolds
<1> DEFINE m == low * step
<1>5. /\ m \in Nat /\ a = m + rest
      /\ \/ mag = m /\ 2 * rest <= step
         \/ mag = m + step /\ 2 * rest >= step
    <2>1. m \in Nat /\ a = m + rest
        BY <1>1
    <2>2. CASE Up(step, low, rest)
        <3>1. mag = (low + 1) * step
            BY <1>1, <2>2
        <3>2. (low + 1) * step = low * step + step
            OBVIOUS
        <3>3. mag = m + step
            BY <3>1, <3>2
        <3>4. 2 * rest >= step
            BY <1>1, <2>2 DEF Up
        <3> HIDE DEF m
        <3>5. QED
            BY <2>1, <3>3, <3>4
    <2>3. CASE ~Up(step, low, rest)
        <3>1. mag = m
            BY <1>1, <2>3
        <3>2. 2 * rest <= step
            BY <1>1, <2>3 DEF Up
        <3> HIDE DEF m
        <3>3. QED
            BY <2>1, <3>1, <3>2
    <2>4. QED
        BY <2>2, <2>3
<1> HIDE DEF m
<1>6. a = IF n < 0 THEN -n ELSE n
    BY DEF Abs
<1> HIDE DEF a, e
<1>7. 2 * (mag - a) <= a /\ 2 * (a - mag) <= a
    <2>1. CASE step <= a
        <3>1. rest < step
            BY <1>1
        <3>2. QED
            BY <1>2, <1>5, <2>1, <3>1
    <2>2. CASE e = 0
        <3>1. step = 1 /\ rest = 0
            BY <1>1, <1>4, <2>2
        <3>2. mag = m /\ a = m
            BY <1>5, <3>1
        <3>3. QED
            BY <1>2, <3>2
    <2>3. QED
        BY <1>3, <2>1, <2>2
<1>8. Rounded(n) = IF n < 0 THEN -mag ELSE mag
    BY <1>1
<1>9. QED
    BY <1>1, <1>2, <1>6, <1>7, <1>8 DEF a

(* The greatest word is rounded up, unless it has few enough bits. *)
LEMMA GreatestRoundsUp ==
    ASSUME ~Exact(MaxWord)
    PROVE  MaxWord \in Nat /\ MaxWord <= Power[WordBits] /\ Rounded(MaxWord) > MaxWord
<1> DEFINE n == MaxWord
           e == Exponent(n)
           p == Power[WordBits - 1]
<1>1. /\ WordBits - 1 \in Powered /\ p \in Nat \ {0} /\ n = p - 1
      /\ n \in Nat /\ Power[WordBits] = 2 * p /\ Abs(n) = n
    <2>1. WordBits - 1 \in Nat /\ WordBits = (WordBits - 1) + 1 /\ WordBits \in Powered
        BY BitsFacts
    <2>2. Power[WordBits] = 2 * p /\ p \in Nat \ {0} /\ WordBits - 1 \in Powered
        BY <2>1, PowerSucceeds
    <2>3. QED
        BY <2>2 DEF MaxWord, Abs
<1>2. n <= Power[WordBits]
    BY <1>1
<1>3. PICK step \in Nat \ {0}, low \in Nat, rest \in Nat, mag \in Nat :
          /\ step = Power[e] /\ rest < step
          /\ n = low * step + rest
          /\ mag = (IF Up(step, low, rest) THEN low + 1 ELSE low) * step
          /\ Rounded(n) = mag
    <2>1. \E step \in Nat \ {0}, low \in Nat, rest \in Nat, mag \in Nat :
              /\ step = Power[e] /\ rest < step
              /\ Abs(n) = low * step + rest
              /\ mag = (IF Up(step, low, rest) THEN low + 1 ELSE low) * step
              /\ Rounded(n) = IF n < 0 THEN -mag ELSE mag
        <3>1. n \in Int /\ Abs(n) <= Power[WordBits]
            BY <1>1, <1>2
        <3> HIDE DEF n
        <3>2. QED
            BY <3>1, RoundedParts
    <2>2. n >= 0
        BY <1>1
    <2>3. Abs(n) = n /\ ~(n < 0)
        BY <1>1, <2>2
    <2> HIDE DEF n, e
    <2>4. QED
        BY <2>1, <2>3
<1>4. Rounded(n) # n
    BY <1>1, <1>2, RoundedIsExact
<1>5. /\ e \in 0 .. WordBits
      /\ e > 0 => MantissaBits + e - 1 \in Powered /\ n >= Power[MantissaBits + e - 1]
    BY <1>1, <1>2, ExponentFacts
<1>6. e # 0
    <2>1. SUFFICES ASSUME e = 0 PROVE FALSE
        OBVIOUS
    <2>2. step = 1 /\ rest = 0
        BY <1>3, <2>1, PowerUnfolds
    <2>3. n = low
        BY <1>3, <2>2
    <2>4. ~Up(step, low, rest)
        BY <2>2 DEF Up
    <2>5. Rounded(n) = low
        BY <1>3, <2>2, <2>4
    <2>6. QED
        BY <1>4, <2>3, <2>5
<1>7. MantissaBits + e - 1 < WordBits - 1
    <2>1. MantissaBits + e - 1 \in Powered /\ Power[MantissaBits + e - 1] \in Nat
        BY <1>5, <1>6, PowerType
    <2>2. Power[MantissaBits + e - 1] < p
        BY <1>1, <1>5, <1>6, <2>1
    <2>3. QED
        BY <1>1, <2>1, <2>2, PowerReflects
<1>8. e - 1 \in Nat /\ e \in Powered /\ step = 2 * Power[e - 1] /\ Power[e - 1] \in Nat \ {0}
    <2>1. e - 1 \in Nat /\ e = (e - 1) + 1 /\ e \in Powered
        BY <1>5, <1>6, BitsFacts
    <2>2. QED
        BY <1>3, <2>1, PowerSucceeds
<1>9. PICK j \in Nat : p = (2 * j) * step
    <2>1. WordBits - 1 - e - 1 \in Nat
        BY <1>5, <1>7, BitsFacts
    <2> DEFINE r == WordBits - 1 - e
    <2>2. r \in Nat /\ r = (r - 1) + 1 /\ r - 1 \in Nat /\ r + e = WordBits - 1 /\ e \in Nat
        BY <1>5, <2>1, BitsFacts
    <2> HIDE DEF r
    <2>3. Power[WordBits - 1] = Power[r] * Power[e] /\ r \in Powered
        BY <1>1, <2>2, PowerOfSum
    <2>4. Power[r] = 2 * Power[r - 1] /\ Power[r - 1] \in Nat
        BY <2>2, <2>3, PowerSucceeds
    <2>5. p = (2 * Power[r - 1]) * step
        BY <1>3, <2>3, <2>4
    <2>6. QED
        BY <2>4, <2>5
<1>10. (2 * j) * step = low * step + rest + 1
    BY <1>1, <1>3, <1>9
<1> HIDE DEF e, p, n
<1>11. rest = step - 1 /\ low = 2 * j - 1
    <2> DEFINE i == 2 * j
    <2>1. i \in Nat /\ i * step = low * step + rest + 1
        BY <1>10
    <2> HIDE DEF i
    <2>2. CASE i >= low + 2
        <3>1. i * step >= (low + 2) * step
            BY <2>1, <2>2
        <3>2. (low + 2) * step = low * step + 2 * step /\ low * step \in Nat
            OBVIOUS
        <3> DEFINE m == low * step
        <3>3. m \in Nat /\ m + rest + 1 >= m + 2 * step
            BY <2>1, <3>1, <3>2
        <3> HIDE DEF m
        <3>4. QED
            BY <1>3, <3>3
    <2>3. CASE i <= low
        <3>1. i * step <= low * step
            BY <2>1, <2>3
        <3>2. low * step \in Nat
            OBVIOUS
        <3> DEFINE m == low * step
        <3>3. m \in Nat /\ m + rest + 1 <= m
            BY <2>1, <3>1, <3>2
        <3> HIDE DEF m
        <3>4. QED
            BY <3>3
    <2>4. CASE i = low + 1
        <3>1. (low + 1) * step = low * step + step /\ low * step \in Nat
            OBVIOUS
        <3> DEFINE m == low * step
        <3>2. m \in Nat /\ m + step = m + rest + 1
            BY <2>1, <2>4, <3>1
        <3> HIDE DEF m
        <3>3. rest = step - 1
            BY <3>2
        <3>4. QED
            BY <2>4, <3>3 DEF i
    <2>5. QED
        BY <2>1, <2>2, <2>3, <2>4
<1>12. Up(step, low, rest)
    <2>1. step >= 2
        BY <1>8
    <2>2. low % 2 = 1
        BY <1>11
    <2>3. 2 * rest >= step
        BY <1>11, <2>1
    <2>4. QED
        BY <2>2, <2>3 DEF Up
<1>13. Rounded(n) = p
    <2>1. mag = (low + 1) * step
        BY <1>3, <1>12
    <2>2. low + 1 = 2 * j
        BY <1>11
    <2>3. mag = (2 * j) * step
        BY <2>1, <2>2
    <2>4. QED
        BY <1>3, <1>9, <2>3
<1>14. QED
    BY <1>1, <1>2, <1>13 DEF n

(* What an integer is after the way to JavaScript and back. *)
LEMMA IntegersReturn ==
    ASSUME NEW kind \in DOMAIN IntKinds, NEW x \in Word(kind)
    PROVE  /\ Rounded(x) \in Int
           /\ Convert(kind, IntegerValue(NumberOf(Rounded(x)))) = x
                 <=> x = MaxWord \/ (Exact(x) /\ x <= MaxWord)
<1> DEFINE r == Rounded(x)
           p == Power[IntKinds[kind].bits]
           iv == IntegerValue(NumberOf(r))
<1>1. /\ x \in Int /\ Abs(x) <= p /\ p \in Nat \ {0} /\ p <= Power[WordBits]
      /\ MaxWord \in Nat /\ MinWord = -(MaxWord + 1)
      /\ Lowest(kind) \in Int /\ Lowest(kind) <= 0 /\ MinWord <= Lowest(kind)
      /\ Highest(kind) = Lowest(kind) + p - 1
    BY WordFacts
<1>2. /\ x <= Highest(kind) /\ Lowest(kind) <= x
      /\ \A n \in Int : Lowest(kind) <= n /\ n <= Highest(kind) => n \in Word(kind)
    BY <1>1 DEF Word
<1>3. Abs(x) <= Power[WordBits] /\ Abs(x) \in Nat
    <2>1. Abs(x) \in Nat
        BY <1>1 DEF Abs
    <2>2. Power[WordBits] \in Nat
        BY BitsFacts, PowerType
    <2>3. QED
        BY <1>1, <2>1, <2>2
<1>4. /\ r \in Int /\ (x >= 0 => r >= 0)
      /\ 2 * (r - x) <= Abs(x) /\ 2 * (x - r) <= Abs(x)
    BY <1>1, <1>3, RoundedIsNear
<1>5. r = x <=> Exact(x)
    BY <1>1, <1>3, RoundedIsExact
<1> HIDE DEF r, p
<1>6. iv = IF r > MaxWord THEN MaxWord ELSE IF r < MinWord THEN MinWord ELSE r
    BY DEF IntegerValue, NumberOf
<1> HIDE DEF iv
<1>7. iv \in Int /\ MinWord <= iv /\ iv <= MaxWord
    BY <1>1, <1>4, <1>6
<1>8. /\ iv \in Word(kind) => Convert(kind, iv) = iv
      /\ Convert(kind, iv) = x /\ iv # x => x - iv >= p \/ iv - x >= p
    BY <1>7, ConvertFacts DEF p
<1>9. CASE x > MaxWord
    <2>1. iv >= 0
        BY <1>1, <1>4, <1>6, <1>9
    <2>2. iv \in Word(kind)
        BY <1>1, <1>2, <1>7, <1>9, <2>1
    <2>3. Convert(kind, iv) # x
        BY <1>1, <1>7, <1>8, <1>9, <2>2
    <2>4. ~(x = MaxWord) /\ ~(x <= MaxWord)
        BY <1>1, <1>9
    <2>5. QED
        BY <1>4, <2>3, <2>4 DEF iv, r
<1>10. CASE x <= MaxWord
    <2>1. MinWord <= x
        BY <1>1, <1>2
    <2>2. x \in Word(kind) => Convert(kind, x) = x
        BY <1>1, ConvertFacts
    <2>3. ASSUME Exact(x) PROVE Convert(kind, iv) = x
        <3>1. r = x
            BY <1>5, <2>3
        <3>2. iv = x
            BY <1>1, <1>6, <1>10, <2>1, <3>1
        <3>3. QED
            BY <2>2, <3>2
    <2>4. ASSUME ~Exact(x), x = MaxWord PROVE Convert(kind, iv) = x
        <3>1. r > MaxWord
            BY <2>4, GreatestRoundsUp DEF r
        <3>2. iv = x
            BY <1>6, <2>4, <3>1
        <3>3. QED
            BY <2>2, <3>2
    <2>5. ASSUME ~Exact(x), x # MaxWord PROVE Convert(kind, iv) # x
        <3>1. r # x
            BY <1>5, <2>5
        <3>2. x # MinWord
            <4>1. SUFFICES ASSUME x = MinWord PROVE FALSE
                OBVIOUS
            <4>2. Abs(x) = Power[WordBits - 1] /\ WordBits - 1 \in 0 .. WordBits
                <5>1. WordBits - 1 \in 0 .. WordBits /\ WordBits - 1 \in Powered
                    BY BitsFacts DEF Powered
                <5>2. Power[WordBits - 1] \in Nat \ {0}
                    BY <5>1, PowerType
                <5>3. QED
                    BY <4>1, <5>1, <5>2 DEF Abs, MinWord
            <4>3. MantissaBits - 1 \in Nat /\ MantissaBits = (MantissaBits - 1) + 1 /\ MantissaBits \in Powered
                BY BitsFacts DEF Powered
            <4>4. Power[MantissaBits] = 2 * Power[MantissaBits - 1] /\ Power[MantissaBits - 1] \in Nat \ {0}
                BY <4>3, PowerSucceeds
            <4>5. 1 \in 0 .. (Power[MantissaBits] - 1)
                BY <4>4
            <4>6. Abs(x) = 1 * Power[WordBits - 1]
                BY <1>3, <4>2
            <4>7. Exact(x)
                BY <4>2, <4>5, <4>6 DEF Exact
            <4>8. QED
                BY <2>5, <4>7
        <3>3. iv # x
            BY <1>1, <1>4, <1>6, <1>10, <2>1, <2>5, <3>1, <3>2
        <3>4. x - iv < p /\ iv - x < p
            <4>1. x - iv <= x - r \/ x - iv <= 0
                BY <1>1, <1>4, <1>6, <1>10, <2>1
            <4>2. iv - x <= r - x \/ iv - x <= 0
                BY <1>1, <1>4, <1>6, <1>10, <2>1
            <4>3. x - r < p /\ r - x < p
                BY <1>1, <1>3, <1>4
            <4>4. QED
                BY <1>1, <1>4, <1>7, <4>1, <4>2, <4>3
        <3>5. QED
            BY <1>1, <1>7, <1>8, <3>3, <3>4
    <2>6. QED
        BY <1>4, <1>10, <2>3, <2>4, <2>5 DEF iv, r
<1>11. QED
    BY <1>1, <1>4, <1>9, <1>10 DEF r

-----------------------------------------------------------------------------
(* Sequences of at most one element, lists, and JS values *)

LEMMA OptionalFacts ==
    ASSUME NEW S
    PROVE  /\ <<>> \in Optional(S)
           /\ \A x \in S : <<x>> \in Optional(S)
           /\ \A x : <<x>>[1] = x /\ <<x>> # <<>>
           /\ \A s \in Optional(S) : s = <<>> \/ (s # <<>> /\ s[1] \in S /\ s = <<s[1]>>)
<1>1. <<>> \in Optional(S)
    BY DEF Optional
<1>2. ASSUME NEW x \in S PROVE <<x>> \in Optional(S)
    <2>1. <<x>> \in Seq(S) /\ Len(<<x>>) = 1
        OBVIOUS
    <2>2. QED
        BY <2>1 DEF Optional
<1>3. ASSUME NEW x PROVE <<x>>[1] = x /\ <<x>> # <<>>
    OBVIOUS
<1>4. ASSUME NEW s \in Optional(S), s # <<>> PROVE s[1] \in S /\ s = <<s[1]>>
    <2>1. s \in Seq(S) /\ Len(s) \in Nat /\ Len(s) <= 1
        BY DEF Optional
    <2>2. Len(s) = 1
        <3>1. s \in Seq(S)
            BY <2>1
        <3>2. Len(s) # 0
            BY <1>4, <3>1
        <3>3. PICK n \in Nat : n = Len(s) /\ n <= 1
            BY <2>1
        <3>4. n # 0
            BY <3>2, <3>3
        <3>5. n = 1
            BY <3>3, <3>4
        <3>6. QED
            BY <3>3, <3>5
    <2>3. QED
        BY <2>1, <2>2
<1>5. QED
    BY <1>1, <1>2, <1>3, <1>4

LEMMA OptionalGrows ==
    ASSUME NEW S, NEW T, S \subseteq T
    PROVE  Optional(S) \subseteq Optional(T)
    BY OptionalFacts

LEMMA ListFacts ==
    ASSUME NEW S
    PROVE  /\ <<>> \in Lists(S)
           /\ \A n \in Nat : \A f \in [1 .. n -> S] :
                 f \in Seq(S) /\ Len(f) = n /\ (n <= MaxWord => f \in Lists(S))
           /\ \A s \in Lists(S) : /\ s \in Seq(S) /\ Len(s) \in Nat /\ Len(s) <= MaxWord
                                  /\ DOMAIN s = 1 .. Len(s) /\ \A i \in DOMAIN s : s[i] \in S
<1>1. MaxWord \in Nat
    BY IntegersAssumption, WordFacts
<1>2. <<>> \in Lists(S)
    BY <1>1 DEF Lists
<1>3. ASSUME NEW n \in Nat, NEW f \in [1 .. n -> S]
      PROVE  f \in Seq(S) /\ Len(f) = n /\ (n <= MaxWord => f \in Lists(S))
    <2>1. f \in Seq(S) /\ Len(f) = n
        OBVIOUS
    <2>2. QED
        BY <2>1 DEF Lists
<1>4. ASSUME NEW s \in Lists(S)
      PROVE  /\ s \in Seq(S) /\ Len(s) \in Nat /\ Len(s) <= MaxWord
             /\ DOMAIN s = 1 .. Len(s) /\ \A i \in DOMAIN s : s[i] \in S
    <2>1. s \in Seq(S) /\ Len(s) <= MaxWord
        BY DEF Lists
    <2>2. QED
        BY <2>1
<1>5. QED
    BY <1>2, <1>3, <1>4

LEMMA ListsGrow ==
    ASSUME NEW S, NEW T, S \subseteq T
    PROVE  Lists(S) \subseteq Lists(T)
<1>1. SUFFICES ASSUME NEW s \in Lists(S) PROVE s \in Lists(T)
    OBVIOUS
<1>2. s \in Seq(S) /\ Len(s) <= MaxWord
    BY DEF Lists
<1>3. s \in Seq(T)
    BY <1>2
<1>4. QED
    BY <1>2, <1>3 DEF Lists

LEMMA NestedInGrows ==
    ASSUME NEW A, NEW B, A \subseteq B
    PROVE  NestedIn(A) \subseteq NestedIn(B)
<1>1. Lists(A) \subseteq Lists(B) /\ Optional(A) \subseteq Optional(B)
    BY ListsGrow, OptionalGrows
<1>2. [js : {"array"}, items : Lists(A)] \subseteq [js : {"array"}, items : Lists(B)]
    BY <1>1
<1>3. [Keys -> Optional(A)] \subseteq [Keys -> Optional(B)]
    BY <1>1
<1>4. [js : {"object"}, fields : [Keys -> Optional(A)]] \subseteq [js : {"object"}, fields : [Keys -> Optional(B)]]
    BY <1>3
<1>5. QED
    BY <1>2, <1>4 DEF NestedIn

LEMMA NestedGrows == \A n \in 1 .. MaxNesting : Nested[n - 1] \subseteq Nested[n]
<1> DEFINE S == {n \in Nat : n + 1 <= MaxNesting => Nested[n] \subseteq Nested[n + 1]}
<1>1. MaxNesting \in Nat
    BY GoTypesAssumption
<1>2. ASSUME NEW n \in Nat, n + 1 <= MaxNesting PROVE Nested[n + 1] = NestedIn(Nested[n])
    <2>1. n + 1 \in 1 .. MaxNesting /\ (n + 1) - 1 = n
        BY <1>1, <1>2
    <2>2. QED
        BY <2>1, NestedUnfolds
<1>3. 0 \in S
    <2>1. SUFFICES ASSUME 0 + 1 <= MaxNesting PROVE Nested[0] \subseteq Nested[0 + 1]
        OBVIOUS
    <2>2. Nested[0 + 1] = NestedIn(Nested[0])
        BY <1>2, <2>1
    <2>3. Nested[0] \subseteq NestedIn(Nested[0])
        BY NestedUnfolds DEF NestedIn
    <2>4. QED
        BY <2>2, <2>3
<1>4. ASSUME NEW n \in Nat, n \in S PROVE n + 1 \in S
    <2>1. SUFFICES ASSUME (n + 1) + 1 <= MaxNesting PROVE Nested[n + 1] \subseteq Nested[(n + 1) + 1]
        OBVIOUS
    <2>2. n + 1 \in Nat /\ n + 1 <= MaxNesting
        BY <1>1, <2>1
    <2>3. Nested[n] \subseteq Nested[n + 1]
        BY <1>4, <2>2
    <2>4. Nested[n + 1] = NestedIn(Nested[n]) /\ Nested[(n + 1) + 1] = NestedIn(Nested[n + 1])
        BY <1>2, <2>1, <2>2
    <2>5. QED
        BY <2>3, <2>4, NestedInGrows
<1>5. Nat \subseteq S
    <2> HIDE DEF S
    <2>1. QED
        BY <1>3, <1>4, SetInduction
<1>6. ASSUME NEW n \in 1 .. MaxNesting PROVE Nested[n - 1] \subseteq Nested[n]
    <2>1. n - 1 \in Nat /\ (n - 1) + 1 = n /\ n <= MaxNesting
        BY <1>1
    <2>2. n - 1 \in S
        <3> HIDE DEF S
        <3>1. QED
            BY <1>5, <2>1
    <2>3. (n - 1) + 1 <= MaxNesting => Nested[n - 1] \subseteq Nested[(n - 1) + 1]
        BY <2>2
    <2>4. QED
        BY <2>1, <2>3
<1>7. QED
    BY <1>6

LEMMA NestedAreJs ==
    /\ \A n \in 0 .. MaxNesting : Nested[n] \subseteq JsValues
    /\ \A n \in 0 .. MaxNesting : Scalars \cup Wrappers \subseteq Nested[n]
<1> DEFINE S == {n \in Nat : n <= MaxNesting => Nested[MaxNesting - n] \subseteq JsValues}
           T == {n \in Nat : n <= MaxNesting => Nested[0] \subseteq Nested[n]}
<1>1. MaxNesting \in Nat
    BY GoTypesAssumption
<1>2. 0 \in S
    <2>1. MaxNesting - 0 = MaxNesting
        BY <1>1
    <2>2. QED
        BY <2>1 DEF JsValues
<1>3. ASSUME NEW n \in Nat, n \in S PROVE n + 1 \in S
    <2>1. SUFFICES ASSUME n + 1 <= MaxNesting PROVE Nested[MaxNesting - (n + 1)] \subseteq JsValues
        OBVIOUS
    <2>2. MaxNesting - n \in 1 .. MaxNesting /\ (MaxNesting - n) - 1 = MaxNesting - (n + 1) /\ n <= MaxNesting
        BY <1>1, <2>1
    <2>3. Nested[(MaxNesting - n) - 1] \subseteq Nested[MaxNesting - n]
        BY <2>2, NestedGrows
    <2>4. Nested[MaxNesting - n] \subseteq JsValues
        BY <1>3, <2>2
    <2>5. QED
        BY <2>2, <2>3, <2>4
<1>4. 0 \in T
    OBVIOUS
<1>5. ASSUME NEW n \in Nat, n \in T PROVE n + 1 \in T
    <2>1. SUFFICES ASSUME n + 1 <= MaxNesting PROVE Nested[0] \subseteq Nested[n + 1]
        OBVIOUS
    <2>2. n + 1 \in 1 .. MaxNesting /\ (n + 1) - 1 = n /\ n <= MaxNesting
        BY <1>1, <2>1
    <2>3. Nested[n] \subseteq Nested[n + 1]
        BY <2>2, NestedGrows
    <2>4. QED
        BY <1>5, <2>2, <2>3
<1>6. Nat \subseteq S /\ Nat \subseteq T
    <2> HIDE DEF S, T
    <2>1. QED
        BY <1>2, <1>3, <1>4, <1>5, SetInduction
<1>7. ASSUME NEW n \in 0 .. MaxNesting PROVE Nested[n] \subseteq JsValues
    <2>1. MaxNesting - n \in Nat /\ MaxNesting - n <= MaxNesting /\ MaxNesting - (MaxNesting - n) = n
        BY <1>1
    <2>2. MaxNesting - n \in S
        <3> HIDE DEF S
        <3>1. QED
            BY <1>6, <2>1
    <2>3. Nested[MaxNesting - (MaxNesting - n)] \subseteq JsValues
        BY <2>1, <2>2
    <2>4. QED
        BY <2>1, <2>3
<1>8. ASSUME NEW n \in 0 .. MaxNesting PROVE Scalars \cup Wrappers \subseteq Nested[n]
    <2>1. n \in Nat /\ n <= MaxNesting
        BY <1>1
    <2>2. n \in T
        <3> HIDE DEF T
        <3>1. QED
            BY <1>6, <2>1
    <2>3. QED
        BY <2>1, <2>2, NestedUnfolds
<1>9. QED
    BY <1>7, <1>8

(* What a JS value is made of. *)
LEMMA JsShapes ==
    ASSUME NEW v \in JsValues
    PROVE  /\ v.js \in JsKinds
           /\ v.js = "boolean" => v.true \in BOOLEAN
           /\ v.js = "number" => v.number \in Int
           /\ v.js = "string" => v.string \in Texts
           /\ v.js = "buffer" => v.bytes \in Lists(Word("uint8"))
           /\ v.js = "wrapper" => v.receiver \in Structs /\ v.fields \in [Keys -> Optional(JsValues)]
           /\ v.js = "array" => v.items \in Lists(JsValues)
           /\ v.js = "object" => v.fields \in [Keys -> Optional(JsValues)]
<1>1. MaxNesting \in Nat /\ Scalars \cup Wrappers \subseteq JsValues
    <2>1. MaxNesting \in Nat /\ MaxNesting \in 0 .. MaxNesting
        BY GoTypesAssumption
    <2>2. QED
        BY <2>1, NestedAreJs DEF JsValues
<1>2. v \in NestedIn(JsValues)
    <2>1. CASE MaxNesting = 0
        <3>1. v \in Scalars \cup Wrappers
            BY <2>1, NestedUnfolds DEF JsValues
        <3>2. QED
            BY <3>1 DEF NestedIn
    <2>2. CASE MaxNesting # 0
        <3>1. MaxNesting \in 1 .. MaxNesting /\ MaxNesting - 1 \in 0 .. MaxNesting
            BY <1>1, <2>2
        <3>2. v \in NestedIn(Nested[MaxNesting - 1]) /\ Nested[MaxNesting - 1] \subseteq JsValues
            BY <3>1, NestedUnfolds, NestedAreJs DEF JsValues
        <3>3. QED
            BY <3>2, NestedInGrows
    <2>3. QED
        BY <2>1, <2>2
<1>3. Optional(Scalars) \subseteq Optional(JsValues)
    BY <1>1, OptionalGrows
<1>4. CASE v \in Scalars
    BY <1>4 DEF Scalars, JsKinds
<1>5. CASE v \in Wrappers
    <2>1. v.js = "wrapper" /\ v.receiver \in Structs /\ v.fields \in [Keys -> Optional(Scalars)]
        BY <1>5 DEF Wrappers
    <2>2. v.fields \in [Keys -> Optional(JsValues)]
        BY <1>3, <2>1
    <2>3. QED
        BY <2>1, <2>2 DEF JsKinds
<1>6. CASE v \in [js : {"array"}, items : Lists(JsValues)]
    BY <1>6 DEF JsKinds
<1>7. CASE v \in [js : {"object"}, fields : [Keys -> Optional(JsValues)]]
    BY <1>7 DEF JsKinds
<1>8. QED
    BY <1>2, <1>4, <1>5, <1>6, <1>7 DEF NestedIn

(* The length of an array is no index of it. *)
LEMMA LengthFacts ==
    ASSUME NEW v \in JsValues, v.js = "array"
    PROVE  Property(v, "length") = NumberOf(Len(v.items))
<1>1. DOMAIN v.items \subseteq 1 .. MaxWord
    <2>1. /\ Len(v.items) \in Nat /\ DOMAIN v.items = 1 .. Len(v.items) /\ Len(v.items) <= MaxWord
        BY JsShapes, ListFacts
    <2>2. QED
        BY <2>1, GreatestFacts
<1>2. \A i \in 1 .. MaxWord : IndexKeys[i] # "length"
    BY KeysAssumption
<1>3. "length" \notin OwnKeys(v)
    BY <1>1, <1>2 DEF OwnKeys
<1>4. QED
    BY <1>3 DEF Property

(* What native code is told of a JS value. *)
LEMMA JsFacts ==
    ASSUME NEW v \in JsValues
    PROVE  /\ IntegerValue(v) \in Int /\ MinWord <= IntegerValue(v) /\ IntegerValue(v) <= MaxWord
           /\ Truth(v) \in BOOLEAN /\ Text(v) \in Texts /\ OwnKeys(v) \subseteq Keys
           /\ \A i : Index(v, i) \in JsValues
           /\ \A key : Property(v, key) \in JsValues
<1>1. MaxWord \in Nat \ {0} /\ MinWord = -(MaxWord + 1)
    BY GreatestFacts
<1>2. /\ IntegerValue(v) \in Int /\ MinWord <= IntegerValue(v) /\ IntegerValue(v) <= MaxWord
      /\ Truth(v) \in BOOLEAN
    <2>1. CASE v.js = "number"
        <3>1. v.number \in Int
            BY <2>1, JsShapes
        <3>2. IntegerValue(v) = IF v.number > MaxWord THEN MaxWord
                                ELSE IF v.number < MinWord THEN MinWord ELSE v.number
            BY <2>1 DEF IntegerValue
        <3>3. Truth(v) = (v.number # 0)
            BY <2>1 DEF Truth
        <3>4. QED
            BY <1>1, <3>1, <3>2, <3>3
    <2>2. CASE v.js = "boolean"
        <3>1. v.true \in BOOLEAN
            BY <2>2, JsShapes
        <3>2. Truth(v) = v.true
            BY <2>2 DEF Truth
        <3>3. IntegerValue(v) = IF v.true THEN 1 ELSE 0
            BY <2>2 DEF IntegerValue
        <3>4. QED
            BY <1>1, <3>1, <3>2, <3>3
    <2>3. CASE v.js \notin {"number", "boolean"}
        <3>1. IntegerValue(v) = 0
            BY <2>3 DEF IntegerValue
        <3>2. Truth(v) \in BOOLEAN
            BY <2>3 DEF Truth, IsNil
        <3>3. QED
            BY <1>1, <3>1, <3>2
    <2>4. QED
        BY <2>1, <2>2, <2>3
<1>3. Text(v) \in Texts
    <2>1. CASE v.js = "string"
        BY <2>1, JsShapes DEF Text
    <2>2. CASE v.js # "string"
        <3>1. v.js \in JsKinds
            BY JsShapes
        <3>2. v.js \in Texts
            BY <3>1, TextsAssumption
        <3>3. QED
            BY <2>2, <3>2 DEF Text
    <2>3. QED
        BY <2>1, <2>2
<1>4. Undefined \in JsValues /\ \A n \in Int : NumberOf(n) \in JsValues
    <2>1. Undefined \in Scalars /\ \A n \in Int : NumberOf(n) \in Scalars
        BY DEF Undefined, NumberOf, Scalars
    <2>2. MaxNesting \in 0 .. MaxNesting
        BY GoTypesAssumption
    <2>3. QED
        BY <2>1, <2>2, NestedAreJs DEF JsValues
<1>5. v.js = "array" => /\ Len(v.items) \in Nat /\ DOMAIN v.items = 1 .. Len(v.items)
                        /\ Len(v.items) <= MaxWord
                        /\ \A i \in DOMAIN v.items : v.items[i] \in JsValues
    BY JsShapes, ListFacts
<1>6. OwnKeys(v) \subseteq Keys
    <2>1. CASE v.js = "array"
        <3>1. \A i \in DOMAIN v.items : i \in 1 .. MaxWord
            BY <1>1, <1>5, <2>1
        <3>2. \A i \in DOMAIN v.items : IndexKeys[i] \in Keys
            BY <3>1, KeysAssumption
        <3>3. OwnKeys(v) = {IndexKeys[i] : i \in DOMAIN v.items}
            BY <2>1 DEF OwnKeys
        <3>4. QED
            BY <3>2, <3>3
    <2>2. CASE v.js \in {"object", "wrapper"}
        BY <2>2 DEF OwnKeys
    <2>3. CASE v.js \notin {"array", "object", "wrapper"}
        BY <2>3 DEF OwnKeys
    <2>4. QED
        BY <2>1, <2>2, <2>3
<1>7. \A i : Index(v, i) \in JsValues
    BY <1>4, <1>5 DEF Index
<1>8. ASSUME NEW key PROVE Property(v, key) \in JsValues
    <2>1. CASE v.js = "array" /\ key = "length"
        <3>1. Property(v, key) = NumberOf(Len(v.items))
            BY <2>1, LengthFacts
        <3>2. Len(v.items) \in Int
            BY <1>5, <2>1
        <3>3. QED
            BY <1>4, <3>1, <3>2
    <2>2. CASE v.js = "array" /\ key # "length" /\ key \in OwnKeys(v)
        BY <1>7, <2>2 DEF Property
    <2>3. CASE v.js \in {"object", "wrapper"} /\ key \in OwnKeys(v)
        <3>1. key \in Keys /\ v.fields[key] # <<>>
            BY <2>3 DEF OwnKeys
        <3>2. v.fields[key] \in Optional(JsValues)
            BY <2>3, <3>1, JsShapes
        <3>3. v.fields[key][1] \in JsValues
            BY <3>1, <3>2, OptionalFacts
        <3>4. QED
            BY <2>3, <3>3 DEF Property
    <2>4. CASE ~(v.js \in {"array", "object", "wrapper"} /\ key \in OwnKeys(v)) /\ ~(v.js = "array" /\ key = "length")
        BY <1>4, <2>4 DEF Property
    <2>5. QED
        BY <2>1, <2>2, <2>3, <2>4
<1>9. QED
    BY <1>2, <1>3, <1>6, <1>7, <1>8

-----------------------------------------------------------------------------
(* Results, and the kinds of the types *)

Outcomes(S) == {Error, Panic, Invalid} \cup {Ok(x) : x \in S}

LEMMA ResultFacts ==
    /\ \A x : IsOk(Ok(x)) /\ Ok(x).value = x /\ Ok(x) \notin {Error, Panic, Invalid}
    /\ \A x : Ok(x).result \notin {"error", "panic"}
    /\ \A x, y : Ok(x) = Ok(y) => x = y
    /\ ~IsOk(Error) /\ ~IsOk(Panic) /\ ~IsOk(Invalid)
    /\ Error.result \in {"error", "panic"} /\ Panic.result \in {"error", "panic"}
    /\ Invalid.result \notin {"error", "panic"}
    /\ Error # Invalid /\ Panic # Invalid
<1>1. \A x : IsOk(Ok(x)) /\ Ok(x).value = x /\ Ok(x).result = "value"
    BY DEF IsOk, Ok
<1>2. ~IsOk(Error) /\ ~IsOk(Panic) /\ ~IsOk(Invalid)
    BY DEF IsOk, Error, Panic, Invalid
<1>3. Error.result = "error" /\ Panic.result = "panic" /\ Invalid.result = "invalid"
    BY DEF Error, Panic, Invalid
<1>4. QED
    BY <1>1, <1>2, <1>3

(* What Unmarshal answers for a mistaken wrapper. *)
Others == {Other(x) : x \in Structs} \cup {Other(<<x>>) : x \in Structs}

LEMMA OtherFacts ==
    /\ \A x : Other(x).result = "other" /\ ~IsOk(Other(x)) /\ Other(x) \notin {Error, Panic, Invalid}
    /\ \A x, y : Other(x) # Ok(y)
    /\ \A S : \A r \in Outcomes(S) : r.result # "other"
<1>1. /\ Error.result = "error" /\ Panic.result = "panic" /\ Invalid.result = "invalid"
      /\ \A x : Ok(x).result = "value" /\ Other(x).result = "other"
    BY DEF Error, Panic, Invalid, Ok, Other
<1>2. ASSUME NEW S, NEW r \in Outcomes(S) PROVE r.result # "other"
    <2>1. r \in {Error, Panic, Invalid} \/ \E x \in S : r = Ok(x)
        BY DEF Outcomes
    <2>2. QED
        BY <1>1, <2>1
<1>3. QED
    BY <1>1, <1>2 DEF IsOk

LEMMA OutcomeFacts ==
    ASSUME NEW S, NEW r \in Outcomes(S)
    PROVE  /\ IsOk(r) => r = Ok(r.value) /\ r.value \in S
           /\ ~IsOk(r) => r \in {Error, Panic, Invalid}
           /\ r.result \in {"error", "panic"} <=> r \in {Error, Panic}
<1>1. r \in {Error, Panic, Invalid} \/ \E x \in S : r = Ok(x)
    BY DEF Outcomes
<1>2. QED
    BY <1>1, ResultFacts

LEMMA OutcomesOf ==
    ASSUME NEW S
    PROVE  /\ Error \in Outcomes(S) /\ Panic \in Outcomes(S) /\ Invalid \in Outcomes(S)
           /\ \A x \in S : Ok(x) \in Outcomes(S)
    BY DEF Outcomes

LEMMA InOrderFacts ==
    ASSUME NEW results, NEW whole, DOMAIN results \subseteq Nat
    PROVE  \/ (\A i \in DOMAIN results : IsOk(results[i])) /\ InOrder(results, whole) = Ok(whole)
           \/ \E i \in DOMAIN results : ~IsOk(results[i]) /\ InOrder(results, whole) = results[i]
<1> DEFINE bad == {i \in DOMAIN results : ~IsOk(results[i])}
<1>1. CASE bad = {}
    <2>1. \A i \in DOMAIN results : IsOk(results[i])
        BY <1>1
    <2>2. InOrder(results, whole) = Ok(whole)
        BY <1>1 DEF InOrder
    <2>3. QED
        BY <2>1, <2>2
<1>2. CASE bad # {}
    <2>1. bad \in SUBSET Nat
        OBVIOUS
    <2>2. InOrder(results, whole) = results[CHOOSE i \in bad : \A j \in bad : i <= j]
        BY <1>2 DEF InOrder
    <2> HIDE DEF bad
    <2>3. \E i \in bad : \A j \in bad : i <= j
        BY <1>2, <2>1, LeastExists
    <2>4. PICK i \in bad : InOrder(results, whole) = results[i]
        BY <2>2, <2>3
    <2>5. QED
        BY <2>4 DEF bad
<1>3. QED
    BY <1>1, <1>2

LEMMA InAnyOrderFacts ==
    ASSUME NEW results, NEW whole
    PROVE  \/ /\ \A k \in DOMAIN results : results[k].result \notin {"error", "panic"}
              /\ InAnyOrder(results, whole) = Ok(whole)
           \/ \E k \in DOMAIN results : /\ results[k].result \in {"error", "panic"}
                                        /\ InAnyOrder(results, whole) = results[k]
<1> DEFINE bad == {k \in DOMAIN results : results[k].result \in {"error", "panic"}}
<1>1. CASE bad = {}
    <2>1. \A k \in DOMAIN results : results[k].result \notin {"error", "panic"}
        BY <1>1
    <2>2. InAnyOrder(results, whole) = Ok(whole)
        BY <1>1 DEF InAnyOrder
    <2>3. QED
        BY <2>1, <2>2
<1>2. CASE bad # {}
    <2>1. InAnyOrder(results, whole) = results[CHOOSE k \in bad : TRUE]
        BY <1>2 DEF InAnyOrder
    <2> HIDE DEF bad
    <2>2. PICK k \in bad : InAnyOrder(results, whole) = results[k]
        BY <1>2, <2>1
    <2>3. QED
        BY <2>2 DEF bad
<1>3. QED
    BY <1>1, <1>2

(* The kinds are told apart. *)
LEMMA KindFacts ==
    /\ {"int", "int8", "uint8"} \subseteq DOMAIN IntKinds
    /\ \A kind \in {"bool", "string", "bytes", "ptr", "slice", "map"} :
          kind \notin DOMAIN IntKinds /\ kind \notin StructKinds
    /\ \A kind \in StructKinds :
          kind \notin DOMAIN IntKinds \cup {"int", "string", "bool", "bytes", "ptr", "slice", "map"}
    BY IntegersAssumption, StructsAssumption DEF Compound

(* What a variable of a type holds, kind by kind. *)
LEMMA HeldFacts ==
    ASSUME NEW type \in GoTypes
    PROVE  LET kind == Head(type) IN
           /\ kind \in DOMAIN IntKinds => Held[type] = Word(kind)
           /\ kind = "bool" => Held[type] = BOOLEAN
           /\ kind = "string" => Held[type] = Texts
           /\ kind = "bytes" => Held[type] = SliceOf(Word("uint8"))
           /\ kind \in StructKinds => Held[type] = StructsOf(kind)
           /\ kind = "ptr" => Held[type] = Optional(Held[Tail(type)])
           /\ kind = "slice" => Held[type] = SliceOf(Held[Tail(type)])
           /\ kind = "map" => Held[type] = MapOf(Held[Tail(type)])
<1> DEFINE elem == Held[Tail(type)]
           kind == Head(type)
<1>1. Held[type] = HeldBy(type, elem)
    BY HeldUnfolds
<1> HIDE DEF elem
<1>2. kind \in DOMAIN IntKinds => Held[type] = Word(kind)
    BY <1>1, KindFacts DEF HeldBy
<1>3. kind \in StructKinds => Held[type] = StructsOf(kind)
    BY <1>1, KindFacts DEF HeldBy
<1>4. kind \in {"bool", "string", "bytes", "ptr", "slice", "map"} =>
          kind \notin DOMAIN IntKinds /\ kind \notin StructKinds
    BY KindFacts
<1>5. QED
    BY <1>1, <1>2, <1>3, <1>4 DEF HeldBy, elem

LEMMA ToStruct ==
    ASSUME NEW type \in GoTypes, Head(type) = "ptr", Head(Tail(type)) \in StructKinds
    PROVE  type = <<"ptr", Head(Tail(type))>>
<1>1. Tail(type) \in GoTypes /\ Len(Tail(type)) = Len(type) - 1 /\ type \in Seq(STRING) /\ type[1] = "ptr"
    BY TypeFacts DEF Compound
<1>2. Len(Tail(type)) = 1 /\ Tail(type)[1] = Head(Tail(type))
    <2>1. Head(Tail(type)) \notin Compound
        BY KindFacts DEF Compound
    <2>2. QED
        BY <1>1, <2>1, TypeFacts
<1>3. Len(type) = 2
    <2>1. Len(type) \in Nat
        BY <1>1
    <2>2. QED
        BY <1>1, <1>2, <2>1
<1>4. type[2] = Tail(type)[1]
    <2>1. type = <<type[1], type[2]>>
        BY <1>1, <1>3
    <2>2. \A a, b : Head(Tail(<<a, b>>)) = b
        OBVIOUS
    <2>3. QED
        BY <1>2, <2>1, <2>2
<1>5. \A s \in Seq(STRING) : Len(s) = 2 => s = <<s[1], s[2]>>
    OBVIOUS
<1>6. QED
    BY <1>1, <1>2, <1>3, <1>4, <1>5

LEMMA OfOneKind ==
    ASSUME NEW type \in GoTypes, Head(type) \in StructKinds
    PROVE  type = <<Head(type)>>
<1>1. type \in Seq(STRING) /\ Len(type) = 1 /\ Head(type) = type[1]
    BY TypeFacts, KindFacts DEF Compound
<1>2. \A s \in Seq(STRING) : Len(s) = 1 => s = <<s[1]>>
    OBVIOUS
<1>3. QED
    BY <1>1, <1>2

(* A struct type, a pointer to one, and other types differ. *)
LEMMA TypesApart ==
    /\ \A a, b : <<a>> = <<b>> => a = b
    /\ \A a, b : <<"ptr", a>> = <<"ptr", b>> => a = b
    /\ \A a, b : <<a>> # <<"ptr", b>>
<1>1. \A a, b : <<a>> = <<b>> => a = b
    OBVIOUS
<1>2. \A a, b : <<"ptr", a>> = <<"ptr", b>> => a = b
    OBVIOUS
<1>3. ASSUME NEW a, NEW b PROVE <<a>> # <<"ptr", b>>
    <2>1. Len(<<a>>) = 1 /\ Len(<<"ptr", b>>) = 2
        OBVIOUS
    <2>2. QED
        BY <2>1
<1>4. QED
    BY <1>1, <1>2, <1>3

LEMMA NotMistaken ==
    ASSUME NEW type \in GoTypes, NEW v,
           Head(type) \notin StructKinds \cup {"ptr"}
    PROVE  ~Mistaken(type, v)
<1>1. \A kind : Head(<<kind>>) = kind /\ Head(<<"ptr", kind>>) = "ptr"
    OBVIOUS
<1>2. QED
    BY <1>1 DEF Mistaken

-----------------------------------------------------------------------------
(* What Unmarshal answers *)

LEMMA ScalarTyped ==
    ASSUME NEW v \in JsValues, NEW type \in GoTypes
    PROVE  UnmarshalScalar(v, Head(type)) \in {Panic} \cup {Ok(x) : x \in Held[type]}
<1> DEFINE kind == Head(type)
<1>1. CASE kind \in DOMAIN IntKinds
    <2>1. UnmarshalScalar(v, kind) = Ok(Convert(kind, IntegerValue(v)))
        BY <1>1, KindFacts DEF UnmarshalScalar
    <2>2. Convert(kind, IntegerValue(v)) \in Held[type]
        <3>1. IntegerValue(v) \in Int
            BY JsFacts
        <3>2. Convert(kind, IntegerValue(v)) \in Word(kind)
            BY <1>1, <3>1, ConvertFacts
        <3>3. QED
            BY <1>1, <3>2, HeldFacts
    <2>3. QED
        BY <2>1, <2>2
<1>2. CASE kind = "string"
    <2>1. UnmarshalScalar(v, kind) = Ok(Text(v)) /\ Text(v) \in Texts /\ Held[type] = Texts
        BY <1>2, JsFacts, HeldFacts, KindFacts DEF UnmarshalScalar
    <2>2. QED
        BY <2>1
<1>3. CASE kind = "bool"
    <2>1. UnmarshalScalar(v, kind) = Ok(Truth(v)) /\ Truth(v) \in BOOLEAN /\ Held[type] = BOOLEAN
        BY <1>3, JsFacts, HeldFacts, KindFacts DEF UnmarshalScalar
    <2>2. QED
        BY <2>1
<1>4. CASE kind \notin DOMAIN IntKinds /\ kind \notin {"string", "bool"}
    BY <1>4 DEF UnmarshalScalar
<1>5. QED
    BY <1>1, <1>2, <1>3, <1>4

LEMMA SliceTyped ==
    ASSUME NEW v \in JsValues, NEW S, NEW elem, \A w \in JsValues : elem[w] \in Outcomes(S)
    PROVE  UnmarshalSlice(v, elem) \in {Error, Panic} \cup {Ok(x) : x \in SliceOf(S)}
<1> DEFINE length == IntegerValue(Property(v, "length"))
           Item(i) == IF elem[Index(v, i)] = Invalid THEN Panic ELSE elem[Index(v, i)]
           results == [i \in 1 .. length |-> Item(i)]
           whole == [nil |-> FALSE, items |-> Values(results)]
<1>1. length \in Int /\ length <= MaxWord
    BY JsFacts
<1>2. UnmarshalSlice(v, elem) = IF ~IsObject(v) THEN Error
                                ELSE IF length < 0 THEN Panic ELSE InOrder(results, whole)
    BY DEF UnmarshalSlice
<1>3. ASSUME NEW i \in 1 .. length
      PROVE  /\ IsOk(Item(i)) => Item(i).value \in S
             /\ ~IsOk(Item(i)) => Item(i) \in {Error, Panic}
    <2>1. elem[Index(v, i)] \in Outcomes(S)
        BY JsFacts
    <2>2. QED
        BY <2>1, OutcomeFacts, ResultFacts
<1> HIDE DEF length, Item
<1>4. CASE IsObject(v) /\ length >= 0
    <2>1. UnmarshalSlice(v, elem) = InOrder(results, whole)
        BY <1>1, <1>2, <1>4
    <2>2. DOMAIN results = 1 .. length /\ DOMAIN results \subseteq Nat /\ \A i \in 1 .. length : results[i] = Item(i)
        BY <1>1
    <2>3. Values(results) = [i \in 1 .. length |-> Item(i).value]
        BY <2>2 DEF Values
    <2> HIDE DEF results, whole
    <2>4. CASE (\A i \in DOMAIN results : IsOk(results[i])) /\ InOrder(results, whole) = Ok(whole)
        <3>1. Values(results) \in [1 .. length -> S]
            BY <1>3, <2>2, <2>3, <2>4
        <3>2. Values(results) \in Lists(S)
            BY <1>1, <1>4, <3>1, ListFacts
        <3>3. whole \in SliceOf(S)
            BY <3>2 DEF SliceOf, whole
        <3>4. QED
            BY <2>1, <2>4, <3>3
    <2>5. CASE \E i \in DOMAIN results : ~IsOk(results[i]) /\ InOrder(results, whole) = results[i]
        BY <1>3, <2>1, <2>2, <2>5
    <2>6. QED
        BY <2>2, <2>4, <2>5, InOrderFacts
<1>5. CASE ~IsObject(v) \/ length < 0
    BY <1>2, <1>5
<1>6. QED
    BY <1>1, <1>4, <1>5

LEMMA BytesTyped ==
    ASSUME NEW v \in JsValues
    PROVE  UnmarshalBytes(v) \in {Error, Panic} \cup {Ok(x) : x \in SliceOf(Word("uint8"))}
<1>1. CASE v.js = "buffer"
    <2>1. v.bytes \in Lists(Word("uint8"))
        BY <1>1, JsShapes
    <2>2. [nil |-> v.bytes = <<>>, items |-> v.bytes] \in SliceOf(Word("uint8"))
        BY <2>1 DEF SliceOf
    <2>3. QED
        BY <1>1, <2>2 DEF UnmarshalBytes
<1>2. CASE v.js # "buffer"
    <2> DEFINE elem == [item \in JsValues |-> UnmarshalScalar(item, "uint8")]
    <2>1. ASSUME NEW w \in JsValues PROVE elem[w] \in Outcomes(Word("uint8"))
        <3>1. elem[w] = Ok(Convert("uint8", IntegerValue(w)))
            BY KindFacts DEF UnmarshalScalar
        <3>2. IntegerValue(w) \in Int /\ "uint8" \in DOMAIN IntKinds
            BY JsFacts, KindFacts
        <3>3. Convert("uint8", IntegerValue(w)) \in Word("uint8")
            BY <3>2, ConvertFacts
        <3>4. QED
            BY <3>1, <3>3, OutcomesOf
    <2>2. UnmarshalBytes(v) = UnmarshalSlice(v, elem)
        BY <1>2 DEF UnmarshalBytes
    <2> HIDE DEF elem
    <2>3. QED
        BY <2>1, <2>2, SliceTyped
<1>3. QED
    BY <1>1, <1>2

LEMMA MapTyped ==
    ASSUME NEW v \in JsValues, NEW S, NEW elem, \A w \in JsValues : elem[w] \in Outcomes(S)
    PROVE  UnmarshalMap(v, elem) \in {Error, Panic} \cup {Ok(x) : x \in MapOf(S)}
<1> DEFINE results == [k \in OwnKeys(v) |-> elem[Property(v, k)]]
           Entry(k) == IF k \in OwnKeys(v) /\ IsOk(results[k]) THEN <<results[k].value>> ELSE <<>>
           entries == [k \in Keys |-> Entry(k)]
           whole == [nil |-> FALSE, entries |-> entries]
<1>1. UnmarshalMap(v, elem) = IF IsNil(v) \/ (v.js = "string" /\ v.string # "") THEN Error
                             ELSE InAnyOrder(results, whole)
    BY DEF UnmarshalMap
<1>2. DOMAIN results = OwnKeys(v) /\ \A k \in OwnKeys(v) : results[k] \in Outcomes(S)
    BY JsFacts
<1> HIDE DEF results
<1>3. ASSUME NEW k \in Keys PROVE Entry(k) \in Optional(S)
    <2>1. CASE k \in OwnKeys(v) /\ IsOk(results[k])
        <3>1. results[k].value \in S
            BY <1>2, <2>1, OutcomeFacts
        <3>2. Entry(k) = <<results[k].value>>
            BY <2>1
        <3>3. QED
            BY <3>1, <3>2, OptionalFacts
    <2>2. CASE ~(k \in OwnKeys(v) /\ IsOk(results[k]))
        <3>1. Entry(k) = <<>>
            BY <2>2
        <3>2. QED
            BY <3>1, OptionalFacts
    <2>3. QED
        BY <2>1, <2>2
<1> HIDE DEF Entry
<1>4. entries \in [Keys -> Optional(S)]
    BY <1>3
<1> HIDE DEF entries
<1>5. whole \in MapOf(S)
    BY <1>4 DEF MapOf
<1> HIDE DEF whole
<1>6. CASE \E k \in DOMAIN results : /\ results[k].result \in {"error", "panic"}
                                     /\ InAnyOrder(results, whole) = results[k]
    <2>1. PICK k \in OwnKeys(v) : /\ results[k].result \in {"error", "panic"}
                                  /\ InAnyOrder(results, whole) = results[k]
        BY <1>2, <1>6
    <2>2. results[k] \in {Error, Panic}
        BY <1>2, <2>1, OutcomeFacts
    <2>3. QED
        BY <1>1, <2>1, <2>2
<1>7. CASE InAnyOrder(results, whole) = Ok(whole)
    BY <1>1, <1>5, <1>7
<1>8. QED
    BY <1>6, <1>7, InAnyOrderFacts

LEMMA StructTyped ==
    ASSUME NEW v \in JsValues, NEW type \in GoTypes, Head(type) \in StructKinds
    PROVE  LET r == UnmarshalStruct(v, Head(type)) IN
           \/ r \in {Error, Panic} \cup {Ok(x) : x \in Held[type]} /\ ~Mistaken(type, v)
           \/ r \in Others /\ Mistaken(type, v)
<1> DEFINE Int64(key, of) == Convert(of, IntegerValue(Property(v, key)))
           n == IF Int64("n", "int") = 0 THEN <<>> ELSE <<Int64("n", "int")>>
           kind == Head(type)
           r == UnmarshalStruct(v, kind)
           whole == [type |-> kind, n |-> n, small |-> Int64("small", "int8"), text |-> Text(Property(v, "text"))]
<1>1. r = IF v.js = "wrapper" THEN Received(v.receiver, kind, v.receiver)
          ELSE IF ~IsObject(v) THEN Error ELSE Ok(whole)
    BY DEF UnmarshalStruct
<1>2. ASSUME NEW key, NEW of \in DOMAIN IntKinds PROVE Int64(key, of) \in Word(of)
    <2>1. IntegerValue(Property(v, key)) \in Int
        BY JsFacts
    <2>2. QED
        BY <2>1, ConvertFacts
<1>3. "int" \in DOMAIN IntKinds /\ "int8" \in DOMAIN IntKinds
    BY KindFacts
<1>4. Text(Property(v, "text")) \in Texts
    BY JsFacts
<1>5. Int64("n", "int") \in Word("int") /\ Int64("small", "int8") \in Word("int8")
    BY <1>2, <1>3
<1> HIDE DEF Int64
<1>6. n \in Optional(Word("int"))
    BY <1>5, OptionalFacts
<1> HIDE DEF n
<1>7. whole \in StructsOf(kind)
    BY <1>4, <1>5, <1>6 DEF Structs, StructsOf
<1> HIDE DEF whole
<1>8. Held[type] = StructsOf(kind) /\ type = <<kind>>
    BY HeldFacts, OfOneKind
<1>9. Mistaken(type, v) <=> v.js = "wrapper" /\ v.receiver.type # kind
    BY <1>8, TypesApart DEF Mistaken
<1>10. CASE v.js = "wrapper"
    <2>1. v.receiver \in Structs
        BY <1>10, JsShapes
    <2>2. r = IF v.receiver.type = kind THEN Ok(v.receiver) ELSE Other(v.receiver)
        BY <1>1, <1>10 DEF Received
    <2>3. QED
        BY <1>8, <1>9, <1>10, <2>1, <2>2 DEF StructsOf, Others
<1>11. CASE v.js # "wrapper"
    BY <1>1, <1>7, <1>8, <1>9, <1>11
<1>12. QED
    BY <1>10, <1>11

LEMMA PointerTyped ==
    ASSUME NEW v \in JsValues, NEW type \in GoTypes, Head(type) = "ptr"
    PROVE  LET r == UnmarshalPointer(v, Head(Tail(type))) IN
           \/ /\ r \in Outcomes(Held[type]) /\ ~Mistaken(type, v)
              /\ r = Invalid => \E kind \in StructKinds : type = <<"ptr", kind>>
           \/ r \in Others /\ Mistaken(type, v)
<1> DEFINE kind == Head(Tail(type))
           r == UnmarshalPointer(v, kind)
<1>1. Tail(type) \in GoTypes /\ Held[type] = Optional(Held[Tail(type)])
    BY TypeFacts, HeldFacts DEF Compound
<1>2. CASE kind \in StructKinds
    <2>1. type = <<"ptr", kind>>
        BY <1>2, ToStruct
    <2>2. r = IF v.js = "wrapper" THEN Received(v.receiver, kind, <<v.receiver>>) ELSE Invalid
        BY <1>2, KindFacts DEF UnmarshalPointer
    <2>3. Mistaken(type, v) <=> v.js = "wrapper" /\ v.receiver.type # kind
        BY <1>2, <2>1, TypesApart DEF Mistaken
    <2>4. CASE v.js = "wrapper"
        <3>1. v.receiver \in Structs /\ Held[Tail(type)] = StructsOf(kind)
            BY <1>1, <1>2, <2>4, JsShapes, HeldFacts
        <3>2. r = IF v.receiver.type = kind THEN Ok(<<v.receiver>>) ELSE Other(<<v.receiver>>)
            BY <2>2, <2>4 DEF Received
        <3>3. CASE v.receiver.type = kind
            <4>0. v.receiver \in Held[Tail(type)]
                BY <3>1, <3>3 DEF StructsOf
            <4>1. <<v.receiver>> \in Held[type]
                BY <1>1, <4>0, OptionalFacts
            <4>2. QED
                BY <2>3, <3>2, <3>3, <4>1, OutcomesOf, ResultFacts
        <3>4. CASE v.receiver.type # kind
            BY <2>3, <2>4, <3>1, <3>2, <3>4 DEF Others
        <3>5. QED
            BY <3>3, <3>4
    <2>5. CASE v.js # "wrapper"
        <3>1. r = Invalid /\ ~Mistaken(type, v)
            BY <2>2, <2>3, <2>5
        <3>2. QED
            BY <1>2, <2>1, <3>1, OutcomesOf
    <2>6. QED
        BY <2>4, <2>5
<1>8. ASSUME kind \notin StructKinds PROVE ~Mistaken(type, v)
    <2>1. \A k \in StructKinds : type # <<k>> /\ type # <<"ptr", k>>
        <3>1. \A k : Head(<<k>>) = k /\ Head(Tail(<<"ptr", k>>)) = k
            OBVIOUS
        <3>2. QED
            BY <1>8, <3>1, KindFacts
    <2>2. QED
        BY <2>1 DEF Mistaken
<1>3. CASE kind \in {"int", "string"}
    <2>0. kind \notin StructKinds
        BY <1>3, KindFacts
    <2>1. r = IF IsNil(v) THEN Ok(<<>>) ELSE Ok(<<UnmarshalScalar(v, kind).value>>)
        BY <1>3, <2>0 DEF UnmarshalPointer
    <2>2. UnmarshalScalar(v, kind) # Panic
        BY <1>3, KindFacts, ResultFacts DEF UnmarshalScalar
    <2>3. PICK x \in Held[Tail(type)] : UnmarshalScalar(v, kind) = Ok(x)
        BY <1>1, <2>2, ScalarTyped
    <2>4. UnmarshalScalar(v, kind).value = x
        BY <2>3, ResultFacts
    <2>5. <<x>> \in Held[type] /\ <<>> \in Held[type]
        BY <1>1, OptionalFacts
    <2>6. PICK y \in Held[type] : r = Ok(y)
        BY <2>1, <2>4, <2>5
    <2>7. QED
        BY <1>8, <2>0, <2>6, OutcomesOf, ResultFacts
<1>4. CASE kind \notin {"int", "string"} \cup StructKinds
    <2>1. r = Panic
        BY <1>4 DEF UnmarshalPointer
    <2>2. QED
        BY <1>4, <1>8, <2>1, OutcomesOf, ResultFacts
<1>5. QED
    BY <1>2, <1>3, <1>4

(* What Unmarshal answers for each kind. *)
LEMMA UnmarshalCases ==
    ASSUME NEW type \in GoTypes, NEW v \in JsValues
    PROVE  LET kind == Head(type)  elem == Unmarshal[Tail(type)]  r == Unmarshal[type][v] IN
           /\ kind = "ptr" => r = UnmarshalPointer(v, Head(Tail(type)))
           /\ kind = "slice" => r = UnmarshalSlice(v, Assignable(elem))
           /\ kind = "bytes" => r = UnmarshalBytes(v)
           /\ kind = "map" => r = UnmarshalMap(v, Assignable(elem))
           /\ kind \in StructKinds => r = UnmarshalStruct(v, kind)
           /\ kind \notin {"ptr", "slice", "bytes", "map"} \cup StructKinds => r = UnmarshalScalar(v, kind)
<1> DEFINE elem == Unmarshal[Tail(type)]
<1>1. Unmarshal[type] = UnmarshalBy(type, elem)
    BY UnmarshalUnfolds
<1> HIDE DEF elem
<1>2. Unmarshal[type][v] = UnmarshalBy(type, elem)[v]
    BY <1>1
<1>3. QED
    BY <1>2, KindFacts DEF UnmarshalBy, elem

(* A value that Unmarshal answers is of the type, unless the wrapper is of another;
   only pointers to structs may be Invalid. *)
AnswersTyped(type) ==
    \A v \in JsValues : LET r == Unmarshal[type][v] IN
        \/ /\ r \in Outcomes(Held[type]) /\ ~Mistaken(type, v)
           /\ r = Invalid => \E kind \in StructKinds : type = <<"ptr", kind>>
        \/ r \in Others /\ Mistaken(type, v)

(* Set refuses the others. *)
LEMMA AssignableFacts ==
    ASSUME NEW S, NEW elem, NEW v \in JsValues, elem[v] \in Outcomes(S) \cup Others
    PROVE  /\ Assignable(elem)[v] \in Outcomes(S)
           /\ \A x : Assignable(elem)[v] = Ok(x) <=> elem[v] = Ok(x)
<1>1. Assignable(elem)[v] = IF elem[v].result = "other" THEN Panic ELSE elem[v]
    BY DEF Assignable
<1>2. CASE elem[v] \in Outcomes(S)
    <2>1. elem[v].result # "other"
        BY <1>2, OtherFacts
    <2>2. QED
        BY <1>1, <1>2, <2>1
<1>3. CASE elem[v] \in Others
    <2>1. PICK y : elem[v] = Other(y)
        BY <1>3 DEF Others
    <2>2. Assignable(elem)[v] = Panic
        BY <1>1, <2>1, OtherFacts
    <2>3. QED
        BY <2>1, <2>2, OtherFacts, OutcomesOf, ResultFacts
<1>4. QED
    BY <1>2, <1>3

LEMMA UnmarshalTyped == \A type \in GoTypes : AnswersTyped(type)
<1> DEFINE S == {n \in Nat : \A type \in TypesTo(n) : AnswersTyped(type)}
<1>1. 0 \in S
    BY TypesOfAllLengths
<1>2. ASSUME NEW n \in Nat, n \in S PROVE n + 1 \in S
    <2>1. SUFFICES ASSUME NEW type \in TypesTo(n + 1), NEW v \in JsValues
                   PROVE  LET r == Unmarshal[type][v] IN
                          \/ /\ r \in Outcomes(Held[type]) /\ ~Mistaken(type, v)
                             /\ r = Invalid => \E kind \in StructKinds : type = <<"ptr", kind>>
                          \/ r \in Others /\ Mistaken(type, v)
        BY DEF AnswersTyped
    <2> DEFINE kind == Head(type)
               elem == Assignable(Unmarshal[Tail(type)])
               r == Unmarshal[type][v]
    <2>2. type \in GoTypes
        BY DEF TypesTo
    <2>3. ASSUME kind \in Compound, NEW w \in JsValues PROVE elem[w] \in Outcomes(Held[Tail(type)])
        <3>1. Tail(type) \in TypesTo(n)
            BY <2>3, TypesOfAllLengths
        <3>2. AnswersTyped(Tail(type))
            BY <1>2, <3>1
        <3>3. Unmarshal[Tail(type)][w] \in Outcomes(Held[Tail(type)]) \cup Others
            BY <3>2 DEF AnswersTyped
        <3>4. QED
            BY <3>3, AssignableFacts
    <2> HIDE DEF S
    <2>4. CASE kind = "ptr"
        BY <2>2, <2>4, PointerTyped, UnmarshalCases
    <2>5. CASE kind \in StructKinds
        <3>1. r = UnmarshalStruct(v, kind)
            BY <2>2, <2>5, UnmarshalCases
        <3>2. CASE r \in {Error, Panic} \cup {Ok(x) : x \in Held[type]} /\ ~Mistaken(type, v)
            BY <3>2, ResultFacts DEF Outcomes
        <3>3. QED
            BY <2>2, <2>5, <3>1, <3>2, StructTyped
    <2>6. SUFFICES ASSUME kind \notin StructKinds \cup {"ptr"}
                   PROVE  r \in {Error, Panic} \cup {Ok(x) : x \in Held[type]}
        <3>1. CASE kind \notin StructKinds \cup {"ptr"}
            <4>1. ~Mistaken(type, v) /\ r \in {Error, Panic} \cup {Ok(x) : x \in Held[type]}
                BY <2>2, <2>6, <3>1, NotMistaken
            <4>2. QED
                BY <4>1, ResultFacts DEF Outcomes
        <3>2. QED
            BY <2>4, <2>5, <3>1
    <2>7. CASE kind = "slice"
        <3>1. \A w \in JsValues : elem[w] \in Outcomes(Held[Tail(type)])
            BY <2>3, <2>7 DEF Compound
        <3>2. r = UnmarshalSlice(v, elem) /\ Held[type] = SliceOf(Held[Tail(type)])
            BY <2>2, <2>7, UnmarshalCases, HeldFacts
        <3> HIDE DEF elem, r
        <3>3. QED
            BY <3>1, <3>2, SliceTyped
    <2>8. CASE kind = "map"
        <3>1. \A w \in JsValues : elem[w] \in Outcomes(Held[Tail(type)])
            BY <2>3, <2>8 DEF Compound
        <3>2. r = UnmarshalMap(v, elem) /\ Held[type] = MapOf(Held[Tail(type)])
            BY <2>2, <2>8, UnmarshalCases, HeldFacts
        <3> HIDE DEF elem, r
        <3>3. QED
            BY <3>1, <3>2, MapTyped
    <2>9. CASE kind = "bytes"
        BY <2>2, <2>9, UnmarshalCases, HeldFacts, BytesTyped
    <2>10. CASE kind \notin {"slice", "bytes", "map"}
        <3>1. r = UnmarshalScalar(v, kind)
            BY <2>2, <2>6, <2>10, UnmarshalCases
        <3>2. QED
            BY <2>2, <3>1, ScalarTyped
    <2>11. QED
        BY <2>6, <2>7, <2>8, <2>9, <2>10
<1>3. ASSUME NEW type \in GoTypes PROVE AnswersTyped(type)
    <2>1. MaxNesting \in S
        <3> HIDE DEF S
        <3>1. Nat \subseteq S
            BY <1>1, <1>2, SetInduction
        <3>2. QED
            BY <3>1, GoTypesAssumption
    <2>2. QED
        BY <2>1, TypesOfAllLengths
<1>4. QED
    BY <1>3

(***************************************************************************)
(* Whatever JavaScript passes, for any types, nested in one another, and   *)
(* any sizes of integers: a value that Unmarshal answers is one of the     *)
(* type that was asked for, but for the wrapper of a struct of another     *)
(* type passed for a struct or a pointer to one, which is answered as it   *)
(* is; and the zero reflect.Value is answered for pointers to structs      *)
(* alone (v8_unmarshal.go:82-258).                                         *)
(***************************************************************************)
THEOREM UnmarshalIsTypedAlways == Spec => []UnmarshalIsTyped
<1>1. ASSUME NEW type \in GoTypes, NEW v \in Passed
      PROVE  LET r == Unmarshal[type][v] IN
             /\ IsOk(r) => r.value \in Held[type]
             /\ r.result = "other" <=> Mistaken(type, v)
             /\ r = Invalid => \E kind \in StructKinds : type = <<"ptr", kind>>
    <2> DEFINE r == Unmarshal[type][v]
    <2>1. v \in JsValues
        BY SamplesAssumption
    <2>2. \/ /\ r \in Outcomes(Held[type]) /\ ~Mistaken(type, v)
             /\ r = Invalid => \E kind \in StructKinds : type = <<"ptr", kind>>
          \/ r \in Others /\ Mistaken(type, v)
        BY <2>1, UnmarshalTyped DEF AnswersTyped
    <2> HIDE DEF r
    <2>3. CASE /\ r \in Outcomes(Held[type]) /\ ~Mistaken(type, v)
               /\ r = Invalid => \E kind \in StructKinds : type = <<"ptr", kind>>
        <3>1. (IsOk(r) => r.value \in Held[type]) /\ r.result # "other"
            BY <2>3, OutcomeFacts, OtherFacts
        <3>2. QED
            BY <2>3, <3>1 DEF r
    <2>4. CASE r \in Others /\ Mistaken(type, v)
        <3>1. PICK x : r = Other(x)
            BY <2>4 DEF Others
        <3>2. QED
            BY <2>4, <3>1, OtherFacts DEF r
    <2>5. QED
        BY <2>2, <2>3, <2>4
<1>2. UnmarshalIsTyped
    BY <1>1 DEF UnmarshalIsTyped
<1>3. QED
    BY <1>2, PTL

-----------------------------------------------------------------------------
(* What comes back from JavaScript *)

(* The answer for x is a failure if x is not faithful, or a value that comes back as x just then. *)
Returns(made, x, V, back, faithful) ==
    \/ made \in {Error, Panic} /\ x \notin faithful
    \/ \E v \in V : made = Ok(v) /\ (back[v] = Ok(x) <=> x \in faithful)

(* What becomes of the items of a slice and of the entries of a map. *)
MadeOfItems(x, create) ==
    LET results == [i \in DOMAIN x.items |-> create[x.items[i]]] IN
    InOrder(results, [js |-> "array", items |-> Values(results)])
AllItems(x, faithful) == \A i \in DOMAIN x.items : x.items[i] \in faithful

MadeOfEntries(x, create) ==
    LET keys == {k \in Keys : x.entries[k] # <<>>}
        results == [k \in keys |-> create[x.entries[k][1]]]
        fields == [k \in Keys |-> IF k \in keys THEN <<results[k].value>> ELSE <<>>]
    IN InAnyOrder(results, [js |-> "object", fields |-> fields])
AllEntries(x, faithful) == \A k \in Keys : x.entries[k] # <<>> => x.entries[k][1] \in faithful

(* A slice comes back if each of its items does. *)
LEMMA SliceReturns ==
    ASSUME NEW S, NEW create, NEW back, NEW faithful, NEW V,
           [js : {"array"}, items : Lists(V)] \subseteq JsValues,
           \A y \in S : Returns(create[y], y, V, back, faithful),
           \A w \in V : back[w] \in Outcomes(S),
           NEW x \in SliceOf(S), ~x.nil
    PROVE  LET made == MadeOfItems(x, create)  all == AllItems(x, faithful) IN
           \/ made \in {Error, Panic} /\ ~all
           \/ \E v \in [js : {"array"}, items : Lists(V)] :
                 made = Ok(v) /\ (UnmarshalSlice(v, back) = Ok(x) <=> all)
<1> DEFINE n == Len(x.items)
           y(i) == x.items[i]
           results == [i \in DOMAIN x.items |-> create[x.items[i]]]
           v == [js |-> "array", items |-> Values(results)]
           made == InOrder(results, v)
           all == \A i \in DOMAIN x.items : x.items[i] \in faithful
<1>1. /\ x.items \in Lists(S) /\ n \in Nat /\ n <= MaxWord /\ DOMAIN x.items = 1 .. n
      /\ \A i \in 1 .. n : y(i) \in S
      /\ x = [nil |-> FALSE, items |-> x.items]
    <2>1. x \in [nil : BOOLEAN, items : Lists(S)]
        BY DEF SliceOf
    <2>2. x.items \in Lists(S) /\ x = [nil |-> FALSE, items |-> x.items]
        BY <2>1
    <2>3. QED
        BY <2>2, ListFacts
<1>2. /\ DOMAIN results = 1 .. n /\ DOMAIN results \subseteq Nat
      /\ \A i \in 1 .. n : results[i] = create[y(i)]
    BY <1>1
<1>3. Values(results) = [i \in 1 .. n |-> results[i].value]
    BY <1>2 DEF Values
<1>4. \A i \in 1 .. n : Returns(results[i], y(i), V, back, faithful)
    BY <1>1, <1>2
<1>5. all <=> \A i \in 1 .. n : y(i) \in faithful
    BY <1>1
<1> HIDE DEF n, results
<1>6. CASE \E i \in DOMAIN results : ~IsOk(results[i]) /\ InOrder(results, v) = results[i]
    <2>1. PICK i \in 1 .. n : ~IsOk(results[i]) /\ made = results[i]
        BY <1>2, <1>6
    <2>2. made \in {Error, Panic} /\ y(i) \notin faithful
        BY <1>4, <2>1, ResultFacts DEF Returns
    <2>3. ~all
        BY <1>5, <2>2
    <2> HIDE DEF made, all
    <2>4. QED
        BY <2>2, <2>3 DEF made, all, results, MadeOfItems, AllItems
<1>7. CASE (\A i \in DOMAIN results : IsOk(results[i])) /\ InOrder(results, v) = Ok(v)
    <2> DEFINE w(i) == results[i].value
    <2>1. ASSUME NEW i \in 1 .. n
          PROVE  w(i) \in V /\ (back[w(i)] = Ok(y(i)) <=> y(i) \in faithful)
        <3>1. IsOk(results[i])
            BY <1>2, <1>7
        <3>2. QED
            BY <1>4, <3>1, ResultFacts DEF Returns
    <2>2. Values(results) \in [1 .. n -> V]
        BY <1>3, <2>1
    <2>3. Values(results) \in Lists(V) /\ Len(Values(results)) = n /\ Values(results) \in Seq(V)
        BY <1>1, <2>2, ListFacts
    <2>4. v \in [js : {"array"}, items : Lists(V)] /\ v \in JsValues
        BY <2>3
    <2>5. v.js = "array" /\ v.items = Values(results) /\ IsObject(v)
        BY DEF IsObject
    <2> HIDE DEF v
    <2>6. Property(v, "length") = NumberOf(n)
        BY <2>3, <2>4, <2>5, LengthFacts
    <2>7. IntegerValue(Property(v, "length")) = n
        <3>1. IntegerValue(NumberOf(n)) = IF n > MaxWord THEN MaxWord
                                          ELSE IF n < MinWord THEN MinWord ELSE n
            BY DEF IntegerValue, NumberOf
        <3>2. QED
            BY <1>1, <2>6, <3>1, GreatestFacts
    <2>8. \A i \in 1 .. n : Index(v, i) = w(i)
        BY <1>3, <2>5 DEF Index
    <2> DEFINE Item(i) == IF back[Index(v, i)] = Invalid THEN Panic ELSE back[Index(v, i)]
               backs == [i \in 1 .. n |-> Item(i)]
               whole == [nil |-> FALSE, items |-> Values(backs)]
    <2>9. UnmarshalSlice(v, back) = InOrder(backs, whole)
        <3>1. UnmarshalSlice(v, back)
                 = LET length == IntegerValue(Property(v, "length"))
                       rs == [i \in 1 .. length |-> Item(i)] IN
                   IF ~IsObject(v) THEN Error
                   ELSE IF length < 0 THEN Panic
                   ELSE InOrder(rs, [nil |-> FALSE, items |-> Values(rs)])
            BY DEF UnmarshalSlice
        <3> HIDE DEF Item
        <3>2. ~(n < 0)
            BY <1>1
        <3>3. QED
            BY <2>5, <2>7, <3>1, <3>2
    <2>10. DOMAIN backs = 1 .. n /\ DOMAIN backs \subseteq Nat /\ \A i \in 1 .. n : backs[i] = Item(i)
        BY <1>1
    <2>11. Values(backs) = [i \in 1 .. n |-> backs[i].value]
        BY <2>10 DEF Values
    <2>12. ASSUME NEW i \in 1 .. n
           PROVE  /\ IsOk(backs[i]) => backs[i] = Ok(backs[i].value)
                  /\ backs[i] = Ok(y(i)) <=> y(i) \in faithful
        <3>1. back[w(i)] \in Outcomes(S)
            BY <2>1
        <3>2. backs[i] = IF back[w(i)] = Invalid THEN Panic ELSE back[w(i)]
            BY <2>8, <2>10
        <3>3. backs[i] = Ok(y(i)) <=> back[w(i)] = Ok(y(i))
            BY <3>2, ResultFacts
        <3>4. IsOk(backs[i]) => backs[i] = Ok(backs[i].value)
            BY <3>1, <3>2, OutcomeFacts, ResultFacts
        <3>5. QED
            BY <2>1, <3>3, <3>4
    <2> HIDE DEF backs, w
    <2>13. ASSUME all PROVE UnmarshalSlice(v, back) = Ok(x)
        <3>1. \A i \in 1 .. n : backs[i] = Ok(y(i))
            BY <1>5, <2>12, <2>13
        <3>2. \A i \in DOMAIN backs : IsOk(backs[i])
            BY <2>10, <3>1, ResultFacts
        <3>3. InOrder(backs, whole) = Ok(whole)
            <4> HIDE DEF whole
            <4>1. QED
                BY <2>10, <3>2, InOrderFacts
        <3>4. Values(backs) = x.items
            <4>1. \A i \in 1 .. n : Values(backs)[i] = x.items[i]
                BY <2>11, <3>1, ResultFacts
            <4>2. x.items = [i \in 1 .. n |-> x.items[i]]
                BY <1>1, ListFacts
            <4>3. QED
                BY <2>11, <4>1, <4>2
        <3>5. whole = x
            BY <1>1, <3>4
        <3>6. QED
            BY <2>9, <3>3, <3>5
    <2>14. ASSUME UnmarshalSlice(v, back) = Ok(x) PROVE all
        <3>1. InOrder(backs, whole) = Ok(x)
            BY <2>9, <2>14
        <3>2. (\A i \in DOMAIN backs : IsOk(backs[i])) /\ InOrder(backs, whole) = Ok(whole)
            <4> HIDE DEF whole
            <4>1. IsOk(InOrder(backs, whole))
                BY <3>1, ResultFacts
            <4>2. QED
                BY <2>10, <4>1, InOrderFacts
        <3>3. whole = x
            <4> HIDE DEF whole
            <4>1. QED
                BY <3>1, <3>2, ResultFacts
        <3>4. Values(backs) = x.items
            BY <3>3
        <3>5. \A i \in 1 .. n : backs[i].value = y(i)
            BY <2>11, <3>4
        <3>6. \A i \in 1 .. n : backs[i] = Ok(y(i))
            BY <2>10, <2>12, <3>2, <3>5
        <3>7. QED
            BY <1>5, <2>12, <3>6
    <2>15. made = Ok(v)
        BY <1>7 DEF v
    <2> HIDE DEF made, all
    <2>16. QED
        BY <2>4, <2>13, <2>14, <2>15 DEF made, all, results, MadeOfItems, AllItems, v
<1>8. QED
    <2> HIDE DEF v
    <2>1. QED
        BY <1>2, <1>6, <1>7, InOrderFacts DEF v

(* A map comes back if each of its entries does. *)
LEMMA MapReturns ==
    ASSUME NEW S, NEW create, NEW back, NEW faithful, NEW V,
           [js : {"object"}, fields : [Keys -> Optional(V)]] \subseteq JsValues,
           \A y \in S : Returns(create[y], y, V, back, faithful),
           \A w \in V : back[w] \in Outcomes(S),
           NEW x \in MapOf(S), ~x.nil
    PROVE  LET made == MadeOfEntries(x, create)  all == AllEntries(x, faithful) IN
           \/ made \in {Error, Panic} /\ ~all
           \/ \E v \in [js : {"object"}, fields : [Keys -> Optional(V)]] :
                 made = Ok(v) /\ (UnmarshalMap(v, back) = Ok(x) <=> all)
<1> DEFINE keys == {k \in Keys : x.entries[k] # <<>>}
           y(k) == x.entries[k][1]
           results == [k \in keys |-> create[x.entries[k][1]]]
           fields == [k \in Keys |-> IF k \in keys THEN <<results[k].value>> ELSE <<>>]
           v == [js |-> "object", fields |-> fields]
           made == InAnyOrder(results, v)
           all == \A k \in Keys : x.entries[k] # <<>> => x.entries[k][1] \in faithful
<1>1. x.entries \in [Keys -> Optional(S)] /\ x = [nil |-> FALSE, entries |-> x.entries]
    BY DEF MapOf
<1>2. /\ keys \subseteq Keys /\ DOMAIN results = keys
      /\ \A k \in keys : results[k] = create[y(k)]
      /\ \A k \in keys : y(k) \in S /\ x.entries[k] = <<y(k)>>
      /\ \A k \in Keys \ keys : x.entries[k] = <<>>
    <2>1. \A k \in Keys : x.entries[k] \in Optional(S)
        BY <1>1
    <2>2. \A k \in keys : y(k) \in S /\ x.entries[k] = <<y(k)>>
        BY <2>1, OptionalFacts
    <2>3. QED
        BY <2>2
<1>3. \A k \in keys : Returns(results[k], y(k), V, back, faithful)
    BY <1>2
<1>4. all <=> \A k \in keys : y(k) \in faithful
    OBVIOUS
<1> HIDE DEF results, keys
<1>5. ASSUME NEW k \in keys
      PROVE  results[k].result \in {"error", "panic"} <=> results[k] \in {Error, Panic}
    BY <1>3, ResultFacts DEF Returns
<1>6. CASE \E k \in DOMAIN results : results[k].result \in {"error", "panic"} /\ made = results[k]
    <2>1. PICK k \in keys : results[k].result \in {"error", "panic"} /\ made = results[k]
        BY <1>2, <1>6
    <2>2. results[k] \in {Error, Panic}
        BY <1>5, <2>1
    <2>3. made \in {Error, Panic} /\ y(k) \notin faithful
        BY <1>3, <2>1, <2>2, ResultFacts DEF Returns
    <2>4. ~all
        BY <1>4, <2>3
    <2> HIDE DEF made, all
    <2>5. QED
        BY <2>3, <2>4 DEF made, all, results, keys, MadeOfEntries, AllEntries
<1>7. CASE (\A k \in DOMAIN results : results[k].result \notin {"error", "panic"}) /\ made = Ok(v)
    <2> DEFINE w(k) == results[k].value
    <2>1. ASSUME NEW k \in keys
          PROVE  w(k) \in V /\ (back[w(k)] = Ok(y(k)) <=> y(k) \in faithful)
        <3>1. results[k] \notin {Error, Panic}
            BY <1>2, <1>5, <1>7
        <3>2. QED
            BY <1>3, <3>1, ResultFacts DEF Returns
    <2>2. ASSUME NEW k \in Keys PROVE fields[k] \in Optional(V)
        <3>1. CASE k \in keys
            BY <2>1, <3>1, OptionalFacts
        <3>2. CASE k \notin keys
            BY <3>2, OptionalFacts
        <3>3. QED
            BY <3>1, <3>2
    <2>3. fields \in [Keys -> Optional(V)]
        BY <2>2
    <2>4. \A k \in Keys : fields[k] # <<>> <=> k \in keys
        BY OptionalFacts
    <2>5. \A k \in keys : fields[k][1] = w(k)
        BY <1>2, OptionalFacts
    <2> HIDE DEF fields
    <2>6. v \in [js : {"object"}, fields : [Keys -> Optional(V)]] /\ v \in JsValues
        BY <2>3
    <2>7. v.js = "object" /\ v.fields = fields /\ ~IsNil(v)
        BY DEF IsNil
    <2> HIDE DEF v
    <2>8. OwnKeys(v) = keys
        <3>1. OwnKeys(v) = {k \in Keys : v.fields[k] # <<>>}
            BY <2>7 DEF OwnKeys
        <3>2. QED
            BY <1>2, <2>4, <2>7, <3>1
    <2>9. \A k \in keys : Property(v, k) = w(k)
        BY <2>5, <2>7, <2>8 DEF Property
    <2> DEFINE backs == [k \in keys |-> back[Property(v, k)]]
               Entry(k) == IF k \in keys /\ IsOk(backs[k]) THEN <<backs[k].value>> ELSE <<>>
               entries == [k \in Keys |-> Entry(k)]
               whole == [nil |-> FALSE, entries |-> entries]
    <2>10. UnmarshalMap(v, back) = InAnyOrder(backs, whole)
        BY <2>7, <2>8 DEF UnmarshalMap
    <2>11. DOMAIN backs = keys /\ \A k \in keys : backs[k] = back[w(k)]
        BY <2>9
    <2>12. ASSUME NEW k \in keys
           PROVE  /\ IsOk(backs[k]) => backs[k] = Ok(backs[k].value)
                  /\ backs[k] = Ok(y(k)) <=> y(k) \in faithful
        <3>1. back[w(k)] \in Outcomes(S)
            BY <2>1
        <3>2. QED
            BY <2>1, <2>11, <3>1, OutcomeFacts
    <2> HIDE DEF backs, w
    <2>13. ASSUME all PROVE UnmarshalMap(v, back) = Ok(x)
        <3>1. \A k \in keys : backs[k] = Ok(y(k))
            BY <1>4, <2>12, <2>13
        <3>2. \A k \in DOMAIN backs : backs[k].result \notin {"error", "panic"}
            BY <2>11, <3>1, ResultFacts
        <3>3. InAnyOrder(backs, whole) = Ok(whole)
            <4> HIDE DEF whole
            <4>1. QED
                BY <3>2, InAnyOrderFacts
        <3>4. ASSUME NEW k \in Keys PROVE Entry(k) = x.entries[k]
            <4>1. CASE k \in keys
                <5>1. IsOk(backs[k]) /\ backs[k].value = y(k)
                    BY <3>1, <4>1, ResultFacts
                <5>2. QED
                    BY <1>2, <4>1, <5>1
            <4>2. CASE k \notin keys
                BY <1>2, <4>2
            <4>3. QED
                BY <4>1, <4>2
        <3>5. entries = x.entries
            BY <1>1, <3>4
        <3>6. whole = x
            BY <1>1, <3>5
        <3>7. QED
            BY <2>10, <3>3, <3>6
    <2>14. ASSUME UnmarshalMap(v, back) = Ok(x) PROVE all
        <3>1. InAnyOrder(backs, whole) = Ok(x)
            BY <2>10, <2>14
        <3>2. InAnyOrder(backs, whole) = Ok(whole)
            <4> HIDE DEF whole
            <4>1. InAnyOrder(backs, whole).result \notin {"error", "panic"}
                BY <3>1, ResultFacts
            <4>2. QED
                BY <4>1, InAnyOrderFacts
        <3>3. whole = x
            <4> HIDE DEF whole
            <4>1. QED
                BY <3>1, <3>2, ResultFacts
        <3>4. entries = x.entries
            BY <3>3
        <3>5. ASSUME NEW k \in keys PROVE backs[k] = Ok(y(k))
            <4>1. Entry(k) = <<y(k)>>
                BY <1>2, <3>4
            <4>2. IsOk(backs[k])
                BY <4>1, OptionalFacts
            <4>3. <<backs[k].value>> = <<y(k)>>
                BY <4>1, <4>2
            <4>4. backs[k].value = y(k)
                BY <4>3
            <4>5. QED
                BY <2>12, <4>2, <4>4
        <3>6. QED
            BY <1>4, <2>12, <3>5
    <2> HIDE DEF made, all
    <2>15. QED
        BY <1>7, <2>6, <2>13, <2>14 DEF made, all, results, keys, MadeOfEntries, AllEntries, v, fields
<1>8. QED
    <2> HIDE DEF v
    <2>1. QED
        BY <1>6, <1>7, InAnyOrderFacts DEF v

(* What Context.create answers for each kind. *)
LEMMA CreateCases ==
    ASSUME NEW type \in GoTypes, NEW a \in BOOLEAN, NEW x \in Held[type]
    PROVE  LET kind == Head(type)
               elem == Create[Tail(type)]
               results == [i \in DOMAIN x.items |-> elem[TRUE][x.items[i]]]
               keys == {k \in Keys : x.entries[k] # <<>>}
               values == [k \in keys |-> elem[FALSE][x.entries[k][1]]]
               fields == [k \in Keys |-> IF k \in keys THEN <<values[k].value>> ELSE <<>>]
               made == Create[type][a][x] IN
           /\ kind = "ptr" => made = IF x = <<>> THEN Ok(Undefined) ELSE elem[TRUE][x[1]]
           /\ kind = "slice" => made = IF x.nil THEN Ok(Undefined)
                                       ELSE InOrder(results, [js |-> "array", items |-> Values(results)])
           /\ kind = "map" => made = IF x.nil THEN Ok(Undefined)
                                     ELSE InAnyOrder(values, [js |-> "object", fields |-> fields])
           /\ kind \in StructKinds => made = IF a THEN Ok(CreateStruct(x)) ELSE Panic
           /\ kind \notin {"ptr", "slice", "map"} \cup StructKinds => made = CreateScalar(kind, x)
<1> DEFINE elem == Create[Tail(type)]
<1>1. Create[type] = CreateBy(type, elem)
    BY CreateUnfolds
<1> HIDE DEF elem
<1>2. Create[type][a][x] = CreateBy(type, elem)[a][x]
    BY <1>1
<1>3. QED
    BY <1>2, KindFacts DEF CreateBy, elem

LEMMA StructCreates ==
    ASSUME NEW type \in GoTypes, Head(type) \in StructKinds, NEW x \in Held[type]
    PROVE  Create[type][TRUE][x] = Ok(CreateStruct(x))
<1>1. ASSUME NEW a \in BOOLEAN, a PROVE Create[type][a][x] = Ok(CreateStruct(x))
    BY <1>1, CreateCases
<1>2. QED
    BY <1>1

LEMMA ScalarCreates ==
    ASSUME NEW type \in GoTypes, Head(type) \notin {"ptr", "slice", "map"} \cup StructKinds, NEW x \in Held[type]
    PROVE  \A a \in BOOLEAN : Create[type][a][x] = CreateScalar(Head(type), x)
    BY CreateCases

(* Which values are Faithful, kind by kind. *)
LEMMA FaithfulCases ==
    ASSUME NEW type \in GoTypes, NEW a \in BOOLEAN, NEW x \in Held[type]
    PROVE  LET kind == Head(type)
               of == Head(Tail(type))
               elem == Faithful[Tail(type)]
               faithful == x \in Faithful[type][a] IN
           /\ kind \in DOMAIN IntKinds => (faithful <=> x = MaxWord \/ (Exact(x) /\ x <= MaxWord))
           /\ kind = "ptr" => (faithful <=> IF x = <<>> THEN of \in {"int", "string"}
                                            ELSE of \in {"int", "string"} \cup StructKinds /\ x[1] \in elem[TRUE])
           /\ kind = "slice" => (faithful <=> ~x.nil /\ \A i \in DOMAIN x.items : x.items[i] \in elem[TRUE])
           /\ kind = "map" => (faithful <=>
                 ~x.nil /\ \A k \in Keys : x.entries[k] # <<>> => x.entries[k][1] \in elem[FALSE])
           /\ kind \in StructKinds => (faithful <=> a)
           /\ kind = "bytes" => (faithful <=> x.items # <<>>)
           /\ kind \in {"string", "bool"} => faithful
           /\ kind \notin DOMAIN IntKinds \cup {"ptr", "slice", "map", "bytes", "string", "bool"} \cup StructKinds =>
                 ~faithful
<1> DEFINE elem == Faithful[Tail(type)]
<1>1. Faithful[type] = FaithfulBy(type, elem)
    BY FaithfulUnfolds
<1> HIDE DEF elem
<1>2. x \in Faithful[type][a] <=> x \in FaithfulBy(type, elem)[a]
    BY <1>1
<1>3. QED
    BY <1>2, KindFacts DEF FaithfulBy, elem

(* Strings, booleans, integers and bytes. *)
LEMMA ScalarReturns ==
    ASSUME NEW type \in GoTypes, Head(type) \notin {"ptr", "slice", "map"} \cup StructKinds,
           NEW a \in BOOLEAN, NEW x \in Held[type]
    PROVE  Returns(Create[type][a][x], x, Scalars, Unmarshal[type], Faithful[type][a])
<1> DEFINE kind == Head(type)
           made == Create[type][a][x]
<1>1. made = CreateScalar(kind, x)
    BY CreateCases
<1>2. \A v \in Scalars : v \in JsValues
    <2>1. MaxNesting \in 0 .. MaxNesting
        BY GoTypesAssumption
    <2>2. QED
        BY <2>1, NestedAreJs
<1>3. ASSUME NEW v \in Scalars, made = Ok(v), Unmarshal[type][v] = Ok(x) <=> x \in Faithful[type][a]
      PROVE  Returns(made, x, Scalars, Unmarshal[type], Faithful[type][a])
    BY <1>3 DEF Returns
<1>4. CASE kind = "bytes"
    <2>1. x \in SliceOf(Word("uint8"))
        BY <1>4, HeldFacts
    <2>2. /\ x.nil \in BOOLEAN /\ x.items \in Lists(Word("uint8")) /\ (x.nil => x.items = <<>>)
          /\ x = [nil |-> x.nil, items |-> x.items]
        BY <2>1 DEF SliceOf
    <2>3. x \in Faithful[type][a] <=> x.items # <<>>
        BY <1>4, FaithfulCases
    <2>4. \A v \in JsValues : Unmarshal[type][v] = UnmarshalBytes(v)
        BY <1>4, UnmarshalCases
    <2>5. CASE x.nil
        <3>1. made = Ok(Undefined)
            BY <1>1, <1>4, <2>5, KindFacts DEF CreateScalar
        <3>2. Undefined \in Scalars
            BY DEF Undefined, Scalars
        <3>3. Undefined \in JsValues
            BY <1>2, <3>2
        <3>4. UnmarshalBytes(Undefined) = Error
            BY DEF UnmarshalBytes, UnmarshalSlice, Undefined, IsObject
        <3>5. Unmarshal[type][Undefined] # Ok(x) /\ x \notin Faithful[type][a]
            BY <2>2, <2>3, <2>4, <2>5, <3>3, <3>4, ResultFacts
        <3>6. QED
            BY <1>3, <3>1, <3>2, <3>5
    <2>6. CASE ~x.nil
        <3> DEFINE v == [js |-> "buffer", bytes |-> x.items]
        <3>1. made = Ok(v)
            BY <1>1, <1>4, <2>6, KindFacts DEF CreateScalar
        <3>2. v \in Scalars
            BY <2>2 DEF Scalars
        <3>3. UnmarshalBytes(v) = Ok([nil |-> x.items = <<>>, items |-> x.items])
            BY DEF UnmarshalBytes
        <3> HIDE DEF v
        <3>4. Unmarshal[type][v] = Ok([nil |-> x.items = <<>>, items |-> x.items])
            BY <1>2, <2>4, <3>2, <3>3
        <3>5. [nil |-> x.items = <<>>, items |-> x.items] = x <=> x.items # <<>>
            BY <2>2, <2>6
        <3>6. Unmarshal[type][v] = Ok(x) <=> x \in Faithful[type][a]
            BY <2>3, <3>4, <3>5, ResultFacts
        <3>7. QED
            BY <1>3, <3>1, <3>2, <3>6
    <2>7. QED
        BY <2>5, <2>6
<1>5. CASE kind = "string"
    <2> DEFINE v == [js |-> "string", string |-> x]
    <2>1. made = Ok(v) /\ x \in Texts
        BY <1>1, <1>5, HeldFacts, KindFacts DEF CreateScalar
    <2>2. v \in Scalars /\ Text(v) = x
        BY <2>1 DEF Scalars, Text
    <2> HIDE DEF v
    <2>3. Unmarshal[type][v] = Ok(x)
        <3>1. Unmarshal[type][v] = UnmarshalScalar(v, kind)
            BY <1>2, <1>5, <2>2, UnmarshalCases
        <3>2. QED
            BY <1>5, <2>2, <3>1, KindFacts DEF UnmarshalScalar
    <2>4. x \in Faithful[type][a]
        BY <1>5, FaithfulCases
    <2>5. QED
        BY <1>3, <2>1, <2>2, <2>3, <2>4
<1>6. CASE kind = "bool"
    <2> DEFINE v == [js |-> "boolean", true |-> x]
    <2>1. made = Ok(v) /\ x \in BOOLEAN
        BY <1>1, <1>6, HeldFacts, KindFacts DEF CreateScalar
    <2>2. v \in Scalars /\ Truth(v) = x
        BY <2>1 DEF Scalars, Truth
    <2> HIDE DEF v
    <2>3. Unmarshal[type][v] = Ok(x)
        <3>1. Unmarshal[type][v] = UnmarshalScalar(v, kind)
            BY <1>2, <1>6, <2>2, UnmarshalCases
        <3>2. QED
            BY <1>6, <2>2, <3>1, KindFacts DEF UnmarshalScalar
    <2>4. x \in Faithful[type][a]
        BY <1>6, FaithfulCases
    <2>5. QED
        BY <1>3, <2>1, <2>2, <2>3, <2>4
<1>7. CASE kind \in DOMAIN IntKinds
    <2> DEFINE v == NumberOf(Rounded(x))
    <2>1. made = Ok(v) /\ x \in Word(kind)
        BY <1>1, <1>7, HeldFacts, KindFacts DEF CreateScalar
    <2>2. /\ Rounded(x) \in Int
          /\ Convert(kind, IntegerValue(v)) = x <=> x = MaxWord \/ (Exact(x) /\ x <= MaxWord)
        BY <1>7, <2>1, IntegersReturn
    <2>3. v \in Scalars
        BY <2>2 DEF Scalars, NumberOf
    <2> HIDE DEF v
    <2>4. Unmarshal[type][v] = Ok(Convert(kind, IntegerValue(v)))
        <3>1. Unmarshal[type][v] = UnmarshalScalar(v, kind)
            BY <1>2, <1>7, <2>3, UnmarshalCases, KindFacts
        <3>2. QED
            BY <1>7, <3>1, KindFacts DEF UnmarshalScalar
    <2>5. x \in Faithful[type][a] <=> x = MaxWord \/ (Exact(x) /\ x <= MaxWord)
        BY <1>7, FaithfulCases
    <2>6. Unmarshal[type][v] = Ok(x) <=> x \in Faithful[type][a]
        BY <2>2, <2>4, <2>5, ResultFacts
    <2>7. QED
        BY <1>3, <2>1, <2>3, <2>6
<1>8. CASE kind \notin DOMAIN IntKinds \cup {"bytes", "string", "bool"}
    <2>1. made = Error
        BY <1>1, <1>8 DEF CreateScalar
    <2>2. x \notin Faithful[type][a]
        BY <1>8, FaithfulCases
    <2>3. QED
        BY <2>1, <2>2 DEF Returns
<1>9. QED
    BY <1>4, <1>5, <1>6, <1>7, <1>8

(* A struct is wrapped, and its wrapper unwrapped. *)
LEMMA WrapperReturns ==
    ASSUME NEW x \in Structs
    PROVE  /\ CreateStruct(x) \in Wrappers
           /\ CreateStruct(x).js = "wrapper" /\ CreateStruct(x).receiver = x
<1>1. CreateStruct(x).js = "wrapper" /\ CreateStruct(x).receiver = x
    BY DEF CreateStruct
<1>2. /\ x.n \in Optional(Word("int")) /\ x.small \in Word("int8") /\ x.text \in Texts
    BY DEF Structs
<1>3. /\ Undefined \in Scalars /\ \A n \in Int : NumberOf(n) \in Scalars
      /\ [js |-> "string", string |-> x.text] \in Scalars
    BY <1>2 DEF Undefined, NumberOf, Scalars
<1>4. x.n # <<>> => Rounded(x.n[1]) \in Int
    BY <1>2, OptionalFacts, IntegersReturn, KindFacts
<1>5. Rounded(x.small) \in Int
    BY <1>2, IntegersReturn, KindFacts
<1> DEFINE field(k) ==
        CASE k = "n" -> IF x.n = <<>> THEN <<Undefined>> ELSE <<NumberOf(Rounded(x.n[1]))>>
          [] k = "small" -> <<NumberOf(Rounded(x.small))>>
          [] k = "text" -> <<[js |-> "string", string |-> x.text]>>
          [] OTHER -> <<>>
<1>6. ASSUME NEW k \in Keys PROVE field(k) \in Optional(Scalars)
    <2>1. CASE k = "n"
        <3>1. field(k) = IF x.n = <<>> THEN <<Undefined>> ELSE <<NumberOf(Rounded(x.n[1]))>>
            BY <2>1
        <3>2. QED
            BY <1>3, <1>4, <3>1, OptionalFacts
    <2>2. CASE k = "small"
        <3>1. field(k) = <<NumberOf(Rounded(x.small))>>
            BY <2>2
        <3>2. QED
            BY <1>3, <1>5, <3>1, OptionalFacts
    <2>3. CASE k = "text"
        <3>1. field(k) = <<[js |-> "string", string |-> x.text]>>
            BY <2>3
        <3>2. QED
            BY <1>3, <3>1, OptionalFacts
    <2>4. CASE k \notin {"n", "small", "text"}
        <3>1. field(k) = <<>>
            BY <2>4
        <3>2. QED
            BY <3>1, OptionalFacts
    <2>5. QED
        BY <2>1, <2>2, <2>3, <2>4
<1>7. CreateStruct(x) = [js |-> "wrapper", receiver |-> x, fields |-> [k \in Keys |-> field(k)]]
    BY DEF CreateStruct
<1> HIDE DEF field
<1>8. [k \in Keys |-> field(k)] \in [Keys -> Optional(Scalars)]
    BY <1>6
<1>9. CreateStruct(x) \in Wrappers
    BY <1>7, <1>8 DEF Wrappers
<1>10. QED
    BY <1>1, <1>9

(* A pointer to an integer, a string or a struct comes back if what it points at does. *)
LEMMA PointerReturns ==
    ASSUME NEW type \in GoTypes, Head(type) = "ptr", NEW a \in BOOLEAN, NEW x \in Held[type],
           NEW V, Scalars \cup Wrappers \subseteq V, V \subseteq JsValues,
           \A y \in Held[Tail(type)] :
              Returns(Create[Tail(type)][TRUE][y], y, V, Unmarshal[Tail(type)], Faithful[Tail(type)][TRUE])
    PROVE  Returns(Create[type][a][x], x, V, Unmarshal[type], Faithful[type][a])
<1> DEFINE of == Head(Tail(type))
           elem == Tail(type)
           y == x[1]
           made == Create[type][a][x]
           back == Unmarshal[type]
           faithful == Faithful[type][a]
<1>1. /\ elem \in GoTypes /\ Held[type] = Optional(Held[elem])
      /\ made = IF x = <<>> THEN Ok(Undefined) ELSE Create[elem][TRUE][y]
      /\ \A v \in JsValues : back[v] = UnmarshalPointer(v, of)
      /\ x \in faithful <=> IF x = <<>> THEN of \in {"int", "string"}
                            ELSE of \in {"int", "string"} \cup StructKinds /\ y \in Faithful[elem][TRUE]
    <2>1. elem \in GoTypes /\ Held[type] = Optional(Held[elem])
        BY TypeFacts, HeldFacts DEF Compound
    <2>2. made = IF x = <<>> THEN Ok(Undefined) ELSE Create[elem][TRUE][y]
        BY CreateCases
    <2>3. \A v \in JsValues : back[v] = UnmarshalPointer(v, of)
        BY UnmarshalCases
    <2>4. x \in faithful <=> IF x = <<>> THEN of \in {"int", "string"}
                             ELSE of \in {"int", "string"} \cup StructKinds /\ y \in Faithful[elem][TRUE]
        BY FaithfulCases
    <2>5. QED
        BY <2>1, <2>2, <2>3, <2>4
<1>2. CASE x = <<>>
    <2>1. made = Ok(Undefined)
        BY <1>1, <1>2
    <2>2. Undefined \in V /\ Undefined \in JsValues
        <3>1. Undefined \in Scalars
            BY DEF Undefined, Scalars
        <3>2. QED
            BY <3>1
    <2>3. back[Undefined] = UnmarshalPointer(Undefined, of)
        BY <1>1, <2>2
    <2>4. IsNil(Undefined) /\ Undefined.js # "wrapper"
        BY DEF IsNil, Undefined
    <2>5. back[Undefined] = Ok(<<>>) <=> of \in {"int", "string"}
        <3>1. CASE of \in StructKinds
            <4>1. back[Undefined] = Invalid /\ of \notin {"int", "string"}
                BY <2>3, <2>4, <3>1, KindFacts DEF UnmarshalPointer
            <4>2. QED
                BY <4>1, ResultFacts
        <3>2. CASE of \in {"int", "string"}
            BY <2>3, <2>4, <3>2, KindFacts DEF UnmarshalPointer
        <3>3. CASE of \notin {"int", "string"} \cup StructKinds
            <4>1. back[Undefined] = Panic
                BY <2>3, <3>3 DEF UnmarshalPointer
            <4>2. QED
                BY <3>3, <4>1, ResultFacts
        <3>4. QED
            BY <3>1, <3>2, <3>3
    <2>6. back[Undefined] = Ok(x) <=> x \in faithful
        BY <1>1, <1>2, <2>5
    <2> HIDE DEF made, back, faithful
    <2>7. QED
        BY <2>1, <2>2, <2>6 DEF Returns, made, back, faithful
<1>3. CASE x # <<>>
    <2>1. y \in Held[elem] /\ x = <<y>>
        BY <1>1, <1>3, OptionalFacts
    <2>2. made = Create[elem][TRUE][y] /\ Returns(made, y, V, Unmarshal[elem], Faithful[elem][TRUE])
        BY <1>1, <1>3, <2>1
    <2>3. x \in faithful <=> of \in {"int", "string"} \cup StructKinds /\ y \in Faithful[elem][TRUE]
        BY <1>1, <1>3
    <2>4. CASE of \in StructKinds
        <3>1. y \in Structs /\ y.type = of
            BY <1>1, <2>1, <2>4, HeldFacts DEF StructsOf
        <3> DEFINE v == CreateStruct(y)
        <3>2. made = Ok(v)
            <4>1. elem \in GoTypes
                BY <1>1
            <4>2. Create[elem][TRUE][y] = Ok(v)
                BY <2>1, <2>4, <4>1, StructCreates
            <4>3. QED
                BY <2>2, <4>2
        <3>3. v \in Wrappers /\ v.js = "wrapper" /\ v.receiver = y
            BY <3>1, WrapperReturns
        <3> HIDE DEF v
        <3>4. v \in V /\ v \in JsValues
            BY <3>3
        <3>5. back[v] = UnmarshalPointer(v, of)
            BY <1>1, <3>4
        <3>6. back[v] = Ok(x)
            BY <2>1, <2>4, <3>1, <3>3, <3>5, KindFacts DEF UnmarshalPointer, Received
        <3>7. y \in Faithful[elem][TRUE]
            BY <1>1, <2>1, <2>4, FaithfulCases
        <3>8. x \in faithful
            BY <2>3, <2>4, <3>7
        <3> HIDE DEF made, back, faithful
        <3>9. QED
            BY <3>2, <3>4, <3>6, <3>8 DEF Returns, made, back, faithful
    <2>5. CASE of \in {"int", "string"}
        <3>1. of \notin {"ptr", "slice", "map"} \cup StructKinds /\ of = Head(elem)
            BY <2>5, KindFacts
        <3>2. \E v \in Scalars : ~IsNil(v) /\ made = Ok(v)
            <4>1. made = CreateScalar(of, y)
                <5>1. elem \in GoTypes
                    BY <1>1
                <5>2. Create[elem][TRUE][y] = CreateScalar(of, y)
                    BY <2>1, <3>1, <5>1, ScalarCreates
                <5>3. QED
                    BY <2>2, <5>2
            <4>2. CASE of = "int"
                <5>1. y \in Word("int")
                    BY <1>1, <2>1, <4>2, HeldFacts, KindFacts
                <5>2. Rounded(y) \in Int
                    BY <5>1, IntegersReturn, KindFacts
                <5>3. made = Ok(NumberOf(Rounded(y)))
                    BY <4>1, <4>2, KindFacts DEF CreateScalar
                <5>4. NumberOf(Rounded(y)) \in Scalars /\ ~IsNil(NumberOf(Rounded(y)))
                    BY <5>2 DEF NumberOf, Scalars, IsNil
                <5>5. QED
                    BY <5>3, <5>4
            <4>3. CASE of = "string"
                <5>1. y \in Texts
                    BY <1>1, <2>1, <4>3, HeldFacts
                <5> DEFINE v == [js |-> "string", string |-> y]
                <5>2. made = Ok(v)
                    BY <4>1, <4>3, KindFacts DEF CreateScalar
                <5>3. v \in Scalars /\ ~IsNil(v)
                    BY <5>1 DEF Scalars, IsNil
                <5> HIDE DEF v
                <5>4. QED
                    BY <5>2, <5>3
            <4>4. QED
                BY <2>5, <4>2, <4>3
        <3>3. PICK v \in Scalars : ~IsNil(v) /\ made = Ok(v)
            BY <3>2
        <3>4. v \in V /\ v \in JsValues
            OBVIOUS
        <3>5. Unmarshal[elem][v] = Ok(y) <=> y \in Faithful[elem][TRUE]
            BY <2>2, <3>3, ResultFacts DEF Returns
        <3>6. Unmarshal[elem][v] = UnmarshalScalar(v, of)
            BY <1>1, <3>1, <3>4, <2>5, UnmarshalCases
        <3>7. back[v] = Ok(<<UnmarshalScalar(v, of).value>>)
            <4>1. back[v] = UnmarshalPointer(v, of)
                BY <1>1, <3>4
            <4>2. QED
                BY <2>5, <3>3, <4>1, KindFacts DEF UnmarshalPointer
        <3>8. IsOk(UnmarshalScalar(v, of)) /\ UnmarshalScalar(v, of) = Ok(UnmarshalScalar(v, of).value)
            <4>1. UnmarshalScalar(v, of) # Panic
                BY <2>5, KindFacts, ResultFacts DEF UnmarshalScalar
            <4>2. PICK z \in Held[elem] : UnmarshalScalar(v, of) = Ok(z)
                BY <1>1, <3>4, <4>1, ScalarTyped
            <4>3. QED
                BY <4>2, ResultFacts
        <3>9. back[v] = Ok(x) <=> Unmarshal[elem][v] = Ok(y)
            <4> DEFINE z == UnmarshalScalar(v, of).value
            <4>1. back[v] = Ok(<<z>>) /\ Unmarshal[elem][v] = Ok(z)
                BY <3>6, <3>7, <3>8
            <4> HIDE DEF z
            <4>2. <<z>> = <<y>> <=> z = y
                OBVIOUS
            <4>3. QED
                BY <2>1, <4>1, <4>2, ResultFacts
        <3>10. back[v] = Ok(x) <=> x \in faithful
            BY <2>3, <2>5, <3>5, <3>9
        <3> HIDE DEF made, back, faithful
        <3>11. QED
            BY <3>3, <3>4, <3>10 DEF Returns, made, back, faithful
    <2>6. CASE of \notin {"int", "string"} \cup StructKinds
        <3>1. x \notin faithful
            BY <2>3, <2>6
        <3>2. made \in {Error, Panic} \/ \E v \in V : made = Ok(v)
            BY <2>2 DEF Returns
        <3>3. ASSUME NEW v \in V PROVE back[v] # Ok(x)
            <4>1. back[v] = UnmarshalPointer(v, of)
                BY <1>1
            <4>2. back[v] = Panic
                BY <2>6, <4>1 DEF UnmarshalPointer
            <4>3. QED
                BY <4>2, ResultFacts
        <3> HIDE DEF made, back, faithful
        <3>4. QED
            BY <3>1, <3>2, <3>3 DEF Returns, made, back, faithful
    <2>7. QED
        BY <2>4, <2>5, <2>6
<1>4. QED
    BY <1>2, <1>3

(* What is made of a value of a type nests no deeper than the type. *)
ComesBack(type) ==
    \A a \in BOOLEAN : \A x \in Held[type] :
        Returns(Create[type][a][x], x, Nested[Len(type)], Unmarshal[type], Faithful[type][a])

LEMMA NestedWithin ==
    ASSUME NEW n \in 1 .. MaxNesting
    PROVE  /\ Nested[n - 1] \subseteq JsValues /\ Nested[n] \subseteq JsValues
           /\ Scalars \cup Wrappers \subseteq Nested[n - 1] /\ Nested[n - 1] \subseteq Nested[n]
           /\ [js : {"array"}, items : Lists(Nested[n - 1])] \subseteq Nested[n]
           /\ [js : {"object"}, fields : [Keys -> Optional(Nested[n - 1])]] \subseteq Nested[n]
           /\ Undefined \in Nested[n]
<1>1. n \in 0 .. MaxNesting /\ n - 1 \in 0 .. MaxNesting
    BY GoTypesAssumption
<1>2. Nested[n] = NestedIn(Nested[n - 1])
    BY NestedUnfolds
<1>3. Undefined \in Scalars
    BY DEF Undefined, Scalars
<1>4. /\ Scalars \cup Wrappers \subseteq NestedIn(Nested[n - 1])
      /\ [js : {"array"}, items : Lists(Nested[n - 1])] \subseteq NestedIn(Nested[n - 1])
      /\ [js : {"object"}, fields : [Keys -> Optional(Nested[n - 1])]] \subseteq NestedIn(Nested[n - 1])
    BY DEF NestedIn
<1>5. QED
    BY <1>1, <1>2, <1>3, <1>4, NestedAreJs, NestedGrows

LEMMA ReturnsWithin ==
    ASSUME NEW made, NEW x, NEW V, NEW W, NEW back, NEW faithful, V \subseteq W,
           Returns(made, x, V, back, faithful)
    PROVE  Returns(made, x, W, back, faithful)
    BY DEF Returns

(* What Unmarshal answers for items can be assigned, or panics. *)
LEMMA AssignsTyped ==
    ASSUME NEW type \in GoTypes, NEW w \in JsValues
    PROVE  /\ Assignable(Unmarshal[type])[w] \in Outcomes(Held[type])
           /\ \A x : Assignable(Unmarshal[type])[w] = Ok(x) <=> Unmarshal[type][w] = Ok(x)
<1>1. Unmarshal[type][w] \in Outcomes(Held[type]) \cup Others
    BY UnmarshalTyped DEF AnswersTyped
<1>2. QED
    BY <1>1, AssignableFacts

LEMMA ReturnsAssignable ==
    ASSUME NEW type \in GoTypes, NEW made, NEW x, NEW V, NEW faithful, V \subseteq JsValues,
           Returns(made, x, V, Unmarshal[type], faithful)
    PROVE  Returns(made, x, V, Assignable(Unmarshal[type]), faithful)
BY AssignsTyped DEF Returns

(* A nil slice or map becomes undefined, which is none. *)
LEMMA NilReturns ==
    ASSUME NEW type \in GoTypes, Head(type) \in {"slice", "map"}, NEW a \in BOOLEAN, NEW x \in Held[type], x.nil
    PROVE  Returns(Create[type][a][x], x, {Undefined}, Unmarshal[type], Faithful[type][a])
<1>1. Create[type][a][x] = Ok(Undefined) /\ x \notin Faithful[type][a]
    <2>1. CASE Head(type) = "slice"
        <3>1. Create[type][a][x] = Ok(Undefined)
            BY <2>1, CreateCases
        <3>2. x \notin Faithful[type][a]
            BY <2>1, FaithfulCases
        <3>3. QED
            BY <3>1, <3>2
    <2>2. CASE Head(type) = "map"
        <3>1. Create[type][a][x] = Ok(Undefined)
            BY <2>2, CreateCases
        <3>2. x \notin Faithful[type][a]
            BY <2>2, FaithfulCases
        <3>3. QED
            BY <3>1, <3>2
    <2>3. QED
        BY <2>1, <2>2
<1>2. Undefined \in JsValues
    <2>1. Undefined \in Scalars /\ MaxNesting \in 0 .. MaxNesting
        BY GoTypesAssumption DEF Undefined, Scalars
    <2>2. QED
        BY <2>1, NestedAreJs
<1>3. Unmarshal[type][Undefined] = Error
    <2>1. ~IsObject(Undefined) /\ IsNil(Undefined)
        BY DEF IsObject, IsNil, Undefined
    <2>2. CASE Head(type) = "slice"
        BY <1>2, <2>1, <2>2, UnmarshalCases DEF UnmarshalSlice
    <2>3. CASE Head(type) = "map"
        BY <1>2, <2>1, <2>3, UnmarshalCases DEF UnmarshalMap
    <2>4. QED
        BY <2>2, <2>3
<1>4. Unmarshal[type][Undefined] # Ok(x)
    BY <1>3, ResultFacts
<1>5. QED
    BY <1>1, <1>4 DEF Returns

LEMMA SliceComesBack ==
    ASSUME NEW type \in GoTypes, Head(type) = "slice", ComesBack(Tail(type)),
           NEW a \in BOOLEAN, NEW x \in Held[type]
    PROVE  Returns(Create[type][a][x], x, Nested[Len(type)], Unmarshal[type], Faithful[type][a])
<1> DEFINE V == Nested[Len(type) - 1]
           create == Create[Tail(type)][TRUE]
           back == Assignable(Unmarshal[Tail(type)])
           faithful == Faithful[Tail(type)][TRUE]
           made == MadeOfItems(x, create)
           all == AllItems(x, faithful)
           Arrays == [js : {"array"}, items : Lists(V)]
<1>1. Tail(type) \in GoTypes /\ Len(Tail(type)) = Len(type) - 1 /\ Len(type) \in 1 .. MaxNesting
    BY TypeFacts DEF Compound
<1>2. V \subseteq JsValues /\ Arrays \subseteq Nested[Len(type)] /\ Nested[Len(type)] \subseteq JsValues
      /\ Undefined \in Nested[Len(type)]
    BY <1>1, NestedWithin
<1>3. ASSUME NEW y \in Held[Tail(type)] PROVE Returns(create[y], y, V, back, faithful)
    <2>1. Returns(create[y], y, V, Unmarshal[Tail(type)], faithful)
        BY <1>1 DEF ComesBack
    <2> HIDE DEF V, create, faithful
    <2>2. QED
        BY <1>1, <1>2, <2>1, ReturnsAssignable
<1>4. \A w \in V : back[w] \in Outcomes(Held[Tail(type)])
    BY <1>1, <1>2, AssignsTyped
<1>5. x \in SliceOf(Held[Tail(type)])
    BY HeldFacts
<1>6. CASE x.nil
    <2>1. Returns(Create[type][a][x], x, {Undefined}, Unmarshal[type], Faithful[type][a])
        BY <1>6, NilReturns
    <2>2. {Undefined} \subseteq Nested[Len(type)]
        BY <1>2
    <2>3. QED
        BY <2>1, <2>2, ReturnsWithin
<1>7. CASE ~x.nil
    <2>1. Create[type][a][x] = made
        BY <1>7, CreateCases DEF MadeOfItems
    <2>2. x \in Faithful[type][a] <=> all
        BY <1>7, FaithfulCases DEF AllItems
    <2>3. \A v \in JsValues : Unmarshal[type][v] = UnmarshalSlice(v, back)
        BY UnmarshalCases
    <2>4. \/ made \in {Error, Panic} /\ ~all
          \/ \E v \in Arrays : made = Ok(v) /\ (UnmarshalSlice(v, back) = Ok(x) <=> all)
        <3>1. Arrays \subseteq JsValues
            BY <1>2
        <3> HIDE DEF V, create, back, faithful
        <3>2. QED
            BY <1>3, <1>4, <1>5, <1>7, <3>1, SliceReturns
    <2> HIDE DEF made, all, Arrays, back
    <2>5. CASE made \in {Error, Panic} /\ ~all
        BY <2>1, <2>2, <2>5 DEF Returns
    <2>6. CASE \E v \in Arrays : made = Ok(v) /\ (UnmarshalSlice(v, back) = Ok(x) <=> all)
        <3>1. PICK v \in Arrays : made = Ok(v) /\ (UnmarshalSlice(v, back) = Ok(x) <=> all)
            BY <2>6
        <3>2. v \in Nested[Len(type)] /\ v \in JsValues
            BY <1>2
        <3>3. Unmarshal[type][v] = Ok(x) <=> x \in Faithful[type][a]
            BY <2>2, <2>3, <3>1, <3>2
        <3>4. QED
            BY <2>1, <3>1, <3>2, <3>3 DEF Returns
    <2>7. QED
        BY <2>4, <2>5, <2>6
<1>8. QED
    BY <1>6, <1>7

LEMMA MapComesBack ==
    ASSUME NEW type \in GoTypes, Head(type) = "map", ComesBack(Tail(type)),
           NEW a \in BOOLEAN, NEW x \in Held[type]
    PROVE  Returns(Create[type][a][x], x, Nested[Len(type)], Unmarshal[type], Faithful[type][a])
<1> DEFINE V == Nested[Len(type) - 1]
           create == Create[Tail(type)][FALSE]
           back == Assignable(Unmarshal[Tail(type)])
           faithful == Faithful[Tail(type)][FALSE]
           made == MadeOfEntries(x, create)
           all == AllEntries(x, faithful)
           JsObjects == [js : {"object"}, fields : [Keys -> Optional(V)]]
<1>1. Tail(type) \in GoTypes /\ Len(Tail(type)) = Len(type) - 1 /\ Len(type) \in 1 .. MaxNesting
    BY TypeFacts DEF Compound
<1>2. V \subseteq JsValues /\ JsObjects \subseteq Nested[Len(type)] /\ Nested[Len(type)] \subseteq JsValues
      /\ Undefined \in Nested[Len(type)]
    BY <1>1, NestedWithin
<1>3. ASSUME NEW y \in Held[Tail(type)] PROVE Returns(create[y], y, V, back, faithful)
    <2>1. Returns(create[y], y, V, Unmarshal[Tail(type)], faithful)
        BY <1>1 DEF ComesBack
    <2> HIDE DEF V, create, faithful
    <2>2. QED
        BY <1>1, <1>2, <2>1, ReturnsAssignable
<1>4. \A w \in V : back[w] \in Outcomes(Held[Tail(type)])
    BY <1>1, <1>2, AssignsTyped
<1>5. x \in MapOf(Held[Tail(type)])
    BY HeldFacts
<1>6. CASE x.nil
    <2>1. Returns(Create[type][a][x], x, {Undefined}, Unmarshal[type], Faithful[type][a])
        BY <1>6, NilReturns
    <2>2. {Undefined} \subseteq Nested[Len(type)]
        BY <1>2
    <2>3. QED
        BY <2>1, <2>2, ReturnsWithin
<1>7. CASE ~x.nil
    <2>1. Create[type][a][x] = made
        BY <1>7, CreateCases DEF MadeOfEntries
    <2>2. x \in Faithful[type][a] <=> all
        BY <1>7, FaithfulCases DEF AllEntries
    <2>3. \A v \in JsValues : Unmarshal[type][v] = UnmarshalMap(v, back)
        BY UnmarshalCases
    <2>4. \/ made \in {Error, Panic} /\ ~all
          \/ \E v \in JsObjects : made = Ok(v) /\ (UnmarshalMap(v, back) = Ok(x) <=> all)
        <3>1. JsObjects \subseteq JsValues
            BY <1>2
        <3> DEFINE S == Held[Tail(type)]
        <3>2. /\ \A y \in S : Returns(create[y], y, V, back, faithful)
              /\ \A w \in V : back[w] \in Outcomes(S)
              /\ x \in MapOf(S)
            BY <1>3, <1>4, <1>5
        <3> HIDE DEF V, create, back, faithful, S
        <3>3. QED
            BY <1>7, <3>1, <3>2, MapReturns
    <2> HIDE DEF made, all, JsObjects, back
    <2>5. CASE made \in {Error, Panic} /\ ~all
        BY <2>1, <2>2, <2>5 DEF Returns
    <2>6. CASE \E v \in JsObjects : made = Ok(v) /\ (UnmarshalMap(v, back) = Ok(x) <=> all)
        <3>1. PICK v \in JsObjects : made = Ok(v) /\ (UnmarshalMap(v, back) = Ok(x) <=> all)
            BY <2>6
        <3>2. v \in Nested[Len(type)] /\ v \in JsValues
            BY <1>2
        <3>3. Unmarshal[type][v] = Ok(x) <=> x \in Faithful[type][a]
            BY <2>2, <2>3, <3>1, <3>2
        <3>4. QED
            BY <2>1, <3>1, <3>2, <3>3 DEF Returns
    <2>7. QED
        BY <2>4, <2>5, <2>6
<1>8. QED
    BY <1>6, <1>7

(* One type, if the type of its elements is known. *)
LEMMA TypeComesBack ==
    ASSUME NEW type \in GoTypes, Head(type) \in Compound => ComesBack(Tail(type))
    PROVE  ComesBack(type)
<1> SUFFICES ASSUME NEW a \in BOOLEAN, NEW x \in Held[type]
             PROVE  Returns(Create[type][a][x], x, Nested[Len(type)], Unmarshal[type], Faithful[type][a])
    BY DEF ComesBack
<1> DEFINE kind == Head(type)
<1>1. Len(type) \in 1 .. MaxNesting
    BY TypeFacts
<1>2. /\ Nested[Len(type)] \subseteq JsValues /\ Scalars \cup Wrappers \subseteq Nested[Len(type)]
      /\ Nested[Len(type) - 1] \subseteq Nested[Len(type)]
    BY <1>1, NestedWithin
<1>3. CASE kind = "ptr"
    <2> DEFINE V == Nested[Len(type)]
    <2>1. ComesBack(Tail(type)) /\ Len(Tail(type)) = Len(type) - 1
        BY <1>3, TypeFacts DEF Compound
    <2>2. ASSUME NEW y \in Held[Tail(type)]
          PROVE  Returns(Create[Tail(type)][TRUE][y], y, V, Unmarshal[Tail(type)], Faithful[Tail(type)][TRUE])
        <3>1. Returns(Create[Tail(type)][TRUE][y], y, Nested[Len(type) - 1], Unmarshal[Tail(type)],
                      Faithful[Tail(type)][TRUE])
            BY <2>1 DEF ComesBack
        <3>2. QED
            BY <1>2, <3>1, ReturnsWithin
    <2> HIDE DEF V
    <2>3. QED
        BY <1>2, <1>3, <2>2, PointerReturns DEF V
<1>4. CASE kind = "slice"
    BY <1>4, SliceComesBack DEF Compound
<1>5. CASE kind = "map"
    BY <1>5, MapComesBack DEF Compound
<1>6. CASE kind \in StructKinds
    <2>1. x \in Structs /\ x.type = kind
        BY <1>6, HeldFacts DEF StructsOf
    <2> DEFINE v == CreateStruct(x)
    <2>2. v \in Wrappers /\ v.js = "wrapper" /\ v.receiver = x
        BY <2>1, WrapperReturns
    <2> HIDE DEF v
    <2>3. v \in Nested[Len(type)] /\ v \in JsValues
        BY <1>2, <2>2
    <2>4. Create[type][a][x] = IF a THEN Ok(v) ELSE Panic
        BY <1>6, CreateCases DEF v
    <2>5. x \in Faithful[type][a] <=> a
        BY <1>6, FaithfulCases
    <2>6. Unmarshal[type][v] = Ok(x)
        BY <1>6, <2>1, <2>2, <2>3, UnmarshalCases DEF UnmarshalStruct, Received
    <2>7. CASE a
        <3>1. Create[type][a][x] = Ok(v)
            BY <2>4, <2>7
        <3>2. QED
            BY <2>3, <2>5, <2>6, <2>7, <3>1 DEF Returns
    <2>8. CASE ~a
        <3>1. Create[type][a][x] = Panic
            BY <2>4, <2>8
        <3>2. QED
            BY <2>5, <2>8, <3>1 DEF Returns
    <2>9. QED
        BY <2>7, <2>8
<1>7. CASE kind \notin {"ptr", "slice", "map"} \cup StructKinds
    <2>1. Returns(Create[type][a][x], x, Scalars, Unmarshal[type], Faithful[type][a])
        BY <1>7, ScalarReturns
    <2>2. QED
        BY <1>2, <2>1, ReturnsWithin
<1>8. QED
    BY <1>3, <1>4, <1>5, <1>6, <1>7

LEMMA AllComeBack == \A type \in GoTypes : ComesBack(type)
<1> DEFINE S == {n \in Nat : \A type \in TypesTo(n) : ComesBack(type)}
<1>1. 0 \in S
    BY TypesOfAllLengths
<1>2. ASSUME NEW n \in Nat, n \in S PROVE n + 1 \in S
    <2>1. SUFFICES ASSUME NEW type \in TypesTo(n + 1) PROVE ComesBack(type)
        OBVIOUS
    <2>2. type \in GoTypes
        BY DEF TypesTo
    <2>3. Head(type) \in Compound => Tail(type) \in TypesTo(n)
        BY TypesOfAllLengths
    <2>4. Head(type) \in Compound => ComesBack(Tail(type))
        BY <1>2, <2>3
    <2>5. QED
        BY <2>2, <2>4, TypeComesBack
<1>3. Nat \subseteq S
    <2> HIDE DEF S
    <2>1. QED
        BY <1>1, <1>2, SetInduction
<1>4. MaxNesting \in S
    <2> HIDE DEF S
    <2>1. QED
        BY <1>3, GoTypesAssumption
<1>5. QED
    BY <1>4, TypesOfAllLengths

(***************************************************************************)
(* For all types, nested in one another, and any sizes of integers and     *)
(* numbers: a Go value comes back from JavaScript as it was exactly if it  *)
(* is Faithful (v8_create.go:184-376, v8_unmarshal.go:82-258).             *)
(***************************************************************************)
THEOREM RoundTripsAreFaithfulAlways == Spec => []RoundTripsAreFaithful
<1>1. ASSUME NEW type \in GoTypes, NEW x \in Samples[type]
      PROVE  RoundTrips(type, x) <=> x \in Faithful[type][FALSE]
    <2>1. x \in Held[type]
        BY SamplesAssumption
    <2>2. Returns(Create[type][FALSE][x], x, Nested[Len(type)], Unmarshal[type], Faithful[type][FALSE])
        BY <2>1, AllComeBack DEF ComesBack
    <2> DEFINE made == Create[type][FALSE][x]
    <2>3. RoundTrips(type, x) <=> IsOk(made) /\ Unmarshal[type][made.value] = Ok(x)
        BY DEF RoundTrips
    <2> HIDE DEF made
    <2>4. CASE made \in {Error, Panic} /\ x \notin Faithful[type][FALSE]
        BY <2>3, <2>4, ResultFacts
    <2>5. CASE \E v \in Nested[Len(type)] :
                  made = Ok(v) /\ (Unmarshal[type][v] = Ok(x) <=> x \in Faithful[type][FALSE])
        BY <2>3, <2>5, ResultFacts
    <2>6. QED
        BY <2>2, <2>4, <2>5 DEF Returns, made
<1>2. RoundTripsAreFaithful
    BY <1>1 DEF RoundTripsAreFaithful
<1>3. QED
    BY <1>2, PTL
=============================================================================
