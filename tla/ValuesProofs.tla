----------------------------- MODULE ValuesProofs -----------------------------
(***************************************************************************)
(* The memory safety of values, for any number of objects, tuples and Go   *)
(* Values, and whatever the collector, the finalizers and the program do.  *)
(* Callbacks answer with Values of their own context (no "crossResult").   *)
(***************************************************************************)
EXTENDS Values, TLAPS

(* A tuple in use holds a value, one that is free holds nothing and is no result;
   the slot of an object in the tuple's context names the one tuple that holds it. *)
TupleInv ==
    \A t \in Tuples :
        /\ nativeCount[t] = 0 => value[t] = None /\ scope[t] = None /\ results[t] = 0
        /\ nativeCount[t] > 0 => value[t] \in Things /\ scope[t] \in Contexts
        /\ value[t] \in Objects => slot[scope[t]][value[t]] = t

(* The slot for a context names a tuple of that context. *)
SlotInv ==
    \A c \in Contexts : \A o \in Objects : slot[c][o] # None => scope[slot[c][o]] = c

(* A Value has a tuple as long as it has a finalizer. *)
FinalizerInv == \A v \in GoValues : info[v] # None <=> finalizer[v] # "none"

(* Until a finalizer gives it up a Value is counted; one that came back to the
   program after it was queued, at least twice, whatever race there was. *)
CountInv ==
    \A v \in GoValues :
        /\ finalizer[v] \in {"armed", "queued", "counting"} => refCount[v] >= 1
        /\ finalizer[v] \in {"queued", "counting"} /\ v \in reachable => refCount[v] >= 2

(* What the caller works with is there; when a Value is given up during the call
   that uses it, one of the references it was returned with is left. *)
CallerInv ==
    /\ caller \in {"look", "resurrect", "create"} => held \in Tuples /\ nativeCount[held] > 0
    /\ caller = "resurrect" => seen \in heap /\ info[seen] \in {None, held}
    /\ caller = "create" => internal[held] = None
    /\ caller \in {"idle", "look", "create"} => seen = None
    /\ caller = "idle" => held = None
    /\ caller = "using" /\ "dropInUse" \notin Usage =>
          /\ held \in Tuples /\ seen \in reachable
          /\ info[seen] # held => internal[held] = None /\ nativeCount[held] > results[held]

IInv ==
    /\ TypeOK /\ TupleInv /\ SlotInv /\ FinalizerInv /\ CountInv /\ CallerInv
    /\ NoDanglingPointers /\ CountCoversHolders

-----------------------------------------------------------------------------
(* Holders *)

(* The holders of a tuple, counted: its results, the call under way, its Go Value. *)
LEMMA Covered ==
    ASSUME IInv, NEW t \in Tuples, nativeCount[t] > 0
    PROVE  /\ nativeCount[t] \in Nat /\ results[t] \in Nat /\ results[t] <= nativeCount[t]
           /\ held = t /\ caller \in {"look", "resurrect", "create"} => results[t] < nativeCount[t]
           /\ internal[t] # None => results[t] < nativeCount[t]
           /\ held = t /\ caller \in {"look", "resurrect", "create"} /\ internal[t] # None
                 => results[t] + 1 < nativeCount[t]
<1>1. nativeCount[t] \in Nat /\ results[t] \in Nat /\ internal[t] \in GoValues \cup {None}
    BY DEF IInv, TypeOK
<1>2. GoReferences(t) \in Nat /\ (internal[t] # None => GoReferences(t) >= 1)
    <2>1. internal[t] # None =>
             /\ finalizer[internal[t]] # "none" /\ internal[t] \in GoValues
             /\ finalizer[internal[t]] # "giving" => refCount[internal[t]] >= 1
        BY <1>1, NoneAssumption DEF IInv, TypeOK, NoDanglingPointers, FinalizerInv, CountInv
    <2>2. QED
        BY <1>1, <2>1 DEF GoReferences, IInv, TypeOK
<1>3. InCall(t) \in {0, 1} /\ (held = t /\ caller \in {"look", "resurrect", "create"} => InCall(t) = 1)
    BY DEF InCall
<1>4. nativeCount[t] >= results[t] + InCall(t) + GoReferences(t)
    BY DEF IInv, CountCoversHolders
<1>5. QED
    BY <1>1, <1>2, <1>3, <1>4

(* A release in the tuple's own context: the last one empties the one slot that names it. *)
LEMMA ReleasedStep ==
    ASSUME IInv, NEW t \in Tuples, nativeCount[t] > 0, Released(t, scope[t])
    PROVE  /\ nativeCount' \in [Tuples -> Nat] /\ nativeCount'[t] = nativeCount[t] - 1
           /\ \A u \in Tuples \ {t} : nativeCount'[u] = nativeCount[u] /\ value'[u] = value[u] /\ scope'[u] = scope[u]
           /\ value' \in [Tuples -> Things \cup {None}] /\ scope' \in [Tuples -> Contexts \cup {None}]
           /\ slot' \in [Contexts -> [Objects -> Tuples \cup {None}]]
           /\ nativeCount[t] = 1 => value'[t] = None /\ scope'[t] = None
           /\ nativeCount[t] > 1 => value'[t] = value[t] /\ scope'[t] = scope[t]
           /\ \A c \in Contexts : \A o \in Objects :
                 slot'[c][o] = IF nativeCount[t] = 1 /\ slot[c][o] = t THEN None ELSE slot[c][o]
<1> USE NoneAssumption, KindsAssumption DEF IInv, TypeOK, Released, SlotsWith, Things
<1>1. nativeCount' \in [Tuples -> Nat] /\ nativeCount'[t] = nativeCount[t] - 1
    OBVIOUS
<1>2. \A u \in Tuples \ {t} : nativeCount'[u] = nativeCount[u] /\ value'[u] = value[u] /\ scope'[u] = scope[u]
    OBVIOUS
<1>3. value' \in [Tuples -> Things \cup {None}] /\ scope' \in [Tuples -> Contexts \cup {None}]
    OBVIOUS
<1>4. slot' \in [Contexts -> [Objects -> Tuples \cup {None}]]
    <2>1. CASE nativeCount[t] = 1
        <3>1. slot' = [d \in Contexts |-> [o \in Objects |->
                          IF d = scope[t] /\ o = value[t] THEN None ELSE slot[d][o]]]
            BY <2>1
        <3>2. QED
            BY <3>1
    <2>2. CASE nativeCount[t] # 1
        BY <2>2
    <2>3. QED
        BY <2>1, <2>2
<1>5. /\ nativeCount[t] = 1 => value'[t] = None /\ scope'[t] = None
      /\ nativeCount[t] > 1 => value'[t] = value[t] /\ scope'[t] = scope[t]
    OBVIOUS
<1>6. ASSUME NEW c \in Contexts, NEW o \in Objects
      PROVE  slot'[c][o] = IF nativeCount[t] = 1 /\ slot[c][o] = t THEN None ELSE slot[c][o]
    <2>1. slot[c][o] = t <=> scope[t] = c /\ value[t] = o
        BY DEF SlotInv, NoDanglingPointers, TupleInv
    <2>2. nativeCount[t] = 1 => slot'[c][o] = IF c = scope[t] /\ o = value[t] THEN None ELSE slot[c][o]
        OBVIOUS
    <2>3. nativeCount[t] # 1 => slot' = slot
        OBVIOUS
    <2>4. QED
        BY <2>1, <2>2, <2>3
<1>7. QED
    BY <1>1, <1>2, <1>3, <1>4, <1>5, <1>6

-----------------------------------------------------------------------------
(* Steps *)

(* An object that has a tuple is returned with it, retained. *)
LEMMA ReturnKnownIInv ==
    ASSUME IInv, NEW c \in Contexts, NEW o \in Objects, ReturnKnown(c, o)
    PROVE  IInv'
<1> USE NoneAssumption, KindsAssumption DEF IInv, SlotsWith, AtWork, Free, TypeOK, ReturnKnown, Retained, CallerIs, Things, native, golang, calling
<1>1. TypeOK'
    BY DEF CountInv
<1>2. TupleInv'
    BY DEF TupleInv, NoDanglingPointers
<1>3. FinalizerInv'
    BY DEF FinalizerInv, NoDanglingPointers
<1>4. CountInv'
    BY DEF CountInv, FinalizerInv, NoDanglingPointers, CallerInv
<1>5. CallerInv'
    BY DEF CallerInv, NoDanglingPointers
<1>6. NoDanglingPointers'
    BY DEF NoDanglingPointers, TupleInv, FinalizerInv, CallerInv
<1>7. SlotInv'
    BY DEF SlotInv, TupleInv, NoDanglingPointers, CallerInv
<1>8. CountCoversHolders'
    BY DEF CountCoversHolders, GoReferences, InCall, TupleInv, CallerInv, FinalizerInv, NoDanglingPointers, CountInv
<1>9. QED
    BY <1>1, <1>2, <1>3, <1>4, <1>5, <1>6, <1>7, <1>8

(* A free tuple is no result, and no Go Value or slot names it. *)
LEMMA ReturnNewIInv ==
    ASSUME IInv, NEW c \in Contexts, NEW x \in Things, ReturnNew(c, x)
    PROVE  IInv'
<1> USE NoneAssumption, KindsAssumption DEF IInv, SlotsWith, AtWork, Free, TypeOK, ReturnNew, CallerIs, Things, native, golang, calling
<1>1. TypeOK'
    BY DEF CountInv
<1>2. TupleInv'
    BY DEF TupleInv
<1>3. FinalizerInv'
    BY DEF FinalizerInv, NoDanglingPointers
<1>4. CountInv'
    BY DEF CountInv, FinalizerInv, NoDanglingPointers, CallerInv
<1>5. CallerInv'
    BY DEF CallerInv, NoDanglingPointers
<1>6. NoDanglingPointers'
    BY DEF NoDanglingPointers, TupleInv, FinalizerInv, CallerInv
<1>7. SlotInv'
    BY DEF SlotInv, TupleInv, NoDanglingPointers, CallerInv
<1>8. CountCoversHolders'
    BY DEF CountCoversHolders, GoReferences, InCall, TupleInv, CallerInv, FinalizerInv, NoDanglingPointers, CountInv
<1>9. QED
    BY <1>1, <1>2, <1>3, <1>4, <1>5, <1>6, <1>7, <1>8

(* What the tuple of the call names is in Go's memory. *)
LEMMA LookIInv ==
    ASSUME IInv, Look
    PROVE  IInv'
<1> USE NoneAssumption, KindsAssumption DEF IInv, SlotsWith, AtWork, Free, TypeOK, Look, CallerIs, native, golang, calling, Things
<1>1. TypeOK'
    BY DEF CallerInv
<1>2. TupleInv'
    BY DEF TupleInv
<1>3. FinalizerInv'
    BY DEF FinalizerInv, NoDanglingPointers
<1>4. CountInv'
    BY DEF CountInv, FinalizerInv, NoDanglingPointers, CallerInv
<1>5. CallerInv'
    BY DEF CallerInv, NoDanglingPointers
<1>6. NoDanglingPointers'
    BY DEF NoDanglingPointers, TupleInv, FinalizerInv, CallerInv
<1>7. SlotInv'
    BY DEF SlotInv, TupleInv, NoDanglingPointers, CallerInv
<1>8. CountCoversHolders'
    BY DEF CountCoversHolders, GoReferences, InCall, TupleInv, CallerInv, FinalizerInv, NoDanglingPointers, CountInv
<1>9. QED
    BY <1>1, <1>2, <1>3, <1>4, <1>5, <1>6, <1>7, <1>8

(* A Value that was queued and is returned again is counted at least twice; one that its
   finalizer gives up all the same leaves a reference with its tuple. *)
LEMMA ResurrectIInv ==
    ASSUME IInv, Resurrect
    PROVE  IInv'
<1> USE NoneAssumption, KindsAssumption DEF IInv, TypeOK, Resurrect, CountersRace, CallerIs, Things, native, golang, calling
<1>0. seen \in heap /\ seen \in GoValues /\ info[seen] \in {None, held} /\ held \in Tuples /\ nativeCount[held] > 0
    BY DEF CallerInv
<1>1. TypeOK'
    <2>1. finalizer[seen] = "counting" => refCount[seen] >= 1
        BY <1>0 DEF CountInv
    <2>2. refCount' \in [GoValues -> Nat]
        BY <1>0, <2>1
    <2>3. finalizer' \in [GoValues -> {"none", "armed", "queued", "counting", "giving"}]
        BY <1>0
    <2>4. QED
        BY <1>0, <2>2, <2>3
<1>2. TupleInv'
    BY DEF TupleInv
<1>3. FinalizerInv'
    BY <1>0 DEF FinalizerInv, NoDanglingPointers
<1>4. CountInv'
    <2>1. \A v \in GoValues \ {seen} : refCount'[v] = refCount[v] /\ finalizer'[v] = finalizer[v]
        BY <1>0
    <2>2. finalizer'[seen] \in {"armed", "queued", "counting"} => refCount'[seen] >= 1
        BY <1>0 DEF CountInv
    <2>3. finalizer'[seen] \in {"queued", "counting"} => refCount'[seen] >= 2
        BY <1>0 DEF CountInv
    <2>4. QED
        BY <2>1, <2>2, <2>3 DEF CountInv
<1>5. CallerInv'
    BY DEF CallerInv, NoDanglingPointers
<1>6. NoDanglingPointers'
    BY DEF NoDanglingPointers, TupleInv, FinalizerInv, CallerInv
<1>7. SlotInv'
    BY DEF SlotInv
<1>8. CountCoversHolders'
    <2> SUFFICES ASSUME NEW t \in Tuples, nativeCount[t] > 0
                 PROVE  nativeCount[t] >= results[t] + InCall(t)' + GoReferences(t)'
        BY DEF CountCoversHolders
    <2>1. InCall(t)' = 0 /\ InCall(t) = IF held = t THEN 1 ELSE 0
        BY DEF InCall
    <2>2. nativeCount[t] >= results[t] + InCall(t) + GoReferences(t)
        BY DEF CountCoversHolders
    <2>3. CASE internal[t] # seen
        <3>1. GoReferences(t)' = GoReferences(t)
            BY <2>3, <1>0 DEF GoReferences
        <3>2. GoReferences(t) \in Nat
            BY DEF GoReferences
        <3>3. QED
            BY <2>1, <2>2, <3>1, <3>2
    <2>4. CASE internal[t] = seen
        <3>1. held = t
            BY <2>4, <1>0 DEF NoDanglingPointers
        <3>2. GoReferences(t)' <= GoReferences(t) + 1
            <4>1. CASE finalizer[seen] = "giving"
                BY <4>1, <2>4, <1>0 DEF GoReferences
            <4>2. CASE finalizer[seen] = "counting"
                <5>1. refCount[seen] >= 1
                    BY <4>2, <1>0 DEF CountInv
                <5>2. GoReferences(t) = refCount[seen]
                    BY <4>2, <2>4, <1>0 DEF GoReferences
                <5>3. GoReferences(t)' <= refCount[seen] + 1
                    BY <4>2, <5>1, <2>4, <1>0 DEF GoReferences
                <5>4. QED
                    BY <5>1, <5>2, <5>3
            <4>3. CASE finalizer[seen] \notin {"counting", "giving"}
                BY <4>3, <2>4, <1>0 DEF GoReferences
            <4>4. QED
                BY <4>1, <4>2, <4>3
        <3>3. GoReferences(t) \in Nat /\ GoReferences(t)' \in Nat
            BY <1>1, <2>4, <1>0 DEF GoReferences
        <3>4. QED
            BY <2>1, <2>2, <3>1, <3>2, <3>3
    <2>5. QED
        BY <2>3, <2>4
<1>9. QED
    BY <1>1, <1>2, <1>3, <1>4, <1>5, <1>6, <1>7, <1>8

(* A Value that newValue does not find any more leaves the call's reference with the tuple. *)
LEMMA ResurrectNothingIInv ==
    ASSUME IInv, ResurrectNothing
    PROVE  IInv'
<1> USE NoneAssumption, KindsAssumption DEF IInv, TypeOK, ResurrectNothing, CallerIs, Things, native, golang, calling
<1>1. TypeOK'
    OBVIOUS
<1>2. TupleInv' /\ SlotInv' /\ FinalizerInv' /\ CountInv' /\ CallerInv'
    BY DEF TupleInv, SlotInv, FinalizerInv, CountInv, CallerInv
<1>3. NoDanglingPointers'
    BY DEF NoDanglingPointers
<1>4. CountCoversHolders'
    BY DEF CountCoversHolders, GoReferences, InCall
<1>5. QED
    BY <1>1, <1>2, <1>3, <1>4

(* A new Value is made for a tuple that has none. *)
LEMMA CreateIInv ==
    ASSUME IInv, Create
    PROVE  IInv'
<1> USE NoneAssumption, KindsAssumption DEF IInv, SlotsWith, AtWork, Free, TypeOK, Create, CallerIs, Things, native, golang, calling
<1>1. TypeOK'
    BY DEF CallerInv
<1>2. TupleInv'
    BY DEF TupleInv
<1>3. FinalizerInv'
    BY DEF FinalizerInv, NoDanglingPointers, CallerInv
<1>4. CountInv'
    BY DEF CountInv, FinalizerInv, NoDanglingPointers, CallerInv
<1>5. CallerInv'
    BY DEF CallerInv, NoDanglingPointers
<1>6. NoDanglingPointers'
    BY DEF NoDanglingPointers, TupleInv, FinalizerInv, CallerInv
<1>7. SlotInv'
    BY DEF SlotInv, TupleInv, NoDanglingPointers, CallerInv
<1>8. CountCoversHolders'
    BY DEF CountCoversHolders, GoReferences, InCall, TupleInv, CallerInv, FinalizerInv, NoDanglingPointers, CountInv
<1>9. QED
    BY <1>1, <1>2, <1>3, <1>4, <1>5, <1>6, <1>7, <1>8

(* A Value that the program can name has its tuple. *)
LEMMA BeginUseIInv ==
    ASSUME IInv, NEW v \in GoValues, BeginUse(v)
    PROVE  IInv'
<1> USE NoneAssumption, KindsAssumption DEF IInv, SlotsWith, AtWork, Free, TypeOK, BeginUse, CallerIs, native, golang, calling, Things
<1>1. TypeOK'
    BY DEF CountInv
<1>2. TupleInv'
    BY DEF TupleInv
<1>3. FinalizerInv'
    BY DEF FinalizerInv, NoDanglingPointers
<1>4. CountInv'
    BY DEF CountInv, FinalizerInv, NoDanglingPointers, CallerInv
<1>5. CallerInv'
    BY DEF CallerInv, NoDanglingPointers
<1>6. NoDanglingPointers'
    BY DEF NoDanglingPointers, TupleInv, FinalizerInv, CallerInv
<1>7. SlotInv'
    BY DEF SlotInv, TupleInv, NoDanglingPointers, CallerInv
<1>8. CountCoversHolders'
    BY DEF CountCoversHolders, GoReferences, InCall, TupleInv, CallerInv, FinalizerInv, NoDanglingPointers, CountInv
<1>9. QED
    BY <1>1, <1>2, <1>3, <1>4, <1>5, <1>6, <1>7, <1>8

(* The end of a native call changes nothing but the caller. *)
LEMMA EndUseIInv ==
    ASSUME IInv, EndUse
    PROVE  IInv'
<1> USE NoneAssumption, KindsAssumption DEF IInv, SlotsWith, AtWork, Free, TypeOK, EndUse, CallerIs, native, golang, calling, Things
<1>1. TypeOK'
    BY DEF CountInv
<1>2. TupleInv'
    BY DEF TupleInv
<1>3. FinalizerInv'
    BY DEF FinalizerInv, NoDanglingPointers
<1>4. CountInv'
    BY DEF CountInv, FinalizerInv, NoDanglingPointers, CallerInv
<1>5. CallerInv'
    BY DEF CallerInv, NoDanglingPointers
<1>6. NoDanglingPointers'
    BY DEF NoDanglingPointers, TupleInv, FinalizerInv, CallerInv
<1>7. SlotInv'
    BY DEF SlotInv, TupleInv, NoDanglingPointers, CallerInv
<1>8. CountCoversHolders'
    BY DEF CountCoversHolders, GoReferences, InCall, TupleInv, CallerInv, FinalizerInv, NoDanglingPointers, CountInv
<1>9. QED
    BY <1>1, <1>2, <1>3, <1>4, <1>5, <1>6, <1>7, <1>8

(* The result of a callback is the tuple of a Value, retained. *)
LEMMA CallbackResultIInv ==
    ASSUME IInv, NEW v \in GoValues, CallbackResult(v)
    PROVE  IInv'
<1> USE NoneAssumption, KindsAssumption DEF IInv, SlotsWith, AtWork, Free, TypeOK, CallbackResult, Retained, golang, Things, native, golang, calling
<1>1. TypeOK'
    BY DEF CountInv
<1>2. TupleInv'
    BY DEF TupleInv, NoDanglingPointers
<1>3. FinalizerInv'
    BY DEF FinalizerInv, NoDanglingPointers
<1>4. CountInv'
    BY DEF CountInv, FinalizerInv, NoDanglingPointers, CallerInv
<1>5. CallerInv'
    BY DEF CallerInv, NoDanglingPointers
<1>6. NoDanglingPointers'
    BY DEF NoDanglingPointers, TupleInv, FinalizerInv, CallerInv
<1>7. SlotInv'
    BY DEF SlotInv, TupleInv, NoDanglingPointers, CallerInv
<1>8. CountCoversHolders'
    BY DEF CountCoversHolders, GoReferences, InCall, TupleInv, CallerInv, FinalizerInv, NoDanglingPointers, CountInv
<1>9. QED
    BY <1>1, <1>2, <1>3, <1>4, <1>5, <1>6, <1>7, <1>8

(* A result that is released was counted: the tuple is only deleted when nobody else holds it. *)
LEMMA TakeResultIInv ==
    ASSUME IInv, "crossResult" \notin Usage, NEW t \in Tuples, TakeResult(t)
    PROVE  IInv'
<1> USE NoneAssumption, KindsAssumption DEF IInv, TypeOK, TakeResult, golang, calling
<1>1. nativeCount[t] > 0 /\ Released(t, scope[t])
    BY DEF TupleInv
<1>2. /\ nativeCount' \in [Tuples -> Nat] /\ nativeCount'[t] = nativeCount[t] - 1
      /\ \A u \in Tuples \ {t} : nativeCount'[u] = nativeCount[u] /\ value'[u] = value[u] /\ scope'[u] = scope[u]
      /\ value' \in [Tuples -> Things \cup {None}] /\ scope' \in [Tuples -> Contexts \cup {None}]
      /\ slot' \in [Contexts -> [Objects -> Tuples \cup {None}]]
      /\ nativeCount[t] = 1 => value'[t] = None /\ scope'[t] = None
      /\ nativeCount[t] > 1 => value'[t] = value[t] /\ scope'[t] = scope[t]
      /\ \A c \in Contexts : \A o \in Objects :
            slot'[c][o] = IF nativeCount[t] = 1 /\ slot[c][o] = t THEN None ELSE slot[c][o]
    BY <1>1, ReleasedStep
<1>3. /\ results'[t] = results[t] - 1 /\ \A u \in Tuples \ {t} : results'[u] = results[u]
      /\ results' \in [Tuples -> Nat]
    OBVIOUS
<1>4. /\ nativeCount[t] = 1 => results'[t] = 0 /\ internal[t] = None
      /\ held = t /\ caller \in {"look", "resurrect", "create"} => nativeCount'[t] > 0
    BY <1>1, <1>2, <1>3, Covered
<1>5. TypeOK'
    BY <1>2, <1>3
<1>6. TupleInv'
    <2> SUFFICES ASSUME NEW u \in Tuples
                 PROVE  /\ nativeCount'[u] = 0 => value'[u] = None /\ scope'[u] = None /\ results'[u] = 0
                        /\ nativeCount'[u] > 0 => value'[u] \in Things /\ scope'[u] \in Contexts
                        /\ value'[u] \in Objects => slot'[scope'[u]][value'[u]] = u
        BY DEF TupleInv
    <2>1. CASE u = t /\ nativeCount[t] = 1
        <3>1. value'[u] \notin Objects
            BY <2>1, <1>2 DEF Things
        <3>2. QED
            BY <2>1, <3>1, <1>1, <1>2, <1>3, <1>4
    <2>2. CASE ~(u = t /\ nativeCount[t] = 1)
        <3>1. value'[u] = value[u] /\ scope'[u] = scope[u]
            BY <2>2, <1>1, <1>2
        <3>2. /\ nativeCount'[u] = 0 <=> nativeCount[u] = 0
              /\ nativeCount[u] = 0 => results'[u] = 0
            BY <2>2, <1>1, <1>2, <1>3 DEF TupleInv
        <3>3. /\ nativeCount[u] > 0 => value[u] \in Things /\ scope[u] \in Contexts
              /\ nativeCount[u] = 0 => value[u] = None /\ scope[u] = None
            BY DEF TupleInv
        <3>4. value[u] \in Objects => nativeCount[u] > 0 /\ slot[scope[u]][value[u]] = u
            BY <3>3 DEF TupleInv, Things
        <3>5. value[u] \in Objects => slot'[scope[u]][value[u]] = u
            BY <2>2, <3>3, <3>4, <1>2
        <3>6. QED
            BY <3>1, <3>2, <3>3, <3>5, <1>2
    <2>3. QED
        BY <2>1, <2>2
<1>7. SlotInv'
    <2> SUFFICES ASSUME NEW c \in Contexts, NEW o \in Objects, slot'[c][o] # None
                 PROVE  scope'[slot'[c][o]] = c
        BY DEF SlotInv
    <2>1. /\ slot'[c][o] = slot[c][o] /\ slot[c][o] \in Tuples /\ scope[slot[c][o]] = c
          /\ ~(nativeCount[t] = 1 /\ slot[c][o] = t)
        BY <1>2 DEF SlotInv
    <2>2. QED
        BY <2>1, <1>2, <1>1
<1>8. FinalizerInv' /\ CountInv'
    BY DEF FinalizerInv, CountInv
<1>9. CallerInv'
    <2>1. caller = "using" /\ "dropInUse" \notin Usage /\ info[seen] # held =>
             nativeCount'[held] > results'[held]
        BY <1>2, <1>3 DEF CallerInv
    <2>2. caller \in {"look", "resurrect", "create"} => nativeCount'[held] > 0
        BY <1>2, <1>4 DEF CallerInv
    <2>3. QED
        BY <2>1, <2>2 DEF CallerInv
<1>10. NoDanglingPointers'
    <2>1. ASSUME NEW c \in Contexts, NEW o \in Objects, slot'[c][o] # None
          PROVE  nativeCount'[slot'[c][o]] > 0 /\ value'[slot'[c][o]] = o
        <3>1. /\ slot'[c][o] = slot[c][o] /\ slot[c][o] \in Tuples
              /\ ~(nativeCount[t] = 1 /\ slot[c][o] = t)
              /\ nativeCount[slot[c][o]] > 0 /\ value[slot[c][o]] = o
            BY <1>2, <2>1 DEF NoDanglingPointers
        <3>2. QED
            BY <3>1, <1>1, <1>2
    <2>2. ASSUME NEW v \in GoValues, info[v] # None
          PROVE  v \in heap /\ nativeCount'[info[v]] > 0 /\ internal[info[v]] = v
        BY <2>2, <1>1, <1>2, <1>4 DEF NoDanglingPointers
    <2>3. ASSUME NEW u \in Tuples, nativeCount'[u] > 0, internal[u] # None
          PROVE  internal[u] \in heap /\ info[internal[u]] = u
        BY <2>3, <1>1, <1>2 DEF NoDanglingPointers
    <2>4. QED
        BY <2>1, <2>2, <2>3 DEF NoDanglingPointers
<1>11. CountCoversHolders'
    BY <1>1, <1>2, <1>3 DEF CountCoversHolders, GoReferences, InCall
<1>12. QED
    BY <1>5, <1>6, <1>7, <1>8, <1>9, <1>10, <1>11

(* What the program forgets stays as it is until the collector comes. *)
LEMMA DropIInv ==
    ASSUME IInv, NEW v \in GoValues, Drop(v)
    PROVE  IInv'
<1> USE NoneAssumption, KindsAssumption DEF IInv, SlotsWith, AtWork, Free, TypeOK, Drop, native, Things, native, golang, calling
<1>1. TypeOK'
    BY DEF CountInv
<1>2. TupleInv'
    BY DEF TupleInv
<1>3. FinalizerInv'
    BY DEF FinalizerInv, NoDanglingPointers
<1>4. CountInv'
    BY DEF CountInv, FinalizerInv, NoDanglingPointers, CallerInv
<1>5. CallerInv'
    BY DEF CallerInv, NoDanglingPointers
<1>6. NoDanglingPointers'
    BY DEF NoDanglingPointers, TupleInv, FinalizerInv, CallerInv
<1>7. SlotInv'
    BY DEF SlotInv, TupleInv, NoDanglingPointers, CallerInv
<1>8. CountCoversHolders'
    BY DEF CountCoversHolders, GoReferences, InCall, TupleInv, CallerInv, FinalizerInv, NoDanglingPointers, CountInv
<1>9. QED
    BY <1>1, <1>2, <1>3, <1>4, <1>5, <1>6, <1>7, <1>8

(* Only garbage is queued. *)
LEMMA QueueIInv ==
    ASSUME IInv, NEW v \in GoValues, Queue(v)
    PROVE  IInv'
<1> USE NoneAssumption, KindsAssumption DEF IInv, SlotsWith, AtWork, Free, TypeOK, Queue, Garbage, native, Things, native, golang, calling
<1>1. TypeOK'
    BY DEF CountInv
<1>2. TupleInv'
    BY DEF TupleInv
<1>3. FinalizerInv'
    BY DEF FinalizerInv, NoDanglingPointers
<1>4. CountInv'
    BY DEF CountInv, FinalizerInv, NoDanglingPointers, CallerInv
<1>5. CallerInv'
    BY DEF CallerInv, NoDanglingPointers
<1>6. NoDanglingPointers'
    BY DEF NoDanglingPointers, TupleInv, FinalizerInv, CallerInv
<1>7. SlotInv'
    BY DEF SlotInv, TupleInv, NoDanglingPointers, CallerInv
<1>8. CountCoversHolders'
    BY DEF CountCoversHolders, GoReferences, InCall, TupleInv, CallerInv, FinalizerInv, NoDanglingPointers, CountInv
<1>9. QED
    BY <1>1, <1>2, <1>3, <1>4, <1>5, <1>6, <1>7, <1>8

(* Only garbage without a finalizer, and so without a tuple, leaves memory. *)
LEMMA SweepIInv ==
    ASSUME IInv, NEW v \in GoValues, Sweep(v)
    PROVE  IInv'
<1> USE NoneAssumption, KindsAssumption DEF IInv, SlotsWith, AtWork, Free, TypeOK, Sweep, Garbage, native, Things, native, golang, calling
<1>1. TypeOK'
    BY DEF CountInv
<1>2. TupleInv'
    BY DEF TupleInv
<1>3. FinalizerInv'
    BY DEF FinalizerInv, NoDanglingPointers
<1>4. CountInv'
    BY DEF CountInv, FinalizerInv, NoDanglingPointers, CallerInv
<1>5. CallerInv'
    BY DEF CallerInv, NoDanglingPointers
<1>6. NoDanglingPointers'
    BY DEF NoDanglingPointers, TupleInv, FinalizerInv, CallerInv
<1>7. SlotInv'
    BY DEF SlotInv, TupleInv, NoDanglingPointers, CallerInv
<1>8. CountCoversHolders'
    BY DEF CountCoversHolders, GoReferences, InCall, TupleInv, CallerInv, FinalizerInv, NoDanglingPointers, CountInv
<1>9. QED
    BY <1>1, <1>2, <1>3, <1>4, <1>5, <1>6, <1>7, <1>8

(* The finalizer may begin for a Value that came back to the program. *)
LEMMA BeginFinalizerIInv ==
    ASSUME IInv, NEW v \in GoValues, BeginFinalizer(v)
    PROVE  IInv'
<1> USE NoneAssumption, KindsAssumption DEF IInv, SlotsWith, AtWork, Free, TypeOK, BeginFinalizer, native, Things, native, golang, calling
<1>1. TypeOK'
    BY DEF CountInv
<1>2. TupleInv'
    BY DEF TupleInv
<1>3. FinalizerInv'
    BY DEF FinalizerInv, NoDanglingPointers
<1>4. CountInv'
    BY DEF CountInv, FinalizerInv, NoDanglingPointers, CallerInv
<1>5. CallerInv'
    BY DEF CallerInv, NoDanglingPointers
<1>6. NoDanglingPointers'
    BY DEF NoDanglingPointers, TupleInv, FinalizerInv, CallerInv
<1>7. SlotInv'
    BY DEF SlotInv, TupleInv, NoDanglingPointers, CallerInv
<1>8. CountCoversHolders'
    BY DEF CountCoversHolders, GoReferences, InCall, TupleInv, CallerInv, FinalizerInv, NoDanglingPointers, CountInv
<1>9. QED
    BY <1>1, <1>2, <1>3, <1>4, <1>5, <1>6, <1>7, <1>8

(* The last count is taken from garbage only, since what came back is counted twice. *)
LEMMA CountDownIInv ==
    ASSUME IInv, NEW v \in GoValues, CountDown(v)
    PROVE  IInv'
<1> USE NoneAssumption, KindsAssumption DEF IInv, SlotsWith, AtWork, Free, TypeOK, CountDown, native, Things, native, golang, calling
<1>1. TypeOK'
    BY DEF CountInv
<1>2. TupleInv'
    BY DEF TupleInv
<1>3. FinalizerInv'
    BY DEF FinalizerInv, NoDanglingPointers
<1>4. CountInv'
    BY DEF CountInv, FinalizerInv, NoDanglingPointers, CallerInv
<1>5. CallerInv'
    BY DEF CallerInv, NoDanglingPointers
<1>6. NoDanglingPointers'
    BY DEF NoDanglingPointers, TupleInv, FinalizerInv, CallerInv
<1>7. SlotInv'
    BY DEF SlotInv, TupleInv, NoDanglingPointers, CallerInv
<1>8. CountCoversHolders'
    BY DEF CountCoversHolders, GoReferences, InCall, TupleInv, CallerInv, FinalizerInv, NoDanglingPointers, CountInv
<1>9. QED
    BY <1>1, <1>2, <1>3, <1>4, <1>5, <1>6, <1>7, <1>8

(* The tuple forgets the Value before it is released, and the slot of its object is emptied
   when it is deleted. *)
LEMMA GiveUpIInv ==
    ASSUME IInv, NEW v \in GoValues, GiveUp(v)
    PROVE  IInv'
<1> USE NoneAssumption, KindsAssumption DEF IInv, TypeOK, GiveUp, calling
<1> DEFINE t == info[v]
<1>0. t \in Tuples /\ nativeCount[t] > 0 /\ internal[t] = v /\ v \in heap
    BY DEF FinalizerInv, NoDanglingPointers
<1> HIDE DEF t
<1>1. Released(t, scope[t])
    BY DEF t
<1>2. /\ nativeCount' \in [Tuples -> Nat] /\ nativeCount'[t] = nativeCount[t] - 1
      /\ \A u \in Tuples \ {t} : nativeCount'[u] = nativeCount[u] /\ value'[u] = value[u] /\ scope'[u] = scope[u]
      /\ value' \in [Tuples -> Things \cup {None}] /\ scope' \in [Tuples -> Contexts \cup {None}]
      /\ slot' \in [Contexts -> [Objects -> Tuples \cup {None}]]
      /\ nativeCount[t] = 1 => value'[t] = None /\ scope'[t] = None
      /\ nativeCount[t] > 1 => value'[t] = value[t] /\ scope'[t] = scope[t]
      /\ \A c \in Contexts : \A o \in Objects :
            slot'[c][o] = IF nativeCount[t] = 1 /\ slot[c][o] = t THEN None ELSE slot[c][o]
    BY <1>0, <1>1, ReleasedStep
<1>3. /\ internal'[t] = None /\ \A u \in Tuples \ {t} : internal'[u] = internal[u]
      /\ info'[v] = None /\ \A w \in GoValues \ {v} : info'[w] = info[w]
      /\ finalizer'[v] = "none" /\ \A w \in GoValues \ {v} : finalizer'[w] = finalizer[w]
      /\ info' \in [GoValues -> Tuples \cup {None}] /\ internal' \in [Tuples -> GoValues \cup {None}]
      /\ finalizer' \in [GoValues -> {"none", "armed", "queued", "counting", "giving"}]
    BY <1>0 DEF t
<1>4. /\ results[t] < nativeCount[t]
      /\ held = t /\ caller \in {"look", "resurrect", "create"} => results[t] + 1 < nativeCount[t]
    BY <1>0, Covered
<1>5. TypeOK'
    BY <1>2, <1>3
<1>6. TupleInv'
    <2> SUFFICES ASSUME NEW u \in Tuples
                 PROVE  /\ nativeCount'[u] = 0 => value'[u] = None /\ scope'[u] = None /\ results'[u] = 0
                        /\ nativeCount'[u] > 0 => value'[u] \in Things /\ scope'[u] \in Contexts
                        /\ value'[u] \in Objects => slot'[scope'[u]][value'[u]] = u
        BY DEF TupleInv
    <2>1. CASE u = t /\ nativeCount[t] = 1
        <3>1. value'[u] \notin Objects
            BY <2>1, <1>2 DEF Things
        <3>2. QED
            BY <2>1, <3>1, <1>0, <1>2, <1>3, <1>4
    <2>2. CASE ~(u = t /\ nativeCount[t] = 1)
        <3>1. value'[u] = value[u] /\ scope'[u] = scope[u]
            BY <2>2, <1>0, <1>2
        <3>2. /\ nativeCount'[u] = 0 <=> nativeCount[u] = 0
              /\ nativeCount[u] = 0 => results'[u] = 0
            BY <2>2, <1>0, <1>2, <1>3 DEF TupleInv
        <3>3. /\ nativeCount[u] > 0 => value[u] \in Things /\ scope[u] \in Contexts
              /\ nativeCount[u] = 0 => value[u] = None /\ scope[u] = None
            BY DEF TupleInv
        <3>4. value[u] \in Objects => nativeCount[u] > 0 /\ slot[scope[u]][value[u]] = u
            BY <3>3 DEF TupleInv, Things
        <3>5. value[u] \in Objects => slot'[scope[u]][value[u]] = u
            BY <2>2, <3>3, <3>4, <1>2
        <3>6. QED
            BY <3>1, <3>2, <3>3, <3>5, <1>2
    <2>3. QED
        BY <2>1, <2>2
<1>7. SlotInv'
    <2> SUFFICES ASSUME NEW c \in Contexts, NEW o \in Objects, slot'[c][o] # None
                 PROVE  scope'[slot'[c][o]] = c
        BY DEF SlotInv
    <2>1. /\ slot'[c][o] = slot[c][o] /\ slot[c][o] \in Tuples /\ scope[slot[c][o]] = c
          /\ ~(nativeCount[t] = 1 /\ slot[c][o] = t)
        BY <1>2 DEF SlotInv
    <2>2. QED
        BY <2>1, <1>2, <1>0
<1>8. FinalizerInv' /\ CountInv'
    BY <1>3 DEF FinalizerInv, CountInv
<1>9. CallerInv'
    <2>1. caller \in {"look", "resurrect", "create"} => nativeCount'[held] > 0
        BY <1>0, <1>2, <1>4 DEF CallerInv
    <2>2. CASE caller = "using" /\ "dropInUse" \notin Usage
        <3>1. held \in Tuples /\ seen \in reachable
            BY <2>2 DEF CallerInv
        <3>2. CASE seen = v
            <4>1. CASE held = t
                <5>1. GoReferences(t) = 2
                    BY <1>0, <3>1, <3>2 DEF GoReferences
                <5>2. nativeCount[t] >= results[t] + InCall(t) + 2 /\ InCall(t) = 0
                    BY <1>0, <2>2, <5>1 DEF CountCoversHolders, InCall
                <5>3. nativeCount'[t] > results'[t]
                    BY <1>0, <1>2, <5>2
                <5>4. QED
                    BY <4>1, <5>3, <1>3, <2>2, <3>1 DEF CallerInv
            <4>2. CASE held # t
                BY <4>2, <3>1, <3>2, <2>2, <1>2, <1>3 DEF CallerInv, t
            <4>3. QED
                BY <4>1, <4>2
        <3>3. CASE seen # v
            <4>1. info[seen] = held => held # t
                BY <3>3, <1>0, <3>1 DEF NoDanglingPointers
            <4>2. info[seen] # held => held # t
                BY <1>0, <2>2 DEF CallerInv
            <4>3. QED
                BY <4>1, <4>2, <3>1, <3>3, <2>2, <1>2, <1>3 DEF CallerInv
        <3>4. QED
            BY <3>2, <3>3
    <2>3. QED
        BY <2>1, <2>2, <1>0, <1>3 DEF CallerInv
<1>10. NoDanglingPointers'
    BY <1>0, <1>2, <1>3 DEF NoDanglingPointers, t
<1>11. CountCoversHolders'
    <2> SUFFICES ASSUME NEW u \in Tuples, nativeCount'[u] > 0
                 PROVE  nativeCount'[u] >= results[u] + InCall(u) + GoReferences(u)'
        BY DEF CountCoversHolders, InCall
    <2>1. CASE u = t
        <3>1. GoReferences(u)' = 0
            BY <2>1, <1>3 DEF GoReferences
        <3>2. QED
            BY <2>1, <3>1, <1>0, <1>2, <1>4 DEF InCall
    <2>2. CASE u # t
        <3>1. internal[u] # v
            BY <2>2, <1>0, <1>2 DEF NoDanglingPointers, t
        <3>2. GoReferences(u)' = GoReferences(u)
            BY <2>2, <3>1, <1>3 DEF GoReferences
        <3>3. QED
            BY <2>2, <3>2, <1>2 DEF CountCoversHolders, InCall
    <2>3. QED
        BY <2>1, <2>2
<1>12. QED
    BY <1>5, <1>6, <1>7, <1>8, <1>9, <1>10, <1>11

-----------------------------------------------------------------------------
(* Theorems *)

(* Without any tuples and Values the invariant holds. *)
LEMMA InitIInv == Init => IInv
<1> SUFFICES ASSUME Init PROVE IInv
    OBVIOUS
<1>1. TypeOK
    BY DEF Init, TypeOK
<1>2. TupleInv /\ SlotInv /\ FinalizerInv /\ CountInv /\ CallerInv
    BY NoneAssumption DEF Init, TupleInv, SlotInv, FinalizerInv, CountInv, CallerInv, Things
<1>3. NoDanglingPointers /\ CountCoversHolders
    BY DEF Init, NoDanglingPointers, CountCoversHolders
<1>4. QED
    BY <1>1, <1>2, <1>3 DEF IInv

(* Every step keeps it. *)
LEMMA NextIInv ==
    ASSUME "crossResult" \notin Usage
    PROVE  IInv /\ [Next]_vars => IInv'
<1> SUFFICES ASSUME IInv, [Next]_vars PROVE IInv'
    OBVIOUS
<1>1. CASE UNCHANGED vars
    BY <1>1 DEF vars, native, golang, calling, IInv, TypeOK, TupleInv, SlotInv, FinalizerInv, CountInv, CallerInv,
        NoDanglingPointers, CountCoversHolders, GoReferences, InCall
<1>2. CASE Next
    <2>1. CASE Proceed
        BY <2>1, LookIInv, ResurrectIInv, ResurrectNothingIInv, CreateIInv, EndUseIInv, TakeResultIInv DEF Proceed
    <2>2. CASE Begin
        BY <2>2, ReturnKnownIInv, ReturnNewIInv, BeginUseIInv, CallbackResultIInv DEF Begin
    <2>3. ASSUME NEW v \in GoValues, Drop(v) \/ Collect(v) \/ Finalize(v) PROVE IInv'
        BY <2>3, DropIInv, QueueIInv, SweepIInv, BeginFinalizerIInv, CountDownIInv, GiveUpIInv
           DEF Collect, Finalize
    <2>4. QED
        BY <1>2, <2>1, <2>2, <2>3 DEF Next
<1>3. QED
    BY <1>1, <1>2

(* So it always holds. *)
LEMMA Invariance == ASSUME "crossResult" \notin Usage PROVE Spec => []IInv
BY InitIInv, NextIInv, PTL DEF Spec

(***************************************************************************)
(* The pointers between JavaScript's memory and Go's never dangle, with    *)
(* any number of contexts, objects, tuples and Values, also when           *)
(* finalizers run in between the steps of a call and race with it for a    *)
(* count, and Values are dropped while in use.                             *)
(***************************************************************************)
THEOREM PointersDoNotDangle ==
    ASSUME "crossResult" \notin Usage
    PROVE  Spec => []NoDanglingPointers
<1>1. IInv => NoDanglingPointers
    BY DEF IInv
<1>2. QED
    BY <1>1, Invariance, PTL

(***************************************************************************)
(* The count of a tuple is never below the number of its holders, so that  *)
(* the first of them to release it does not delete it under the others.    *)
(***************************************************************************)
THEOREM HoldersAreCounted ==
    ASSUME "crossResult" \notin Usage
    PROVE  Spec => []CountCoversHolders
<1>1. IInv => CountCoversHolders
    BY DEF IInv
<1>2. QED
    BY <1>1, Invariance, PTL

(***************************************************************************)
(* release does not panic: every finalizer that is armed, also the one of  *)
(* a Value that was counted up while it was counted down, has its tuple.   *)
(***************************************************************************)
THEOREM NothingIsOverreleased ==
    ASSUME "crossResult" \notin Usage
    PROVE  Spec => []NoOverrelease
<1>1. IInv => NoOverrelease
    BY DEF IInv, FinalizerInv, NoOverrelease
<1>2. QED
    BY <1>1, Invariance, PTL

(***************************************************************************)
(* An object has one Value with a tuple in each context: its slot names    *)
(* one tuple, which names one Value.                                       *)
(***************************************************************************)
THEOREM ObjectsHaveOneValue ==
    ASSUME "crossResult" \notin Usage
    PROVE  Spec => []OneValuePerObject
<1>1. ASSUME IInv PROVE OneValuePerObject
    <2> SUFFICES ASSUME NEW v \in GoValues, NEW w \in GoValues, info[v] # None, info[w] # None, v # w,
                        value[info[v]] = value[info[w]], scope[info[v]] = scope[info[w]]
                 PROVE  value[info[v]] \in Primitives
        BY DEF OneValuePerObject
    <2>1. /\ info[v] \in Tuples /\ nativeCount[info[v]] > 0 /\ internal[info[v]] = v
          /\ info[w] \in Tuples /\ internal[info[w]] = w
        BY <1>1 DEF IInv, TypeOK, NoDanglingPointers
    <2>2. value[info[v]] \in Things
        BY <1>1, <2>1 DEF IInv, TupleInv
    <2>3. value[info[v]] \in Objects => info[v] = info[w]
        BY <1>1, <2>1 DEF IInv, TupleInv
    <2>4. QED
        BY <2>1, <2>2, <2>3 DEF Things
<1>2. QED
    BY <1>1, Invariance, PTL

(***************************************************************************)
(* Provided that the program keeps what it passes to a native call until   *)
(* it returns, native code reads no tuple that was deleted.                *)
(***************************************************************************)
THEOREM TuplesAreReadAlive ==
    ASSUME "crossResult" \notin Usage, "dropInUse" \notin Usage
    PROVE  Spec => []NoUseAfterFree
<1>1. ASSUME IInv PROVE NoUseAfterFree
    <2>1. \A t \in Tuples : results[t] > 0 => nativeCount[t] > 0
        BY <1>1 DEF IInv, TypeOK, TupleInv
    <2>2. ASSUME held # None PROVE nativeCount[held] > 0
        <3>1. CASE caller \in {"look", "resurrect", "create"}
            BY <1>1, <3>1 DEF IInv, CallerInv
        <3>2. CASE caller = "using"
            BY <1>1, <2>2, <3>2 DEF IInv, TypeOK, CallerInv, NoDanglingPointers
        <3>3. QED
            BY <1>1, <2>2, <3>1, <3>2 DEF IInv, TypeOK, CallerInv
    <2>3. QED
        BY <2>1, <2>2 DEF NoUseAfterFree
<1>2. QED
    BY <1>1, Invariance, PTL

(***************************************************************************)
(* Counts stay numbers, slots and pointers name what exists, in any number. *)
(***************************************************************************)
THEOREM TypeCorrect ==
    ASSUME "crossResult" \notin Usage
    PROVE  Spec => []TypeOK
<1>1. IInv => TypeOK
    BY DEF IInv
<1>2. QED
    BY <1>1, Invariance, PTL

-----------------------------------------------------------------------------
(* Without finalizers that join *)

(* A finalizer has the isolate for itself, and what it gives up is garbage. *)
LiveInv ==
    /\ (\E v \in GoValues : AtWork(v)) => caller = "idle"
    /\ \A v \in GoValues : finalizer[v] = "giving" => v \notin reachable
    /\ caller = "resurrect" => info[seen] # None
    /\ ReachableIsLive

(* What is counted twice is not given up, and nobody is given what is. *)
LEMMA NextLiveInv ==
    ASSUME "join" \notin Usage
    PROVE  IInv /\ LiveInv /\ [Next]_vars => LiveInv'
<1> SUFFICES ASSUME IInv, LiveInv, [Next]_vars PROVE LiveInv'
    OBVIOUS
<1> USE NoneAssumption DEF LiveInv, ReachableIsLive, AtWork, CallerIs, native, golang, calling
<1>1. CASE UNCHANGED vars
    BY <1>1 DEF vars
<1>2. CASE Proceed
    <2>1. CASE Look
        BY <2>1 DEF Look, IInv, TypeOK, NoDanglingPointers, CallerInv
    <2>2. CASE Resurrect
        <3>1. \A v \in GoValues : finalizer[v] \notin {"counting", "giving"}
            BY <2>2 DEF Resurrect
        <3>2. seen \in GoValues
            BY <2>2 DEF Resurrect, IInv, TypeOK, CallerInv
        <3>3. UNCHANGED finalizer
            BY <2>2, <3>1, <3>2 DEF Resurrect, CountersRace
        <3>4. QED
            BY <2>2, <3>1, <3>3 DEF Resurrect
    <2>3. CASE ResurrectNothing
        BY <2>3 DEF ResurrectNothing
    <2>4. CASE Create
        BY <2>4 DEF Create, IInv, TypeOK, CallerInv
    <2>5. CASE EndUse
        BY <2>5 DEF EndUse
    <2>6. ASSUME NEW t \in Tuples, TakeResult(t) PROVE LiveInv'
        BY <2>6 DEF TakeResult
    <2>7. QED
        BY <1>2, <2>1, <2>2, <2>3, <2>4, <2>5, <2>6 DEF Proceed
<1>3. CASE Begin
    BY <1>3 DEF Begin, ReturnKnown, ReturnNew, BeginUse, CallbackResult, Free
<1>4. ASSUME NEW v \in GoValues, Drop(v) \/ Collect(v) \/ Finalize(v) PROVE LiveInv'
    <2>1. CASE Drop(v)
        BY <2>1 DEF Drop
    <2>2. CASE Queue(v) \/ Sweep(v)
        BY <2>2 DEF Queue, Sweep, IInv, TypeOK
    <2>3. CASE BeginFinalizer(v)
        BY <2>3 DEF BeginFinalizer, IInv, TypeOK
    <2>4. CASE CountDown(v)
        BY <2>4 DEF CountDown, IInv, TypeOK, CountInv
    <2>5. CASE GiveUp(v)
        BY <2>5 DEF GiveUp, IInv, TypeOK
    <2>6. QED
        BY <1>4, <2>1, <2>2, <2>3, <2>4, <2>5 DEF Collect, Finalize
<1>5. QED
    BY <1>1, <1>2, <1>3, <1>4 DEF Next

(***************************************************************************)
(* Where finalizers wait for the isolate instead of joining the session    *)
(* that they find, what the Go program can name has its tuple: a Value     *)
(* that was queued and is returned again is not given up.  (Where they     *)
(* join, newValue and release race, and the program may be given a Value   *)
(* that is given up at once: then only the theorems above are left.)       *)
(***************************************************************************)
THEOREM ReachableStaysLive ==
    ASSUME "crossResult" \notin Usage, "join" \notin Usage
    PROVE  Spec => []ReachableIsLive
<1>1. Init => LiveInv
    BY DEF Init, LiveInv, ReachableIsLive, AtWork
<1>2. IInv /\ LiveInv /\ [Next]_vars => LiveInv'
    BY NextLiveInv
<1>3. LiveInv => ReachableIsLive
    BY DEF LiveInv
<1>4. QED
    BY <1>1, <1>2, <1>3, Invariance, PTL DEF Spec
=============================================================================
