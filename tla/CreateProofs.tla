----------------------------- MODULE CreateProofs -----------------------------
(***************************************************************************)
(* What receivers remembers is true, for every program: any number of      *)
(* goroutines that join, any types and nested calls.  The proof needs the  *)
(* types of what the calls in progress hold, since SetReceiver is called   *)
(* with the object and the wrapper of a call that began long before.       *)
(***************************************************************************)
EXTENDS Create, TLAPS, WellFoundedInduction

Results == Handles \cup Templates \cup {None, Failed}

(* A call in progress, with what is known of it at each point. *)
FrameRecords ==
    [op : {"create", "prototype", "constructor", "new", "use"},
     pc : {"lookup", "error", "instance", "receive", "user", "base", "end", "function"},
     of : Objects \cup Types \cup Handles, shared : BOOLEAN, made : Results, bases : Seq(Results)]

Sound(f) ==
    /\ f.op = "create" => f.of \in Objects /\ (f.pc \in {"receive", "user"} => f.made \in Handles)
    /\ f.op \in {"prototype", "constructor"} => f.of \in Types
    /\ f.op = "use" => f.of \in Handles
    /\ f.op = "prototype" /\ f.pc = "base" => Len(f.bases) < Len(Bases[f.of])

Frames == {f \in FrameRecords : Sound(f)}

Typed ==
    /\ receivers \in [Addresses -> Handles \cup {None}]
    /\ receiver \in [Handles -> Objects \cup {None}]
    /\ prototypes \in [Types -> Results]
    /\ constructors \in [Types -> Results]
    /\ stack \in [Goroutines -> Seq(Frames)]
    /\ answer \in [Goroutines -> Results]

IInv == Typed /\ ReceiversAgree

(* All but jammed, which only holds steps up. *)
rest == <<links, class, classes, stack, answer, history>>

(* A step is one of the program, or only jams. *)
LEMMA NextMoves ==
    ASSUME [Next]_vars
    PROVE  UNCHANGED rest \/ \E g \in Goroutines : Start(g) \/ Step(g)
    BY DEF Next, LookupPanics, vars, rest

-----------------------------------------------------------------------------
(* Stacks *)

(* The running call is a frame, and what is below it is a stack. *)
LEMMA TopIsFrame ==
    ASSUME Typed, NEW g \in Goroutines, stack[g] # <<>>
    PROVE  Top(g) \in Frames /\ Tail(stack[g]) \in Seq(Frames)
<1>1. stack[g] \in Seq(Frames)
    BY DEF Typed
<1>2. QED
    BY <1>1 DEF Top

(* A call put above a stack of calls makes a stack of calls. *)
LEMMA PushTyped ==
    ASSUME NEW s \in Seq(Frames), NEW f \in Frames
    PROVE  <<f>> \o s \in Seq(Frames)
OBVIOUS

(* A call that moves to its next point keeps the stacks typed. *)
LEMMA ContinueTyped ==
    ASSUME Typed, NEW g \in Goroutines, stack[g] # <<>>, NEW f \in Frames, Continue(g, f)
    PROVE  stack' \in [Goroutines -> Seq(Frames)]
<1>1. <<f>> \o Tail(stack[g]) \in Seq(Frames)
    BY TopIsFrame, PushTyped
<1>2. QED
    BY <1>1 DEF Continue, Typed

(* A call that makes another keeps the stacks typed. *)
LEMMA InvokeTyped ==
    ASSUME Typed, NEW g \in Goroutines, stack[g] # <<>>,
           NEW f \in Frames, NEW c \in Frames, Invoke(g, f, c)
    PROVE  stack' \in [Goroutines -> Seq(Frames)]
<1>1. Tail(stack[g]) \in Seq(Frames)
    BY TopIsFrame
<1>2. <<c, f>> \o Tail(stack[g]) \in Seq(Frames)
    BY <1>1
<1>3. QED
    BY <1>2 DEF Invoke, Typed

(* A call that returns keeps the stacks typed, and so the answers. *)
LEMMA ReturnTyped ==
    ASSUME Typed, NEW g \in Goroutines, stack[g] # <<>>, NEW r \in Results, Return(g, r)
    PROVE  /\ stack' \in [Goroutines -> Seq(Frames)]
           /\ answer' \in [Goroutines -> Results]
<1>1. Tail(stack[g]) \in Seq(Frames)
    BY TopIsFrame
<1>2. stack' \in [Goroutines -> Seq(Frames)]
    BY <1>1 DEF Return, Typed
<1>3. \E b \in {r, None} : answer' = [answer EXCEPT ![g] = b]
    BY DEF Return
<1>4. answer' \in [Goroutines -> Results]
    BY <1>3 DEF Typed, Results
<1>5. QED
    BY <1>2, <1>4

(* A new call is sound when its subject is. *)
LEMMA CallIsFrame ==
    ASSUME NEW subject \in Objects \cup Types \cup Handles, NEW shared \in BOOLEAN,
           NEW op \in {"create", "prototype", "constructor", "new", "use"}, NEW pc \in {"lookup", "user"},
           op = "create" => subject \in Objects /\ pc = "lookup",
           op \in {"prototype", "constructor"} => subject \in Types,
           op = "use" => subject \in Handles
    PROVE  Call(op, pc, subject, shared) \in Frames
BY DEF Call, Frames, FrameRecords, Sound, Results

-----------------------------------------------------------------------------
(* Receivers *)

(* Attaching an object to a wrapper keeps all entries of receivers true. *)
LEMMA SetReceiverAgrees ==
    ASSUME Typed, ReceiversAgree, NEW h \in Handles, NEW o \in Objects, SetReceiver(h, o)
    PROVE  /\ receivers' \in [Addresses -> Handles \cup {None}]
           /\ receiver' \in [Handles -> Objects \cup {None}]
           /\ ReceiversAgree'
<1> DEFINE replaced == {AddressOf[p] : p \in {receiver[h]} \ {None}}
<1>1. /\ receivers' = [a \in Addresses |-> IF a = AddressOf[o] THEN h
                                          ELSE IF a \in replaced THEN None ELSE receivers[a]]
      /\ receiver' = [receiver EXCEPT ![h] = o]
    BY DEF SetReceiver
<1>2. receivers' \in [Addresses -> Handles \cup {None}]
    BY <1>1 DEF Typed
<1>3. receiver' \in [Handles -> Objects \cup {None}]
    BY <1>1 DEF Typed
<1>4. ASSUME NEW a \in Addresses, receivers'[a] # None
      PROVE  \E p \in Objects : AddressOf[p] = a /\ receiver'[receivers'[a]] = p
    <2>1. CASE a = AddressOf[o]
        BY <1>1, <2>1 DEF Typed
    <2>2. CASE a # AddressOf[o]
        <3>1. a \notin replaced /\ receivers'[a] = receivers[a]
            BY <1>1, <1>4, <2>2
        <3>2. PICK p \in Objects : AddressOf[p] = a /\ receiver[receivers[a]] = p
            BY <1>4, <3>1 DEF ReceiversAgree
        <3>3. p # None
            BY NoneAssumption
        <3>4. receivers[a] # h
            BY <3>1, <3>2, <3>3
        <3>5. receivers[a] \in Handles
            BY <1>4, <3>1 DEF Typed
        <3>6. receiver'[receivers[a]] = p
            BY <1>1, <3>2, <3>4, <3>5 DEF Typed
        <3>7. QED
            BY <3>1, <3>2, <3>6
    <2>3. QED
        BY <2>1, <2>2
<1>5. QED
    BY <1>2, <1>3, <1>4 DEF ReceiversAgree

(* A wrapper that loses its receiver keeps all entries of receivers true. *)
LEMMA ClearReceiverAgrees ==
    ASSUME Typed, ReceiversAgree, NEW h \in Handles, ClearReceiver(h)
    PROVE  /\ receivers' \in [Addresses -> Handles \cup {None}]
           /\ receiver' \in [Handles -> Objects \cup {None}]
           /\ ReceiversAgree'
<1>1. /\ receivers' = [a \in Addresses |->
                          IF \E p \in {receiver[h]} \ {None} : AddressOf[p] = a
                          THEN None ELSE receivers[a]]
      /\ receiver' = [receiver EXCEPT ![h] = None]
    BY DEF ClearReceiver
<1>2. /\ receivers' \in [Addresses -> Handles \cup {None}]
      /\ receiver' \in [Handles -> Objects \cup {None}]
    BY <1>1 DEF Typed
<1>3. ASSUME NEW a \in Addresses, receivers'[a] # None
      PROVE  \E p \in Objects : AddressOf[p] = a /\ receiver'[receivers'[a]] = p
    <2>1. /\ receivers'[a] = receivers[a]
          /\ ~\E p \in {receiver[h]} \ {None} : AddressOf[p] = a
        BY <1>1, <1>3
    <2>2. PICK p \in Objects : AddressOf[p] = a /\ receiver[receivers[a]] = p
        BY <1>3, <2>1 DEF ReceiversAgree
    <2>3. p # None
        BY NoneAssumption
    <2>4. receivers[a] # h
        BY <2>1, <2>2, <2>3
    <2>5. receivers[a] \in Handles
        BY <1>3, <2>1 DEF Typed
    <2>6. receiver'[receivers[a]] = p
        BY <1>1, <2>2, <2>4, <2>5 DEF Typed
    <2>7. QED
        BY <2>1, <2>2, <2>6
<1>4. QED
    BY <1>2, <1>3 DEF ReceiversAgree

(* A step that leaves receivers and classes alone only has to keep the calls typed. *)
LEMMA LinksStay ==
    ASSUME IInv, UNCHANGED links, UNCHANGED <<prototypes, constructors>>,
           stack' \in [Goroutines -> Seq(Frames)], answer' \in [Goroutines -> Results]
    PROVE  IInv'
BY DEF IInv, Typed, ReceiversAgree, links

-----------------------------------------------------------------------------
(* Steps *)

(* Without entries, classes or calls the invariant holds. *)
LEMMA InitIInv == Init => IInv
<1> SUFFICES ASSUME Init PROVE IInv
    OBVIOUS
<1>1. None \in Results
    BY DEF Results
<1>2. Typed
    BY <1>1 DEF Init, Typed
<1>3. ReceiversAgree
    BY DEF Init, ReceiversAgree
<1>4. QED
    BY <1>2, <1>3 DEF IInv

(* A call that begins above the others keeps the invariant. *)
LEMMA BeginIInv ==
    ASSUME IInv, NEW g \in Goroutines, NEW c \in Frames, Begin(g, c)
    PROVE  IInv'
<1>1. stack' = [stack EXCEPT ![g] = <<c>> \o @] /\ UNCHANGED <<links, classes, answer>>
    BY DEF Begin
<1>2. <<c>> \o stack[g] \in Seq(Frames)
    BY PushTyped DEF IInv, Typed
<1>3. stack' \in [Goroutines -> Seq(Frames)]
    BY <1>1, <1>2 DEF IInv, Typed
<1>4. QED
    BY <1>1, <1>3, LinksStay DEF classes, IInv, Typed

(* So does Value.New, which makes the object its V8Construct is called with. *)
LEMMA BeginNewIInv ==
    ASSUME IInv, NEW g \in Goroutines, NEW t \in Templates, BeginNew(g, t)
    PROVE  IInv'
<1>1. NewHandle \in Handles
    BY DEF BeginNew, HandleLeft, NewHandle
<1>2. CASE Begin(g, Call("new", "user", NewHandle, TRUE))
    BY <1>1, <1>2, BeginIInv, CallIsFrame
<1>3. CASE UNCHANGED <<links, classes, stack, answer>>
    BY <1>3, LinksStay DEF classes, IInv, Typed
<1>4. QED
    BY <1>2, <1>3 DEF BeginNew

(* The lookup of create answers a wrapper or goes on with the error or the prototype. *)
LEMMA LookupIInv ==
    ASSUME IInv, NEW g \in Goroutines, Lookup(g)
    PROVE  IInv'
<1> DEFINE call == Top(g)
           known == receivers[AddressOf[call.of]]
<1>1. stack[g] # <<>> /\ call.op = "create" /\ call.pc = "lookup"
    BY DEF Lookup, AtStep
<1>2. call \in Frames /\ Typed
    BY <1>1, TopIsFrame DEF IInv
<1>3. call.of \in Objects
    BY <1>1, <1>2 DEF Frames, Sound
<1>4. known \in Handles \cup {None}
    BY <1>2, <1>3, ObjectsAssumption DEF Typed
<1>5. UNCHANGED links /\ UNCHANGED <<prototypes, constructors>>
    BY DEF Lookup, classes
<1>6. CASE known # None /\ AnswerCreate(g, call.of, known)
    BY <1>1, <1>2, <1>4, <1>5, <1>6, ReturnTyped, LinksStay DEF AnswerCreate, Results
<1>7. CASE Continue(g, [call EXCEPT !.pc = "error"]) /\ UNCHANGED answer
    <2>1. [call EXCEPT !.pc = "error"] \in Frames
        BY <1>1, <1>2 DEF Frames, FrameRecords, Sound
    <2>2. QED
        BY <1>1, <1>2, <1>5, <1>7, <2>1, ContinueTyped, LinksStay DEF Typed
<1>8. CASE /\ TypeOf[call.of] # ErrorType /\ UNCHANGED answer
           /\ Invoke(g, [call EXCEPT !.pc = "instance"], Call("prototype", "lookup", TypeOf[call.of], TRUE))
    <2>1. [call EXCEPT !.pc = "instance"] \in Frames
        BY <1>1, <1>2 DEF Frames, FrameRecords, Sound
    <2>2. TypeOf[call.of] \in Types
        BY <1>3, <1>8, ObjectsAssumption
    <2>3. Call("prototype", "lookup", TypeOf[call.of], TRUE) \in Frames
        BY <2>2, CallIsFrame
    <2>4. QED
        BY <1>1, <1>2, <1>5, <1>8, <2>1, <2>3, InvokeTyped, LinksStay DEF Typed
<1>9. QED
    BY <1>6, <1>7, <1>8 DEF Lookup

(* The wrapper made for an error is a wrapper, so that it can be given a receiver later. *)
LEMMA MakeErrorIInv ==
    ASSUME IInv, NEW g \in Goroutines, MakeError(g)
    PROVE  IInv'
<1> DEFINE call == Top(g)
           made == [call EXCEPT !.pc = "receive", !.made = NewHandle]
<1>1. stack[g] # <<>> /\ call.op = "create"
    BY DEF MakeError, AtStep
<1>2. call \in Frames /\ Typed
    BY <1>1, TopIsFrame DEF IInv
<1>3. UNCHANGED links /\ UNCHANGED <<prototypes, constructors>>
    BY DEF MakeError, classes
<1>4. CASE Return(g, Failed)
    BY <1>1, <1>2, <1>3, <1>4, ReturnTyped, LinksStay DEF Results
<1>5. CASE HandleLeft /\ Continue(g, made) /\ UNCHANGED answer
    <2>1. NewHandle \in Handles
        BY <1>5 DEF HandleLeft, NewHandle
    <2>2. made \in Frames
        BY <1>1, <1>2, <2>1 DEF Frames, FrameRecords, Sound, Results
    <2>3. QED
        BY <1>1, <1>2, <1>3, <1>5, <2>2, ContinueTyped, LinksStay DEF Typed
<1>6. QED
    BY <1>4, <1>5 DEF MakeError

(* So is the instance made of the prototype's constructor. *)
LEMMA InstanceIInv ==
    ASSUME IInv, NEW g \in Goroutines, Instance(g)
    PROVE  IInv'
<1> DEFINE call == [Top(g) EXCEPT !.pc = "receive", !.made = NewHandle]
<1>1. stack[g] # <<>> /\ Top(g).op = "create"
    BY DEF Instance, AtStep
<1>2. Top(g) \in Frames /\ Typed
    BY <1>1, TopIsFrame DEF IInv
<1>3. UNCHANGED links /\ UNCHANGED <<prototypes, constructors>>
    BY DEF Instance
<1>4. NewHandle \in Handles
    BY DEF Instance, HandleLeft, NewHandle
<1>5. call \in Frames
    BY <1>1, <1>2, <1>4 DEF Frames, FrameRecords, Sound, Results
<1>6. answer' \in [Goroutines -> Results]
    BY <1>2 DEF Instance, Typed, Results
<1>7. CASE Invoke(g, call, Call("new", "user", NewHandle, TRUE))
    <2>1. Call("new", "user", NewHandle, TRUE) \in Frames
        BY <1>4, CallIsFrame
    <2>2. QED
        BY <1>1, <1>2, <1>3, <1>5, <1>6, <1>7, <2>1, InvokeTyped, LinksStay
<1>8. CASE Continue(g, call)
    BY <1>1, <1>2, <1>3, <1>5, <1>6, <1>8, ContinueTyped, LinksStay
<1>9. QED
    BY <1>7, <1>8 DEF Instance

(* The step for which the rest is typed: create sets the receiver of what it made. *)
LEMMA ReceiveIInv ==
    ASSUME IInv, NEW g \in Goroutines, Receive(g)
    PROVE  IInv'
<1> DEFINE made == Instantiated(g)
           call == [Top(g) EXCEPT !.made = made]
           user == [call EXCEPT !.pc = "user"]
<1>1. stack[g] # <<>> /\ Top(g).op = "create" /\ Top(g).pc = "receive"
    BY DEF Receive, AtStep
<1>2. Top(g) \in Frames /\ Typed
    BY <1>1, TopIsFrame DEF IInv
<1>3. Top(g).of \in Objects /\ made \in Handles
    BY <1>1, <1>2 DEF Frames, Sound, Instantiated
<1>4. Top(g) \in FrameRecords
    BY <1>2 DEF Frames
<1>5. call.made = made /\ call.of = Top(g).of
    BY <1>4 DEF FrameRecords
<1>6. user \in Frames
    BY <1>1, <1>2, <1>3 DEF Frames, FrameRecords, Sound, Results
<1>7. UNCHANGED <<prototypes, constructors>>
    BY DEF Receive, classes
<1>8. CASE Return(g, Failed) /\ UNCHANGED links
    BY <1>1, <1>2, <1>7, <1>8, ReturnTyped, LinksStay DEF Results
<1>9. CASE SetReceiver(made, Top(g).of)
    <2>1. /\ receivers' \in [Addresses -> Handles \cup {None}]
          /\ receiver' \in [Handles -> Objects \cup {None}]
          /\ ReceiversAgree'
        BY <1>2, <1>3, <1>9, SetReceiverAgrees DEF IInv
    <2>2. CASE Continue(g, user) /\ answer' = [answer EXCEPT ![g] = None]
        <3>1. answer' \in [Goroutines -> Results]
            BY <1>2, <2>2 DEF Typed, Results
        <3>2. QED
            BY <1>1, <1>2, <1>6, <1>7, <2>1, <2>2, <3>1, ContinueTyped DEF IInv, Typed
    <2>3. CASE AnswerCreate(g, Top(g).of, made)
        <3>1. Return(g, made) /\ made \in Results
            BY <1>3, <2>3 DEF AnswerCreate, Results
        <3>2. QED
            BY <1>1, <1>2, <1>7, <2>1, <3>1, ReturnTyped DEF IInv, Typed
    <2>4. QED
        BY <1>5, <1>8, <1>9, <2>2, <2>3 DEF Receive
<1>10. QED
    BY <1>5, <1>8, <1>9 DEF Receive

(* The end of V8Construct answers the wrapper and changes no entry. *)
LEMMA EndConstructIInv ==
    ASSUME IInv, NEW g \in Goroutines, EndConstruct(g)
    PROVE  IInv'
<1>1. stack[g] # <<>> /\ Top(g).op = "create" /\ Top(g).pc = "user"
    BY DEF EndConstruct, AtStep
<1>2. Top(g) \in Frames /\ Typed
    BY <1>1, TopIsFrame DEF IInv
<1>3. Top(g).made \in Results
    BY <1>1, <1>2 DEF Frames, Sound, Results
<1>4. Return(g, Top(g).made) /\ UNCHANGED links /\ UNCHANGED <<prototypes, constructors>>
    BY DEF EndConstruct, AnswerCreate, classes
<1>5. QED
    BY <1>1, <1>2, <1>3, <1>4, ReturnTyped, LinksStay

(* The next embedded type, if there is one, is a type, so that its prototype can be asked for. *)
LEMMA EmbedTyped ==
    ASSUME Typed, NEW g \in Goroutines, stack[g] # <<>>,
           NEW call \in FrameRecords, call.op = "prototype", call.of \in Types, Embed(g, call)
    PROVE  stack' \in [Goroutines -> Seq(Frames)]
<1> DEFINE next == Len(call.bases) + 1
           base == [call EXCEPT !.pc = "base"]
           end == [call EXCEPT !.pc = "end"]
<1>1. call.bases \in Seq(Results)
    BY DEF FrameRecords
<1>2. CASE next <= Len(Bases[call.of])
    <2>1. Bases[call.of] \in Seq(Types) /\ next \in Nat \ {0}
        BY <1>1, TypesAssumption
    <2>2. Bases[call.of][next] \in Types
        BY <1>2, <2>1
    <2>3. Call("prototype", "lookup", Bases[call.of][next], TRUE) \in Frames
        BY <2>2, CallIsFrame
    <2>4. Len(call.bases) < Len(Bases[call.of])
        BY <1>1, <1>2, <2>1
    <2>5. base \in Frames
        BY <1>1, <2>4 DEF Frames, FrameRecords, Sound
    <2>6. Invoke(g, base, Call("prototype", "lookup", Bases[call.of][next], TRUE))
        BY <1>2 DEF Embed
    <2>7. QED
        BY <2>3, <2>5, <2>6, InvokeTyped
<1>3. CASE ~(next <= Len(Bases[call.of]))
    <2>1. end \in Frames
        BY DEF Frames, FrameRecords, Sound
    <2>2. Continue(g, end)
        BY <1>3 DEF Embed
    <2>3. QED
        BY <2>1, <2>2, ContinueTyped
<1>4. QED
    BY <1>2, <1>3

(* createPrototype answers the prototype it knows or begins a template. *)
LEMMA BeginPrototypeIInv ==
    ASSUME IInv, NEW g \in Goroutines, BeginPrototype(g)
    PROVE  IInv'
<1> DEFINE call == Top(g)
           new == [call EXCEPT !.made = NewTemplate]
<1>1. stack[g] # <<>> /\ call.op = "prototype" /\ call.pc = "lookup"
    BY DEF BeginPrototype, AtStep
<1>2. call \in Frames /\ Typed
    BY <1>1, TopIsFrame DEF IInv
<1>3. call.of \in Types
    BY <1>1, <1>2 DEF Frames, Sound
<1>4. UNCHANGED links /\ UNCHANGED <<prototypes, constructors>>
    BY DEF BeginPrototype
<1>5. CASE Return(g, prototypes[call.of])
    BY <1>1, <1>2, <1>3, <1>4, <1>5, ReturnTyped, LinksStay DEF Typed
<1>6. CASE TemplateLeft /\ Embed(g, new) /\ UNCHANGED answer
    <2>1. NewTemplate \in Templates
        BY <1>6 DEF TemplateLeft, NewTemplate
    <2>2. new \in FrameRecords /\ new.op = "prototype" /\ new.of \in Types
        BY <1>1, <1>2, <1>3, <2>1 DEF Frames, FrameRecords, Results
    <2>3. QED
        BY <1>1, <1>2, <1>4, <1>6, <2>2, EmbedTyped, LinksStay DEF Typed
<1>7. QED
    BY <1>5, <1>6 DEF BeginPrototype

(* The prototype of an embedded type is taken from what is known of that type. *)
LEMMA TakeBaseIInv ==
    ASSUME IInv, NEW g \in Goroutines, TakeBase(g)
    PROVE  IInv'
<1> DEFINE call == Top(g)
           sub == Bases[call.of][Len(call.bases) + 1]
           new == [call EXCEPT !.bases = Append(@, prototypes[sub])]
<1>1. stack[g] # <<>> /\ call.op = "prototype" /\ call.pc = "base"
    BY DEF TakeBase, AtStep
<1>2. call \in Frames /\ Typed
    BY <1>1, TopIsFrame DEF IInv
<1>3. /\ call.of \in Types /\ call.bases \in Seq(Results)
      /\ Len(call.bases) < Len(Bases[call.of])
    BY <1>1, <1>2 DEF Frames, FrameRecords, Sound
<1>4. Bases[call.of] \in Seq(Types)
    BY <1>3, TypesAssumption
<1>5. sub \in Types
    BY <1>3, <1>4
<1>6. Append(call.bases, prototypes[sub]) \in Seq(Results)
    BY <1>2, <1>3, <1>5 DEF Typed
<1>7. new \in FrameRecords /\ new.of \in Types /\ new.op = "prototype"
    BY <1>1, <1>2, <1>3, <1>6 DEF Frames, FrameRecords
<1>8. Embed(g, new) /\ UNCHANGED links /\ UNCHANGED <<prototypes, constructors>>
    BY DEF TakeBase, classes
<1>9. answer' \in [Goroutines -> Results]
    BY <1>2 DEF TakeBase, Typed, Results
<1>10. QED
    BY <1>1, <1>2, <1>7, <1>8, <1>9, EmbedTyped, LinksStay

(* The finished template is stored as the type's prototype. *)
LEMMA EndPrototypeIInv ==
    ASSUME IInv, NEW g \in Goroutines, EndPrototype(g)
    PROVE  IInv'
<1> DEFINE call == Top(g)
<1>1. stack[g] # <<>>
    BY DEF EndPrototype, AtStep
<1>2. call \in Frames /\ Typed
    BY <1>1, TopIsFrame DEF IInv
<1>3. call.made \in Results
    BY <1>2 DEF Frames, FrameRecords
<1>4. Return(g, call.made) /\ UNCHANGED <<links, constructors>>
    BY DEF EndPrototype
<1>5. prototypes' \in [Types -> Results]
    BY <1>2, <1>3 DEF EndPrototype, Typed
<1>6. QED
    BY <1>1, <1>2, <1>3, <1>4, <1>5, ReturnTyped DEF IInv, Typed, ReceiversAgree, links

(* createConstructor answers the constructor it knows or asks for the prototype. *)
LEMMA LookupConstructorIInv ==
    ASSUME IInv, NEW g \in Goroutines, LookupConstructor(g)
    PROVE  IInv'
<1> DEFINE call == Top(g)
           new == [call EXCEPT !.pc = "function"]
<1>1. stack[g] # <<>> /\ call.op = "constructor" /\ call.pc = "lookup"
    BY DEF LookupConstructor, AtStep
<1>2. call \in Frames /\ Typed
    BY <1>1, TopIsFrame DEF IInv
<1>3. call.of \in Types /\ call.shared \in BOOLEAN
    BY <1>1, <1>2 DEF Frames, FrameRecords, Sound
<1>4. UNCHANGED links /\ UNCHANGED <<prototypes, constructors>>
    BY DEF LookupConstructor, classes
<1>5. CASE Return(g, constructors[call.of])
    BY <1>1, <1>2, <1>3, <1>4, <1>5, ReturnTyped, LinksStay DEF Typed
<1>6. CASE Invoke(g, new, Call("prototype", "lookup", call.of, call.shared)) /\ UNCHANGED answer
    <2>1. new \in Frames
        BY <1>1, <1>2 DEF Frames, FrameRecords, Sound
    <2>2. Call("prototype", "lookup", call.of, call.shared) \in Frames
        BY <1>3, CallIsFrame
    <2>3. QED
        BY <1>1, <1>2, <1>4, <1>6, <2>1, <2>2, InvokeTyped, LinksStay DEF Typed
<1>7. QED
    BY <1>5, <1>6 DEF LookupConstructor

(* The constructor made of the prototype is stored for its type. *)
LEMMA EndConstructorIInv ==
    ASSUME IInv, NEW g \in Goroutines, EndConstructor(g)
    PROVE  IInv'
<1>1. stack[g] # <<>> /\ Typed
    BY DEF EndConstructor, AtStep, IInv
<1>2. answer[g] \in Results
    BY <1>1 DEF Typed
<1>3. Return(g, answer[g]) /\ UNCHANGED links
    BY DEF EndConstructor
<1>4. prototypes' \in [Types -> Results] /\ constructors' \in [Types -> Results]
    BY <1>1, <1>2 DEF EndConstructor, Typed
<1>5. QED
    BY <1>1, <1>2, <1>3, <1>4, ReturnTyped DEF IInv, Typed, ReceiversAgree, links

(* An object made in JavaScript gets the receiver that the Go constructor returned. *)
LEMMA ConstructorReturnsIInv ==
    ASSUME IInv, NEW g \in Goroutines, ConstructorReturns(g)
    PROVE  IInv'
<1>1. stack[g] # <<>> /\ Typed /\ UNCHANGED <<prototypes, constructors>>
    BY DEF ConstructorReturns, AtStep, IInv, classes
<1>2. CASE Return(g, Failed) /\ UNCHANGED links
    BY <1>1, <1>2, ReturnTyped, LinksStay DEF Results
<1>3. ASSUME NEW o \in Objects, NEW this \in Handles, SetReceiver(this, o), Return(g, this)
      PROVE  IInv'
    BY <1>1, <1>3, ReturnTyped, SetReceiverAgrees DEF IInv, Typed, Results
<1>4. QED
    BY <1>2, <1>3 DEF ConstructorReturns

(* The use of a member begins with V8Construct. *)
LEMMA UseMemberIInv ==
    ASSUME IInv, NEW g \in Goroutines, NEW h \in Handles, NEW n \in Names, UseMember(g, h, n)
    PROVE  IInv'
<1>1. Call("use", "user", h, TRUE) \in Frames
    BY CallIsFrame
<1>2. QED
    BY <1>1, BeginIInv DEF UseMember

(* An object gets the receiver that V8Construct returned, if any. *)
LEMMA EndUseIInv ==
    ASSUME IInv, NEW g \in Goroutines, EndUse(g)
    PROVE  IInv'
<1>0. /\ stack[g] # <<>> /\ Typed /\ ReceiversAgree /\ UNCHANGED <<prototypes, constructors>>
      /\ Return(g, None) /\ Top(g).op = "use"
    BY DEF EndUse, AtStep, IInv, classes
<1>1. /\ stack[g] # <<>> /\ Typed /\ ReceiversAgree /\ UNCHANGED <<prototypes, constructors>>
      /\ Return(g, None) /\ Top(g).of \in Handles
    BY <1>0, TopIsFrame DEF Frames, Sound
<1>2. /\ stack' \in [Goroutines -> Seq(Frames)]
      /\ answer' \in [Goroutines -> Results]
    BY <1>1, ReturnTyped DEF Results
<1>3. CASE UNCHANGED links
    BY <1>1, <1>2, <1>3, LinksStay
<1>4. CASE ClearReceiver(Top(g).of)
    BY <1>1, <1>2, <1>4, ClearReceiverAgrees DEF IInv, Typed
<1>5. ASSUME NEW o \in Objects, SetReceiver(Top(g).of, o) PROVE IInv'
    BY <1>1, <1>2, <1>5, SetReceiverAgrees DEF IInv, Typed
<1>6. QED
    BY <1>3, <1>4, <1>5 DEF EndUse

-----------------------------------------------------------------------------
(* Every step of the program keeps the invariant. *)
LEMMA NextIInv == IInv /\ [Next]_vars => IInv'
<1> SUFFICES ASSUME IInv, [Next]_vars PROVE IInv'
    OBVIOUS
<1>1. CASE UNCHANGED rest
    BY <1>1, LinksStay DEF rest, links, classes, IInv, Typed
<1>2. ASSUME NEW g \in Goroutines, Step(g) PROVE IInv'
    BY <1>2, LookupIInv, MakeErrorIInv, InstanceIInv, ReceiveIInv, EndConstructIInv,
       BeginPrototypeIInv, TakeBaseIInv, EndPrototypeIInv, LookupConstructorIInv,
       EndConstructorIInv, ConstructorReturnsIInv, EndUseIInv DEF Step
<1>3. ASSUME NEW g \in Goroutines, NEW o \in Objects, BeginCreate(g, o) PROVE IInv'
    <2>1. Call("create", "lookup", o, TRUE) \in Frames
        BY CallIsFrame
    <2>2. QED
        BY <1>3, <2>1, BeginIInv DEF BeginCreate
<1>4. ASSUME NEW g \in Goroutines, NEW type \in Constructed, NEW shared \in BOOLEAN,
             BeginConstructor(g, type, shared)
      PROVE  IInv'
    <2>1. type \in Types
        BY TypesAssumption
    <2>2. Call("constructor", "lookup", type, shared) \in Frames
        BY <2>1, CallIsFrame
    <2>3. QED
        BY <1>4, <2>2, BeginIInv DEF BeginConstructor
<1>5. QED
    BY <1>1, <1>2, <1>3, <1>4, BeginNewIInv, UseMemberIInv, NextMoves DEF Start

(***************************************************************************)
(* The wrapper that receivers remembers for an address is one whose        *)
(* receiver is there, in every reachable state, for any types, objects and *)
(* goroutines, whatever joins and whatever constructors do.                *)
(***************************************************************************)
THEOREM ReceiversAreTrue == Spec => []ReceiversAgree
<1>1. IInv => ReceiversAgree
    BY DEF IInv
<1>2. QED
    BY <1>1, InitIInv, NextIInv, PTL DEF Spec

-----------------------------------------------------------------------------
(***************************************************************************)
(* What Create promises about identity: one class per type, one wrapper    *)
(* per object, classes with instances do not change, and an instance has   *)
(* every member its type has by embedding.                                 *)
(*                                                                         *)
(* None of them is inductive, since what a step does depends on the calls  *)
(* that wait below it.  Known is inductive, whatever strays: IInv above;   *)
(* ShapeInv, each call is at one of its points and below it                *)
(* waits the one that made it; and ClassInv, the classes that calls are    *)
(* making have no instances and no base yet, no two calls make the same,   *)
(* and the answer of a call is the class that its caller asked for.        *)
(* From Known every step Grows the classes: finished ones stay, as they    *)
(* are, and only EndPrototype finishes one (otherwise NothingEnds).        *)
(*                                                                         *)
(* AloneInv and SharedInv (one stack, one shared class per type) and       *)
(* WrapInv (an object on its way to a wrapper has none, and nobody was     *)
(* told of another) hold until something strays.  CompleteInv says what a  *)
(* finished class has; the unfolding of the recursive functions Promoted   *)
(* and Found, and a type none of whose bases lacks a member, do the rest.  *)
(***************************************************************************)
-----------------------------------------------------------------------------
(* What a step does to a stack: fresh calls in the place of the first n. *)

Replaces(g, n, fresh) ==
    /\ \A h \in Goroutines \ {g} : stack'[h] = stack[h]
    /\ Len(stack[g]) \in Nat /\ Len(stack[g]) >= n
    /\ DOMAIN stack[g] = 1 .. Len(stack[g])
    /\ DOMAIN stack'[g] = 1 .. (Len(stack[g]) - n + Len(fresh))
    /\ \A i \in 1 .. Len(fresh) : stack'[g][i] = fresh[i]
    /\ \A i \in (n + 1) .. Len(stack[g]) : stack'[g][i - n + Len(fresh)] = stack[g][i]
    /\ \A i \in (Len(fresh) + 1) .. (Len(stack[g]) - n + Len(fresh)) :
          stack'[g][i] = stack[g][i + n - Len(fresh)]
    /\ stack'[g] = <<>> <=> Len(stack[g]) - n + Len(fresh) = 0
    /\ stack'[g] # <<>> => Top(g)' = stack'[g][1]
    /\ stack[g] # <<>> => Top(g) = stack[g][1]
    /\ stack[g] = <<>> <=> Len(stack[g]) = 0

(* The tail of a sequence, by index. *)
LEMMA TailFacts ==
    ASSUME NEW F, NEW s \in Seq(F), s # <<>>
    PROVE  /\ DOMAIN Tail(s) = 1 .. Len(s) - 1
           /\ \A i \in 2 .. Len(s) : Tail(s)[i - 1] = s[i]
           /\ \A i \in 1 .. Len(s) - 1 : Tail(s)[i] = s[i + 1]
           /\ Head(s) = s[1]
           /\ Len(s) \in Nat \ {0} /\ DOMAIN s = 1 .. Len(s)
           /\ Tail(s) = <<>> <=> Len(s) = 1
           /\ Tail(s) # <<>> => Head(Tail(s)) = s[2]
<1>1. /\ Tail(s) \in Seq(F) /\ Len(Tail(s)) = Len(s) - 1
      /\ \A i \in 1 .. Len(s) - 1 : Tail(s)[i] = s[i + 1]
      /\ Len(s) \in Nat \ {0} /\ DOMAIN s = 1 .. Len(s)
    OBVIOUS
<1>2. \A i \in 2 .. Len(s) : Tail(s)[i - 1] = s[i]
    BY <1>1
<1>3. Tail(s) = <<>> <=> Len(s) = 1
    BY <1>1
<1>4. ASSUME Tail(s) # <<>> PROVE Head(Tail(s)) = s[2]
    <2>1. Head(Tail(s)) = Tail(s)[1] /\ Len(s) - 1 >= 1
        BY <1>1, <1>4
    <2>2. QED
        BY <1>1, <2>1
<1>5. QED
    BY <1>1, <1>2, <1>3, <1>4

(* A call on top of the others replaces none. *)
LEMMA PushReplaces ==
    ASSUME Typed, NEW g \in Goroutines, NEW c \in Frames, stack' = [stack EXCEPT ![g] = <<c>> \o @]
    PROVE  Replaces(g, 0, <<c>>)
<1>1. stack[g] \in Seq(Frames) /\ stack'[g] = <<c>> \o stack[g]
    BY DEF Typed
<1>2. \A h \in Goroutines \ {g} : stack'[h] = stack[h]
    BY DEF Typed
<1> DEFINE s == stack[g]
<1>3. /\ DOMAIN (<<c>> \o s) = 1 .. Len(s) + 1 /\ (<<c>> \o s)[1] = c
      /\ \A i \in 1 .. Len(s) : (<<c>> \o s)[i + 1] = s[i]
      /\ <<c>> \o s # <<>> /\ Head(<<c>> \o s) = c
      /\ s # <<>> => Head(s) = s[1]
      /\ s = <<>> <=> Len(s) = 0
      /\ Len(s) \in Nat /\ DOMAIN s = 1 .. Len(s)
    BY <1>1
<1>4. QED
    BY <1>1, <1>2, <1>3 DEF Replaces, Top

(* Continue replaces the running call. *)
LEMMA ContinueReplaces ==
    ASSUME Typed, NEW g \in Goroutines, stack[g] # <<>>, NEW f \in Frames, Continue(g, f)
    PROVE  Replaces(g, 1, <<f>>)
<1>1. stack[g] \in Seq(Frames) /\ stack'[g] = <<f>> \o Tail(stack[g])
    BY DEF Typed, Continue
<1>2. \A h \in Goroutines \ {g} : stack'[h] = stack[h]
    BY DEF Typed, Continue
<1> DEFINE s == stack[g]
<1>3. /\ DOMAIN (<<f>> \o Tail(s)) = 1 .. Len(s) /\ (<<f>> \o Tail(s))[1] = f
      /\ \A i \in 2 .. Len(s) : (<<f>> \o Tail(s))[i] = s[i]
      /\ <<f>> \o Tail(s) # <<>> /\ Head(<<f>> \o Tail(s)) = f
      /\ Head(s) = s[1]
      /\ Len(s) \in Nat \ {0} /\ DOMAIN s = 1 .. Len(s)
    BY <1>1
<1>4. QED
    BY <1>1, <1>2, <1>3 DEF Replaces, Top

(* Invoke replaces the running call by two. *)
LEMMA InvokeReplaces ==
    ASSUME Typed, NEW g \in Goroutines, stack[g] # <<>>,
           NEW f \in Frames, NEW c \in Frames, Invoke(g, f, c)
    PROVE  Replaces(g, 1, <<c, f>>)
<1>1. stack[g] \in Seq(Frames) /\ stack'[g] = <<c, f>> \o Tail(stack[g])
    BY DEF Typed, Invoke
<1>2. \A h \in Goroutines \ {g} : stack'[h] = stack[h]
    BY DEF Typed, Invoke
<1> DEFINE s == stack[g]
<1>3. /\ DOMAIN (<<c, f>> \o Tail(s)) = 1 .. Len(s) + 1
      /\ (<<c, f>> \o Tail(s))[1] = c /\ (<<c, f>> \o Tail(s))[2] = f
      /\ \A i \in 2 .. Len(s) : (<<c, f>> \o Tail(s))[i + 1] = s[i]
      /\ <<c, f>> \o Tail(s) # <<>> /\ Head(<<c, f>> \o Tail(s)) = c
      /\ Head(s) = s[1]
      /\ Len(s) \in Nat \ {0} /\ DOMAIN s = 1 .. Len(s)
    BY <1>1
<1>4. QED
    BY <1>1, <1>2, <1>3 DEF Replaces, Top

(* Return drops the running call, and answers the one below unless that is user code. *)
LEMMA ReturnReplaces ==
    ASSUME Typed, NEW g \in Goroutines, stack[g] # <<>>, NEW r, Return(g, r)
    PROVE  /\ Replaces(g, 1, <<>>)
           /\ answer'[g] = IF stack'[g] # <<>> /\ Top(g)'.pc # "user" THEN r ELSE None
           /\ \A h \in Goroutines \ {g} : answer'[h] = answer[h]
<1>1. stack[g] \in Seq(Frames) /\ stack'[g] = Tail(stack[g])
    BY DEF Typed, Return
<1>2. \A h \in Goroutines \ {g} : stack'[h] = stack[h] /\ answer'[h] = answer[h]
    BY DEF Typed, Return
<1> DEFINE s == stack[g]
<1>3. /\ DOMAIN Tail(s) = 1 .. Len(s) - 1
      /\ \A i \in 2 .. Len(s) : Tail(s)[i - 1] = s[i]
      /\ \A i \in 1 .. Len(s) - 1 : Tail(s)[i] = s[i + 1]
      /\ Head(s) = s[1]
      /\ Len(s) \in Nat \ {0} /\ DOMAIN s = 1 .. Len(s)
      /\ Tail(s) = <<>> <=> Len(s) = 1
      /\ Tail(s) # <<>> => Head(Tail(s)) = s[2]
    BY <1>1, TailFacts
<1>4. Replaces(g, 1, <<>>)
    BY <1>1, <1>2, <1>3 DEF Replaces, Top
<1>5. answer'[g] = IF Len(s) > 1 /\ s[2].pc # "user" THEN r ELSE None
    BY DEF Return, Typed
<1>6. QED
    BY <1>1, <1>2, <1>3, <1>4, <1>5 DEF Top

-----------------------------------------------------------------------------
(* The points of each call, and what a call that has called another waits for. *)

Placed(f) ==
    \/ f.op = "create" /\ f.pc \in {"lookup", "error", "instance", "receive", "user"}
    \/ f.op = "prototype" /\ (f.pc \in {"base", "end"} \/ (f.pc = "lookup" /\ f.bases = <<>>))
    \/ f.op = "constructor" /\ f.pc \in {"lookup", "function"}
    \/ f.op \in {"new", "use"} /\ f.pc = "user" /\ f.of \in Handles

Awaits(f, callee) ==
    \/ /\ f.op = "create" /\ f.pc = "instance"
       /\ callee.op = "prototype" /\ callee.of = TypeOf[f.of] /\ callee.shared
    \/ /\ f.op = "create" /\ f.pc = "receive"
       /\ callee.op = "new" /\ callee.of = f.made
    \/ /\ f.op = "prototype" /\ f.pc = "base"
       /\ callee.op = "prototype" /\ callee.of = Bases[f.of][Len(f.bases) + 1] /\ callee.shared
    \/ /\ f.op = "constructor" /\ f.pc = "function"
       /\ callee.op = "prototype" /\ callee.of = f.of /\ callee.shared = f.shared
    \/ f.pc = "user" /\ callee.op # "prototype"

ShapeInv ==
    \A g \in Goroutines : \A i \in DOMAIN stack[g] :
        /\ Placed(stack[g][i])
        /\ i > 1 => Awaits(stack[g][i], stack[g][i - 1])

(* Fresh calls of the right shape keep the shape of the stacks. *)
LEMMA ShapeStep ==
    ASSUME ShapeInv, NEW g \in Goroutines, NEW n \in {0, 1},
           NEW fresh \in Seq(Frames), Replaces(g, n, fresh),
           \A i \in DOMAIN fresh : Placed(fresh[i]) /\ (i > 1 => Awaits(fresh[i], fresh[i - 1])),
           (fresh # <<>> /\ Len(stack[g]) > n) => Awaits(stack[g][n + 1], fresh[Len(fresh)])
    PROVE  ShapeInv'
<1> SUFFICES ASSUME NEW h \in Goroutines, NEW i \in DOMAIN stack'[h]
             PROVE  /\ Placed(stack'[h][i])
                    /\ i > 1 => Awaits(stack'[h][i], stack'[h][i - 1])
    BY DEF ShapeInv, Placed, Awaits
<1>1. /\ Len(fresh) \in Nat /\ DOMAIN fresh = 1 .. Len(fresh)
      /\ Len(stack[g]) \in Nat /\ DOMAIN stack[g] = 1 .. Len(stack[g])
    BY DEF Replaces
<1>2. DOMAIN stack'[g] = 1 .. (Len(stack[g]) - n + Len(fresh))
    BY DEF Replaces
<1>3. CASE h # g
    BY <1>3 DEF ShapeInv, Replaces
<1>4. CASE h = g /\ i \in 1 .. Len(fresh)
    <2>1. i \in DOMAIN fresh /\ stack'[g][i] = fresh[i]
        BY <1>4, <1>1 DEF Replaces
    <2>2. i > 1 => i - 1 \in 1 .. Len(fresh)
        BY <1>4, <1>1
    <2>3. i > 1 => stack'[g][i - 1] = fresh[i - 1]
        BY <2>2 DEF Replaces
    <2>4. QED
        BY <1>4, <2>1, <2>3
<1>5. CASE h = g /\ i \notin 1 .. Len(fresh)
    <2> DEFINE j == i + n - Len(fresh)
    <2>1. i \in (Len(fresh) + 1) .. (Len(stack[g]) - n + Len(fresh))
        BY <1>5, <1>1, <1>2
    <2>2. j \in (n + 1) .. Len(stack[g])
        BY <1>1, <2>1
    <2>3. j \in DOMAIN stack[g]
        BY <1>1, <2>2
    <2>4. stack'[g][i] = stack[g][j]
        BY <2>1 DEF Replaces
    <2>5. /\ i \in (Len(fresh) + 1) .. (Len(stack[g]) - n + Len(fresh))
          /\ j \in (n + 1) .. Len(stack[g]) /\ j \in DOMAIN stack[g]
          /\ stack'[g][i] = stack[g][j]
        BY <2>1, <2>2, <2>3, <2>4
    <2>6. Placed(stack[g][j]) /\ (j > 1 => Awaits(stack[g][j], stack[g][j - 1]))
        BY <2>5 DEF ShapeInv
    <2>7. CASE j = n + 1
        <3>1. i = Len(fresh) + 1
            BY <2>5, <2>7
        <3>2. CASE fresh = <<>>
            BY <1>5, <2>5, <2>6, <3>1, <3>2
        <3>3. CASE fresh # <<>>
            <4>1. stack'[g][i - 1] = fresh[Len(fresh)]
                BY <2>5, <3>1, <3>3 DEF Replaces
            <4>2. QED
                BY <1>5, <2>5, <2>6, <2>7, <3>3, <4>1
        <3>4. QED
            BY <3>2, <3>3
    <2>8. CASE j > n + 1
        <3>1. stack'[g][i - 1] = stack[g][j - 1]
            <4>1. i - 1 \in (Len(fresh) + 1) .. (Len(stack[g]) - n + Len(fresh))
                BY <2>5, <2>8
            <4>2. stack'[g][i - 1] = stack[g][(i - 1) + n - Len(fresh)]
                BY <4>1 DEF Replaces
            <4>3. (i - 1) + n - Len(fresh) = j - 1
                BY <2>5
            <4>4. QED
                BY <4>2, <4>3
        <3>2. QED
            BY <1>5, <2>5, <2>6, <2>8, <3>1
    <2>9. QED
        BY <2>5, <2>7, <2>8
<1>6. QED
    BY <1>3, <1>4, <1>5

-----------------------------------------------------------------------------
(* Classes that are being made. *)

Making(f) == f.op = "prototype" /\ f.pc \in {"base", "end"}

InProgress(t) ==
    \E g \in Goroutines : \E i \in DOMAIN stack[g] :
        Making(stack[g][i]) /\ stack[g][i].made = t

Finished(t) == t \in Templates /\ templates[t] # None /\ ~InProgress(t)

(* No two calls make the same template. *)
UniqueInv ==
    \A g, h \in Goroutines : \A i \in DOMAIN stack[g], j \in DOMAIN stack[h] :
        /\ Making(stack[g][i]) /\ Making(stack[h][j])
        /\ stack[g][i].made = stack[h][j].made
        => g = h /\ i = j

(* Where a call of the next state was: among the fresh ones, or lower. *)
LEMMA WhereItWas ==
    ASSUME NEW g \in Goroutines, NEW n \in {0, 1},
           NEW fresh \in Seq(Frames), Replaces(g, n, fresh),
           NEW h \in Goroutines, NEW i \in DOMAIN stack'[h]
    PROVE  \/ h # g /\ i \in DOMAIN stack[h] /\ stack'[h][i] = stack[h][i]
           \/ h = g /\ i \in DOMAIN fresh /\ stack'[h][i] = fresh[i]
           \/ /\ h = g /\ i \notin DOMAIN fresh
              /\ \E j \in DOMAIN stack[h] :
                    j > n /\ i = j - n + Len(fresh) /\ stack'[h][i] = stack[h][j]
<1>1. /\ Len(fresh) \in Nat /\ DOMAIN fresh = 1 .. Len(fresh)
      /\ Len(stack[g]) \in Nat /\ DOMAIN stack[g] = 1 .. Len(stack[g])
    BY DEF Replaces
<1>2. DOMAIN stack'[g] = 1 .. (Len(stack[g]) - n + Len(fresh))
    BY DEF Replaces
<1>3. CASE h # g
    BY <1>3 DEF Replaces
<1>4. CASE h = g /\ i \in DOMAIN fresh
    BY <1>1, <1>4 DEF Replaces
<1>5. CASE h = g /\ i \notin DOMAIN fresh
    <2> DEFINE j == i + n - Len(fresh)
    <2>1. i \in (Len(fresh) + 1) .. (Len(stack[g]) - n + Len(fresh))
        BY <1>1, <1>2, <1>5
    <2>2. j \in (n + 1) .. Len(stack[g])
        BY <1>1, <2>1
    <2>3. i = j - n + Len(fresh)
        BY <1>1, <2>1
    <2>4. j \in 1 .. Len(stack[g]) /\ j > n /\ i = j - n + Len(fresh)
        BY <1>1, <2>2, <2>3
    <2>5. stack'[g][i] = stack[g][j]
        BY <2>1 DEF Replaces
    <2>6. QED
        BY <1>1, <1>5, <2>4, <2>5
<1>6. QED
    BY <1>3, <1>4, <1>5

(* Where a call goes: it is among those replaced, or stays. *)
LEMMA WhereItGoes ==
    ASSUME NEW g \in Goroutines, NEW n \in {0, 1},
           NEW fresh \in Seq(Frames), Replaces(g, n, fresh),
           NEW h \in Goroutines, NEW i \in DOMAIN stack[h]
    PROVE  \/ h = g /\ n = 1 /\ i = 1 /\ stack[h][i] = Top(g)
           \/ \E j \in DOMAIN stack'[h] : stack'[h][j] = stack[h][i]
<1>1. /\ Len(fresh) \in Nat /\ DOMAIN fresh = 1 .. Len(fresh)
      /\ Len(stack[g]) \in Nat /\ DOMAIN stack[g] = 1 .. Len(stack[g])
    BY DEF Replaces
<1>2. DOMAIN stack'[g] = 1 .. (Len(stack[g]) - n + Len(fresh))
    BY DEF Replaces
<1>3. CASE h # g
    BY <1>3 DEF Replaces
<1>4. CASE h = g /\ i <= n
    <2>1. n = 1 /\ i = 1 /\ stack[g] # <<>>
        BY <1>1, <1>4
    <2>2. Top(g) = stack[g][1]
        BY <2>1 DEF Replaces
    <2>3. QED
        BY <1>4, <2>1, <2>2
<1>5. CASE h = g /\ i > n
    <2> DEFINE j == i - n + Len(fresh)
    <2>1. i \in (n + 1) .. Len(stack[g])
        BY <1>1, <1>5
    <2>2. j \in DOMAIN stack'[g]
        BY <1>1, <1>2, <2>1
    <2>3. stack'[g][j] = stack[g][i]
        BY <2>1 DEF Replaces
    <2>4. QED
        BY <1>5, <2>2, <2>3
<1>6. h = g => i <= n \/ i > n
    BY <1>1
<1>7. QED
    BY <1>3, <1>4, <1>5, <1>6

(* What is in progress after a step was before, or is made by a fresh call. *)
LEMMA ProgressStep ==
    ASSUME NEW g \in Goroutines, NEW n \in {0, 1},
           NEW fresh \in Seq(Frames), Replaces(g, n, fresh), NEW t
    PROVE  /\ InProgress(t)' => \/ InProgress(t)
                                \/ \E i \in DOMAIN fresh : Making(fresh[i]) /\ fresh[i].made = t
           /\ InProgress(t) => \/ InProgress(t)'
                               \/ n = 1 /\ Making(Top(g)) /\ Top(g).made = t
<1>1. ASSUME InProgress(t)'
      PROVE  InProgress(t) \/ \E i \in DOMAIN fresh : Making(fresh[i]) /\ fresh[i].made = t
    <2>1. PICK h \in Goroutines :
              \E i \in DOMAIN stack'[h] : Making(stack'[h][i]) /\ stack'[h][i].made = t
        BY <1>1 DEF InProgress, Making
    <2>2. PICK i \in DOMAIN stack'[h] : Making(stack'[h][i]) /\ stack'[h][i].made = t
        BY <2>1
    <2>3. QED
        BY <2>2, WhereItWas DEF InProgress
<1>2. ASSUME InProgress(t)
      PROVE  InProgress(t)' \/ (n = 1 /\ Making(Top(g)) /\ Top(g).made = t)
    <2>1. PICK h \in Goroutines :
              \E i \in DOMAIN stack[h] : Making(stack[h][i]) /\ stack[h][i].made = t
        BY <1>2 DEF InProgress
    <2>2. PICK i \in DOMAIN stack[h] : Making(stack[h][i]) /\ stack[h][i].made = t
        BY <2>1
    <2>3. CASE \E j \in DOMAIN stack'[h] : stack'[h][j] = stack[h][i]
        BY <2>2, <2>3 DEF InProgress, Making
    <2>4. QED
        BY <2>2, <2>3, WhereItGoes
<1>3. QED
    BY <1>1, <1>2

(* Fresh calls make what the call they replace made, or what nobody makes. *)
LEMMA UniqueStep ==
    ASSUME UniqueInv, NEW g \in Goroutines, NEW n \in {0, 1},
           NEW fresh \in Seq(Frames), Replaces(g, n, fresh),
           \A i, j \in DOMAIN fresh : Making(fresh[i]) /\ Making(fresh[j]) => i = j,
           \A i \in DOMAIN fresh : Making(fresh[i]) =>
               \/ n = 1 /\ stack[g] # <<>> /\ Making(Top(g)) /\ Top(g).made = fresh[i].made
               \/ ~InProgress(fresh[i].made)
    PROVE  UniqueInv'
<1> SUFFICES ASSUME NEW h \in Goroutines, NEW k \in Goroutines,
                    NEW i \in DOMAIN stack'[h], NEW j \in DOMAIN stack'[k],
                    Making(stack'[h][i]), Making(stack'[k][j]),
                    stack'[h][i].made = stack'[k][j].made
             PROVE  h = k /\ i = j
    BY DEF UniqueInv, Making
<1> DEFINE Fresh(l, a) == l = g /\ a \in DOMAIN fresh /\ stack'[l][a] = fresh[a]
           Old(l, a, b) == /\ b \in DOMAIN stack[l] /\ stack'[l][a] = stack[l][b]
                           /\ \/ l # g /\ a = b
                              \/ l = g /\ b > n /\ a = b - n + Len(fresh)
<1>1. Fresh(h, i) \/ \E b \in DOMAIN stack[h] : Old(h, i, b)
    BY WhereItWas
<1>2. Fresh(k, j) \/ \E b \in DOMAIN stack[k] : Old(k, j, b)
    BY WhereItWas
<1>3. ASSUME NEW l \in Goroutines, NEW a, NEW b, Old(l, a, b), NEW m \in DOMAIN fresh,
             Making(stack[l][b]), Making(fresh[m]), stack[l][b].made = fresh[m].made
      PROVE  FALSE
    <2>1. InProgress(fresh[m].made)
        BY <1>3 DEF InProgress
    <2>2. n = 1 /\ stack[g] # <<>> /\ Making(Top(g)) /\ Top(g).made = fresh[m].made
        BY <1>3, <2>1
    <2>3. Top(g) = stack[g][1] /\ 1 \in DOMAIN stack[g]
        BY <2>2 DEF Replaces
    <2>4. l = g /\ b = 1
        BY <1>3, <2>2, <2>3 DEF UniqueInv
    <2>5. QED
        BY <1>3, <2>2, <2>4
<1>4. CASE Fresh(h, i) /\ Fresh(k, j)
    BY <1>4
<1>5. CASE Fresh(h, i) /\ \E b \in DOMAIN stack[k] : Old(k, j, b)
    BY <1>3, <1>5
<1>6. CASE Fresh(k, j) /\ \E b \in DOMAIN stack[h] : Old(h, i, b)
    BY <1>3, <1>6
<1>7. ASSUME NEW b \in DOMAIN stack[h], NEW c \in DOMAIN stack[k], Old(h, i, b), Old(k, j, c)
      PROVE  h = k /\ i = j
    <2>1. h = k /\ b = c
        BY <1>7 DEF UniqueInv
    <2>2. QED
        BY <1>7, <2>1
<1>8. QED
    BY <1>1, <1>2, <1>4, <1>5, <1>6, <1>7

-----------------------------------------------------------------------------
(* What is known of classes. *)

OfType(t, type) == Finished(t) /\ templates[t].type = type

(* Shared classes, instances, and what JavaScript has seen, are finished. *)
TemplatesInv ==
    /\ templates \in [Templates -> TemplateRecords \cup {None}]
    /\ \A t \in Templates : templates[t] # None /\ templates[t].seen => Finished(t)
    /\ class \in [Handles -> Templates \cup {None, ErrorType}]
    /\ \A h \in Handles : class[h] \in Templates => Finished(class[h])
    /\ \A type \in Types :
          /\ prototypes[type] # None =>
                OfType(prototypes[type], type) /\ templates[prototypes[type]].shared
          /\ constructors[type] # None => Finished(constructors[type])

(* A class that is made has the type's own members, and takes finished bases. *)
Begun(f) ==
    /\ f.made \in Templates /\ templates[f.made] # None
    /\ templates[f.made].type = f.of /\ templates[f.made].shared = f.shared
    /\ templates[f.made].members = Members(f.of) /\ templates[f.made].parent = None
    /\ f.pc = "end" => Len(f.bases) = Len(Bases[f.of])
    /\ \A k \in DOMAIN f.bases :
          OfType(f.bases[k], Bases[f.of][k]) /\ prototypes[Bases[f.of][k]] # None

Running(f) == \E g \in Goroutines : \E i \in DOMAIN stack[g] : stack[g][i] = f

MakingInv == \A f \in Frames : Making(f) /\ Running(f) => Begun(f)

(* A call that goes on after another has the class that it asked for. *)
AnsweredBy(f, a) ==
    /\ f.pc = "instance" => OfType(a, TypeOf[f.of]) /\ templates[a].shared
    /\ f.pc = "function" => OfType(a, f.of) /\ templates[a].shared = f.shared
    /\ f.pc = "base" => prototypes[Bases[f.of][Len(f.bases) + 1]] # None
    /\ f.pc \notin {"instance", "function", "base", "receive"} => a = None

AnswerInv ==
    \A g \in Goroutines :
        /\ stack[g] = <<>> => answer[g] = None
        /\ \A f \in Frames, a \in Results :
              stack[g] # <<>> /\ f = Top(g) /\ a = answer[g] => AnsweredBy(f, a)

ClassInv == TemplatesInv /\ MakingInv /\ UniqueInv /\ AnswerInv
Known == IInv /\ ShapeInv /\ ClassInv

(***************************************************************************)
(* What every step does to the classes: those that are finished stay, with *)
(* their members and their base class.                                     *)
(***************************************************************************)
Grows ==
    /\ \A t \in Templates : templates[t] # None =>
          /\ templates'[t] # None
          /\ templates'[t].type = templates[t].type /\ templates'[t].shared = templates[t].shared
          /\ Finished(t) => /\ Finished(t)'
                            /\ templates'[t].members = templates[t].members
                            /\ templates'[t].parent = templates[t].parent
    /\ \A type \in Types : prototypes[type] # None => prototypes'[type] # None

(* A call to createPrototype has at most the bases of its type. *)
LEMMA BasesBounded ==
    ASSUME NEW f \in Frames, f.op = "prototype", Begun(f), Making(f)
    PROVE  /\ f.of \in Types /\ Bases[f.of] \in Seq(Types) /\ f.bases \in Seq(Results)
           /\ \A k \in DOMAIN f.bases : k \in DOMAIN Bases[f.of] /\ Bases[f.of][k] \in Types
<1>1. f.of \in Types /\ f.bases \in Seq(Results)
    BY DEF Frames, FrameRecords, Sound
<1>2. Bases[f.of] \in Seq(Types)
    BY <1>1, TypesAssumption
<1>3. Len(f.bases) <= Len(Bases[f.of])
    BY <1>1, <1>2 DEF Frames, Sound, Begun, Making
<1>4. QED
    BY <1>1, <1>2, <1>3

(* A finished class keeps its type. *)
LEMMA OfTypeStays ==
    ASSUME Grows, NEW t, NEW type, OfType(t, type)
    PROVE  OfType(t, type)' /\ templates'[t].shared = templates[t].shared
BY DEF Grows, OfType, Finished

(* A class that is made stays so, when nothing else touches it. *)
LEMMA BegunStays ==
    ASSUME Grows, NEW f \in Frames, Making(f), Begun(f),
           templates'[f.made].members = templates[f.made].members,
           templates'[f.made].parent = templates[f.made].parent
    PROVE  Begun(f)'
<1>1. \A k \in DOMAIN f.bases : Bases[f.of][k] \in Types
    BY BasesBounded DEF Making
<1>2. \A k \in DOMAIN f.bases :
          OfType(f.bases[k], Bases[f.of][k])' /\ prototypes'[Bases[f.of][k]] # None
    BY <1>1, OfTypeStays DEF Begun, Grows
<1>3. QED
    BY <1>2 DEF Begun, Grows, Members

(* An answer stays what the caller asked for. *)
LEMMA AnsweredStays ==
    ASSUME Grows, NEW f \in Frames, Placed(f), NEW a, AnsweredBy(f, a)
    PROVE  AnsweredBy(f, a)'
<1>1. f.pc = "base" => Bases[f.of][Len(f.bases) + 1] \in Types
    <2>1. SUFFICES ASSUME f.pc = "base" PROVE Bases[f.of][Len(f.bases) + 1] \in Types
        OBVIOUS
    <2>2. f.op = "prototype"
        BY <2>1 DEF Placed
    <2>3. f.of \in Types /\ f.bases \in Seq(Results) /\ Len(f.bases) < Len(Bases[f.of])
        BY <2>1, <2>2 DEF Frames, FrameRecords, Sound
    <2>4. Bases[f.of] \in Seq(Types)
        BY <2>3, TypesAssumption
    <2>5. QED
        BY <2>3, <2>4
<1>2. f.pc = "instance" => OfType(a, TypeOf[f.of])' /\ templates'[a].shared
    BY OfTypeStays DEF AnsweredBy
<1>3. f.pc = "function" => OfType(a, f.of)' /\ templates'[a].shared = f.shared
    BY OfTypeStays DEF AnsweredBy
<1>4. QED
    BY <1>1, <1>2, <1>3 DEF AnsweredBy, Grows

(* The calls and answers of a step that lets classes grow. *)
LEMMA ClassStep ==
    ASSUME Known, IInv', NEW g \in Goroutines, NEW n \in {0, 1},
           NEW fresh \in Seq(Frames), Replaces(g, n, fresh), Grows,
           \A t : InProgress(t) /\ InProgress(t)' =>
               /\ templates'[t].members = templates[t].members
               /\ templates'[t].parent = templates[t].parent,
           \A f \in Frames : Making(f) /\ (\E i \in DOMAIN fresh : fresh[i] = f) => Begun(f)',
           \A h \in Goroutines \ {g} : answer'[h] = answer[h],
           stack'[g] = <<>> => answer'[g] = None,
           \A f \in Frames, a \in Results :
               stack'[g] # <<>> /\ f = Top(g)' /\ a = answer'[g] => AnsweredBy(f, a)'
    PROVE  MakingInv' /\ AnswerInv'
<1>1. ASSUME NEW f \in Frames, Making(f), Running(f)'
      PROVE  Begun(f)'
    <2>1. PICK h \in Goroutines : \E i \in DOMAIN stack'[h] : stack'[h][i] = f
        BY <1>1 DEF Running
    <2>2. PICK i \in DOMAIN stack'[h] : stack'[h][i] = f
        BY <2>1
    <2>3. CASE \E j \in DOMAIN fresh : fresh[j] = f
        BY <1>1, <2>3
    <2>4. CASE \E j \in DOMAIN stack[h] : stack[h][j] = f
        <3>1. Running(f)
            BY <2>4 DEF Running
        <3>2. Begun(f)
            BY <1>1, <3>1 DEF Known, ClassInv, MakingInv
        <3>3. InProgress(f.made)
            BY <1>1, <2>4 DEF InProgress
        <3> DEFINE t == f.made
        <3>4. InProgress(t)'
            BY <1>1, <2>2 DEF InProgress, Making
        <3>5. templates'[t].members = templates[t].members /\ templates'[t].parent = templates[t].parent
            BY <3>3, <3>4
        <3>6. QED
            BY <1>1, <3>2, <3>5, BegunStays
    <2>5. QED
        BY <2>2, <2>3, <2>4, WhereItWas
<1>2. ASSUME NEW h \in Goroutines, NEW f \in Frames, NEW a \in Results,
             stack'[h] # <<>>, f = Top(h)', a = answer'[h]
      PROVE  AnsweredBy(f, a)'
    <2>1. CASE h = g
        BY <1>2, <2>1
    <2>2. CASE h # g
        <3>1. stack'[h] = stack[h] /\ answer'[h] = answer[h]
            BY <2>2 DEF Replaces
        <3>2. stack[h] \in Seq(Frames) /\ stack[h] # <<>>
            BY <1>2, <3>1 DEF Known, IInv, Typed
        <3>3. f = Top(h) /\ f = stack[h][1] /\ 1 \in DOMAIN stack[h]
            BY <1>2, <3>1, <3>2 DEF Top
        <3>4. Placed(f) /\ AnsweredBy(f, a)
            BY <1>2, <3>1, <3>2, <3>3 DEF Known, ShapeInv, ClassInv, AnswerInv
        <3>5. QED
            BY <3>4, AnsweredStays
    <2>3. QED
        BY <2>1, <2>2
<1>3. ASSUME NEW h \in Goroutines, stack'[h] = <<>>
      PROVE  answer'[h] = None
    BY <1>3 DEF Known, ClassInv, AnswerInv, Replaces
<1>4. MakingInv'
    BY <1>1 DEF MakingInv, Making
<1>5. AnswerInv'
    BY <1>2, <1>3 DEF AnswerInv
<1>6. QED
    BY <1>4, <1>5

(* The calls keep their shape, whatever the step does to the classes. *)
ShapeKept(g, n, fresh) ==
    /\ \A i \in DOMAIN fresh : Placed(fresh[i]) /\ (i > 1 => Awaits(fresh[i], fresh[i - 1]))
    /\ (fresh # <<>> /\ Len(stack[g]) > n) => Awaits(stack[g][n + 1], fresh[Len(fresh)])

(* The running call has the answer it is to go on with. *)
Answered(g) ==
    /\ \A h \in Goroutines \ {g} : answer'[h] = answer[h]
    /\ stack'[g] = <<>> => answer'[g] = None
    /\ \A f \in Frames, a \in Results :
           stack'[g] # <<>> /\ f = Top(g)' /\ a = answer'[g] => AnsweredBy(f, a)'

(* What is being made goes on being made, by the same call. *)
SameMaking(g, n, fresh) ==
    /\ \A i, j \in DOMAIN fresh : Making(fresh[i]) /\ Making(fresh[j]) => i = j
    /\ \A i \in DOMAIN fresh : Making(fresh[i]) =>
          /\ n = 1 /\ stack[g] # <<>> /\ Making(Top(g)) /\ Top(g).made = fresh[i].made
          /\ Top(g).of = fresh[i].of /\ Top(g).shared = fresh[i].shared
    /\ n = 1 /\ Making(Top(g)) =>
           \E i \in DOMAIN fresh : Making(fresh[i]) /\ fresh[i].made = Top(g).made

(* A step ends no class, and begins none for a type that has one. *)
NothingEnds ==
    /\ \A t : Finished(t)' => Finished(t)
    /\ \A f \in Frames : Making(f) /\ Running(f)' /\ f.shared =>
          \/ prototypes[f.of] = None
          \/ \E e \in Frames : Making(e) /\ Running(e) /\ e.shared /\ e.of = f.of

(* A call that is in progress after a step was before, or is fresh. *)
LEMMA RunningStep ==
    ASSUME NEW g \in Goroutines, NEW n \in {0, 1},
           NEW fresh \in Seq(Frames), Replaces(g, n, fresh), NEW f, Running(f)'
    PROVE  Running(f) \/ \E i \in DOMAIN fresh : fresh[i] = f
<1>1. PICK h \in Goroutines : \E i \in DOMAIN stack'[h] : stack'[h][i] = f
    BY DEF Running
<1>2. PICK i \in DOMAIN stack'[h] : stack'[h][i] = f
    BY <1>1
<1>3. \/ \E j \in DOMAIN fresh : fresh[j] = f
      \/ \E j \in DOMAIN stack[h] : stack[h][j] = f
    BY <1>2, WhereItWas
<1>4. QED
    BY <1>3 DEF Running

(* What a step that makes no class may do: mark it as seen, or remember it. *)
SameClasses ==
    /\ templates' \in [Templates -> TemplateRecords \cup {None}]
    /\ \A t \in Templates :
          /\ templates[t] = None => templates'[t] = None
          /\ templates[t] # None =>
                /\ templates'[t] # None
                /\ templates'[t].type = templates[t].type
                /\ templates'[t].shared = templates[t].shared
                /\ templates'[t].members = templates[t].members
                /\ templates'[t].parent = templates[t].parent
                /\ templates'[t].seen => templates[t].seen \/ Finished(t)
    /\ class' \in [Handles -> Templates \cup {None, ErrorType}]
    /\ \A h \in Handles : class'[h] \in Templates => Finished(class'[h])
    /\ \A type \in Types :
          /\ \/ prototypes'[type] = prototypes[type]
             \/ /\ prototypes'[type] # None
                /\ OfType(prototypes'[type], type) /\ templates[prototypes'[type]].shared
          /\ constructors'[type] = constructors[type] \/ Finished(constructors'[type])

(* Then everything that is made stays, and what is in progress. *)
LEMMA QuietGrows ==
    ASSUME NEW g \in Goroutines, NEW n \in {0, 1},
           NEW fresh \in Seq(Frames), Replaces(g, n, fresh), SameMaking(g, n, fresh), SameClasses
    PROVE  /\ Grows
           /\ \A t : InProgress(t)' <=> InProgress(t)
<1>1. ASSUME NEW t PROVE InProgress(t)' <=> InProgress(t)
    <2>1. InProgress(t)' => InProgress(t)
        <3>1. ASSUME NEW i \in DOMAIN fresh, Making(fresh[i]), fresh[i].made = t
              PROVE  InProgress(t)
            <4>1. stack[g] # <<>> /\ Making(Top(g)) /\ Top(g).made = t
                BY <3>1 DEF SameMaking
            <4>2. 1 \in DOMAIN stack[g] /\ Top(g) = stack[g][1]
                BY <4>1 DEF Replaces
            <4>3. QED
                BY <4>1, <4>2 DEF InProgress
        <3>2. QED
            BY <3>1, ProgressStep
    <2>2. InProgress(t) => InProgress(t)'
        <3>1. ASSUME NEW i \in DOMAIN fresh, Making(fresh[i]), fresh[i].made = t
              PROVE  InProgress(t)'
            <4>1. i \in DOMAIN stack'[g] /\ stack'[g][i] = fresh[i]
                BY DEF Replaces
            <4>2. QED
                BY <3>1, <4>1 DEF InProgress, Making
        <3>2. QED
            BY <3>1, ProgressStep DEF SameMaking
    <2>3. QED
        BY <2>1, <2>2
<1>2. ASSUME NEW t PROVE Finished(t) => Finished(t)'
    BY <1>1 DEF Finished, SameClasses
<1>3. Grows
    <2>1. ASSUME NEW type \in Types, prototypes[type] # None PROVE prototypes'[type] # None
        BY <2>1 DEF SameClasses
    <2>2. QED
        BY <1>2, <2>1 DEF Grows, SameClasses
<1>4. QED
    BY <1>1, <1>3

(* A step that makes no class keeps what is known. *)
LEMMA QuietStep ==
    ASSUME Known, IInv', NEW g \in Goroutines, NEW n \in {0, 1},
           NEW fresh \in Seq(Frames), Replaces(g, n, fresh), ShapeKept(g, n, fresh),
           SameMaking(g, n, fresh), SameClasses,
           \A f \in Frames : Making(f) /\ (\E i \in DOMAIN fresh : fresh[i] = f) => Begun(f),
           Answered(g)
    PROVE  Known' /\ Grows /\ NothingEnds
<1>1. Grows /\ \A t : InProgress(t)' <=> InProgress(t)
    BY QuietGrows
<1>2. ASSUME NEW t PROVE Finished(t) => Finished(t)'
    BY <1>1 DEF Finished, Grows
<1>3. Grows
    BY <1>1
<1>4. TemplatesInv'
    <2>1. /\ templates' \in [Templates -> TemplateRecords \cup {None}]
          /\ class' \in [Handles -> Templates \cup {None, ErrorType}]
        BY DEF SameClasses
    <2>2. ASSUME NEW t \in Templates, templates'[t] # None, templates'[t].seen
          PROVE  Finished(t)'
        BY <1>2, <2>2 DEF SameClasses, Known, ClassInv, TemplatesInv
    <2>3. ASSUME NEW h \in Handles, NEW t, t = class'[h]
          PROVE  t \in Templates => Finished(t)'
        BY <1>2, <2>3 DEF SameClasses
    <2>4. ASSUME NEW type \in Types, NEW t, t = prototypes'[type], t # None
          PROVE  OfType(t, type)' /\ templates'[t].shared
        <3>1. OfType(t, type) /\ templates[t].shared
            BY <2>4 DEF SameClasses, Known, ClassInv, TemplatesInv
        <3>2. QED
            BY <1>3, <3>1, OfTypeStays
    <2>5. ASSUME NEW type \in Types, NEW t, t = constructors'[type], t # None
          PROVE  Finished(t)'
        BY <1>2, <2>5 DEF SameClasses, Known, ClassInv, TemplatesInv
    <2>6. QED
        BY <2>1, <2>2, <2>3, <2>4, <2>5 DEF TemplatesInv, OfType, Finished, InProgress, Making
<1>5. ShapeInv'
    BY ShapeStep DEF Known, ShapeKept
<1>6. UniqueInv'
    BY UniqueStep DEF Known, ClassInv, SameMaking
<1>7. ASSUME NEW t, InProgress(t), InProgress(t)'
      PROVE  templates'[t].members = templates[t].members /\ templates'[t].parent = templates[t].parent
    <2>1. PICK f \in Frames : Making(f) /\ Running(f) /\ f.made = t
        <3>1. PICK h \in Goroutines : \E i \in DOMAIN stack[h] : Making(stack[h][i]) /\ stack[h][i].made = t
            BY <1>7 DEF InProgress
        <3>2. PICK i \in DOMAIN stack[h] : Making(stack[h][i]) /\ stack[h][i].made = t
            BY <3>1
        <3>3. stack[h][i] \in Frames
            BY DEF Known, IInv, Typed
        <3>4. QED
            BY <3>2, <3>3 DEF Running
    <2>2. t \in Templates /\ templates[t] # None
        BY <2>1 DEF Known, ClassInv, MakingInv, Begun
    <2>3. QED
        BY <2>2 DEF SameClasses
<1>8. ASSUME NEW f \in Frames, Making(f), \E i \in DOMAIN fresh : fresh[i] = f
      PROVE  Begun(f)'
    <2>1. Begun(f)
        BY <1>8
    <2>2. /\ templates'[f.made].members = templates[f.made].members
          /\ templates'[f.made].parent = templates[f.made].parent
        BY <2>1 DEF Begun, SameClasses
    <2>3. QED
        BY <1>3, <1>8, <2>1, <2>2, BegunStays
<1>9. MakingInv' /\ AnswerInv'
    BY <1>3, <1>7, <1>8, ClassStep DEF Answered
<1>10. ASSUME NEW f \in Frames, Making(f), Running(f)', f.shared
       PROVE  \E e \in Frames : Making(e) /\ Running(e) /\ e.shared /\ e.of = f.of
    <2>1. CASE Running(f)
        BY <1>10, <2>1
    <2>2. ASSUME NEW i \in DOMAIN fresh, fresh[i] = f
          PROVE  \E e \in Frames : Making(e) /\ Running(e) /\ e.shared /\ e.of = f.of
        <3>1. stack[g] # <<>> /\ Making(Top(g)) /\ Top(g).of = f.of /\ Top(g).shared = f.shared
            BY <1>10, <2>2 DEF SameMaking
        <3>2. Top(g) \in Frames
            BY <3>1, TopIsFrame DEF Known, IInv
        <3>3. 1 \in DOMAIN stack[g] /\ stack[g][1] = Top(g)
            BY <3>1 DEF Replaces
        <3>4. QED
            BY <1>10, <3>1, <3>2, <3>3 DEF Running
    <2>3. QED
        BY <1>10, <2>1, <2>2, RunningStep
<1>11. NothingEnds
    <2>1. \A t : Finished(t)' => Finished(t)
        BY <1>1 DEF Finished, SameClasses
    <2>2. QED
        BY <1>10, <2>1 DEF NothingEnds
<1>12. QED
    BY <1>3, <1>4, <1>5, <1>6, <1>9, <1>11 DEF Known, ClassInv

-----------------------------------------------------------------------------
(* The kinds of step. *)

(* Steps that leave the variables of the classes alone. *)
LEMMA ClassesStay ==
    ASSUME Known, UNCHANGED <<class, classes>>
    PROVE  SameClasses
BY DEF SameClasses, Known, ClassInv, TemplatesInv, classes

(* The call below the running one waits for it. *)
LEMMA BelowAwaits ==
    ASSUME ShapeInv, NEW g \in Goroutines, 2 \in DOMAIN stack[g]
    PROVE  Awaits(stack[g][2], stack[g][1])
<1>1. 2 > 1 => Awaits(stack[g][2], stack[g][2 - 1])
    BY DEF ShapeInv
<1>2. 2 > 1 /\ 2 - 1 = 1
    OBVIOUS
<1>3. QED
    BY <1>1, <1>2

(* A call that returns, and not one that makes a class. *)
LEMMA ReturnKnown ==
    ASSUME Known, IInv', NEW g \in Goroutines, stack[g] # <<>>,
           NEW c \in Frames, c = Top(g), ~Making(c), NEW r \in Results, Return(g, r), SameClasses,
           c.op = "prototype" => /\ OfType(r, c.of) /\ templates[r].shared = c.shared
                                 /\ c.shared => prototypes[c.of] # None
    PROVE  Known' /\ Grows /\ NothingEnds
<1>1. /\ Replaces(g, 1, <<>>)
      /\ answer'[g] = IF stack'[g] # <<>> /\ Top(g)'.pc # "user" THEN r ELSE None
      /\ \A h \in Goroutines \ {g} : answer'[h] = answer[h]
    BY ReturnReplaces DEF Known, IInv
<1>2. <<>> \in Seq(Frames) /\ DOMAIN <<>> = {} /\ Len(<<>>) = 0
    OBVIOUS
<1>3. SameMaking(g, 1, <<>>) /\ ShapeKept(g, 1, <<>>)
    BY <1>2 DEF SameMaking, ShapeKept
<1>4. Grows
    BY <1>1, <1>2, <1>3, QuietGrows
<1>5. ASSUME NEW f \in Frames, stack'[g] # <<>>, f = Top(g)'
      PROVE  Awaits(f, c)
    <2>1. 2 \in DOMAIN stack[g] /\ stack[g][2] = f /\ stack[g][1] = c
        BY <1>1, <1>2, <1>5 DEF Replaces
    <2>2. QED
        BY <2>1, BelowAwaits DEF Known
<1>6. c.op = "prototype" =>
          /\ OfType(r, c.of)' /\ templates'[r].shared = c.shared
          /\ c.shared => prototypes'[c.of] # None
    <2>1. c.op = "prototype" => c.of \in Types
        BY DEF Frames, Sound
    <2>2. QED
        BY <1>4, <2>1, OfTypeStays DEF Grows
<1>7. ASSUME NEW f \in Frames, NEW a \in Results, stack'[g] # <<>>, f = Top(g)', a = answer'[g]
      PROVE  AnsweredBy(f, a)'
    <2>1. Awaits(f, c)
        BY <1>5, <1>7
    <2>2. a = IF f.pc = "user" THEN None ELSE r
        BY <1>1, <1>7
    <2>3. f.pc = "instance" => c.op = "prototype" /\ c.of = TypeOf[f.of] /\ c.shared
        BY <2>1 DEF Awaits
    <2>4. f.pc = "function" => c.op = "prototype" /\ c.of = f.of /\ c.shared = f.shared
        BY <2>1 DEF Awaits
    <2>5. f.pc = "base" => /\ c.op = "prototype" /\ c.shared
                           /\ c.of = Bases[f.of][Len(f.bases) + 1]
        BY <2>1 DEF Awaits
    <2>6. f.pc \in {"instance", "receive", "base", "function", "user"}
        BY <2>1 DEF Awaits
    <2>7. QED
        BY <1>6, <2>2, <2>3, <2>4, <2>5, <2>6 DEF AnsweredBy
<1>8. Answered(g)
    BY <1>1, <1>7 DEF Answered
<1>9. QED
    BY <1>1, <1>2, <1>3, <1>8, QuietStep

(* A call that moves on. *)
LEMMA ContinueKnown ==
    ASSUME Known, IInv', NEW g \in Goroutines, stack[g] # <<>>,
           NEW c \in Frames, c = Top(g), ~Making(c), NEW f \in Frames, Continue(g, f), SameClasses,
           f.op = c.op, f.of = c.of, f.shared = c.shared, Placed(f), ~Making(f),
           \A h \in Goroutines \ {g} : answer'[h] = answer[h],
           f.pc = "receive" \/ (f.pc \in {"error", "user"} /\ answer'[g] = None)
    PROVE  Known' /\ Grows /\ NothingEnds
<1>1. Replaces(g, 1, <<f>>)
    BY ContinueReplaces DEF Known, IInv
<1>2. <<f>> \in Seq(Frames) /\ DOMAIN <<f>> = {1} /\ Len(<<f>>) = 1 /\ <<f>>[1] = f
    OBVIOUS
<1>3. SameMaking(g, 1, <<f>>)
    BY <1>2 DEF SameMaking
<1>4. ShapeKept(g, 1, <<f>>)
    <2>1. Len(stack[g]) > 1 => Awaits(stack[g][2], c)
        BY <1>1, BelowAwaits DEF Known, Replaces
    <2>2. Len(stack[g]) > 1 => Awaits(stack[g][2], f)
        BY <2>1 DEF Awaits
    <2>3. QED
        BY <1>2, <2>2 DEF ShapeKept
<1>5. stack'[g] # <<>> /\ Top(g)' = f
    BY <1>1, <1>2 DEF Replaces
<1>6. \A a \in Results : a = answer'[g] => AnsweredBy(f, a)'
    BY DEF AnsweredBy
<1>7. Answered(g)
    BY <1>5, <1>6 DEF Answered
<1>8. QED
    BY <1>1, <1>2, <1>3, <1>4, <1>7, QuietStep

(* A call that makes another. *)
LEMMA InvokeKnown ==
    ASSUME Known, IInv', NEW g \in Goroutines, stack[g] # <<>>,
           NEW c \in Frames, c = Top(g), ~Making(c),
           NEW f \in Frames, NEW d \in Frames, Invoke(g, f, d), SameClasses,
           f.op = c.op, f.of = c.of, f.shared = c.shared, Placed(f), ~Making(f),
           Placed(d), Awaits(f, d), d.pc \in {"lookup", "user"},
           \A h \in Goroutines \ {g} : answer'[h] = answer[h], answer'[g] = None
    PROVE  Known' /\ Grows /\ NothingEnds
<1>1. Replaces(g, 1, <<d, f>>)
    BY InvokeReplaces DEF Known, IInv
<1>2. /\ <<d, f>> \in Seq(Frames) /\ DOMAIN <<d, f>> = {1, 2} /\ Len(<<d, f>>) = 2
      /\ <<d, f>>[1] = d /\ <<d, f>>[2] = f
    OBVIOUS
<1>3. SameMaking(g, 1, <<d, f>>) /\ ~Making(d)
    BY <1>2 DEF SameMaking, Making
<1>4. ShapeKept(g, 1, <<d, f>>)
    <2>1. Len(stack[g]) > 1 => Awaits(stack[g][2], c)
        BY <1>1, BelowAwaits DEF Known, Replaces
    <2>2. Len(stack[g]) > 1 => Awaits(stack[g][2], f)
        BY <2>1 DEF Awaits
    <2>3. QED
        BY <1>2, <2>2 DEF ShapeKept
<1>5. stack'[g] # <<>> /\ Top(g)' = d
    BY <1>1, <1>2 DEF Replaces
<1>6. \A a \in Results : a = answer'[g] => AnsweredBy(d, a)'
    BY DEF AnsweredBy
<1>7. Answered(g)
    BY <1>5, <1>6 DEF Answered
<1>8. \A k \in Frames : Making(k) => ~ \E i \in DOMAIN <<d, f>> : <<d, f>>[i] = k
    BY <1>2, <1>3
<1>9. QED
    BY <1>1, <1>2, <1>3, <1>4, <1>7, <1>8, QuietStep

(* A call that begins, above the others. *)
LEMMA BeginKnown ==
    ASSUME Known, IInv', NEW g \in Goroutines, NEW d \in Frames, Begin(g, d), SameClasses,
           Placed(d), d.op # "prototype", d.pc \in {"lookup", "user"}
    PROVE  Known' /\ Grows /\ NothingEnds
<1>1. /\ stack' = [stack EXCEPT ![g] = <<d>> \o @] /\ UNCHANGED answer
      /\ stack[g] = <<>> \/ Top(g).pc = "user"
    BY DEF Begin, MayCall
<1>2. Replaces(g, 0, <<d>>)
    BY <1>1, PushReplaces DEF Known, IInv
<1>3. <<d>> \in Seq(Frames) /\ DOMAIN <<d>> = {1} /\ Len(<<d>>) = 1 /\ <<d>>[1] = d
    OBVIOUS
<1>4. SameMaking(g, 0, <<d>>) /\ ~Making(d)
    BY <1>3 DEF SameMaking, Making
<1>5. ShapeKept(g, 0, <<d>>)
    <2>1. Len(stack[g]) > 0 => stack[g][1].pc = "user"
        BY <1>1, <1>2 DEF Replaces
    <2>2. Len(stack[g]) > 0 => Awaits(stack[g][1], d)
        BY <2>1 DEF Awaits
    <2>3. QED
        BY <1>3, <2>2 DEF ShapeKept
<1>6. stack'[g] # <<>> /\ Top(g)' = d
    BY <1>2, <1>3 DEF Replaces
<1>7. answer[g] = None
    <2>1. CASE stack[g] = <<>>
        BY <2>1 DEF Known, ClassInv, AnswerInv
    <2>2. CASE stack[g] # <<>> /\ Top(g).pc = "user"
        <3>1. Top(g) \in Frames /\ answer[g] \in Results
            BY <2>2, TopIsFrame DEF Known, IInv, Typed
        <3>2. AnsweredBy(Top(g), answer[g])
            BY <2>2, <3>1 DEF Known, ClassInv, AnswerInv
        <3>3. QED
            BY <2>2, <3>2 DEF AnsweredBy
    <2>3. QED
        BY <1>1, <2>1, <2>2
<1>8. \A a \in Results : a = answer'[g] => AnsweredBy(d, a)'
    BY <1>1, <1>7 DEF AnsweredBy
<1>9. Answered(g)
    BY <1>1, <1>6, <1>8 DEF Answered
<1>10. \A k \in Frames : Making(k) => ~ \E i \in DOMAIN <<d>> : <<d>>[i] = k
    BY <1>3, <1>4
<1>11. QED
    BY <1>2, <1>3, <1>4, <1>5, <1>9, <1>10, QuietStep

-----------------------------------------------------------------------------
(* The steps that make no class. *)

(* What is known of the running call. *)
LEMMA TopKnown ==
    ASSUME Known, NEW g \in Goroutines, stack[g] # <<>>
    PROVE  /\ Typed /\ Top(g) \in Frames /\ Top(g) \in FrameRecords
           /\ Placed(Top(g)) /\ Running(Top(g))
           /\ answer[g] \in Results /\ AnsweredBy(Top(g), answer[g])
<1>1. Typed /\ Top(g) \in Frames /\ answer[g] \in Results
    BY TopIsFrame DEF Known, IInv, Typed
<1>2. stack[g] \in Seq(Frames)
    BY <1>1 DEF Typed
<1>3. 1 \in DOMAIN stack[g] /\ Top(g) = stack[g][1]
    BY <1>2 DEF Top
<1>4. Placed(Top(g)) /\ Running(Top(g))
    BY <1>3 DEF Known, ShapeInv, Running
<1>5. QED
    BY <1>1, <1>4 DEF Frames, Known, ClassInv, AnswerInv

(* A step that changes nothing. *)
LEMMA StutterKnown ==
    ASSUME Known, UNCHANGED rest
    PROVE  Known' /\ Grows /\ NothingEnds
<1>1. UNCHANGED <<receivers, receiver, class, templates, prototypes, constructors, stack, answer>>
    BY DEF rest, links, classes
<1>2. IInv'
    BY <1>1 DEF Known, IInv, Typed, ReceiversAgree
<1>3. ShapeInv' /\ UniqueInv'
    BY <1>1 DEF Known, ClassInv, ShapeInv, UniqueInv, Making
<1>4. ASSUME NEW t PROVE Finished(t)' <=> Finished(t)
    BY <1>1 DEF Finished, InProgress, Making
<1>5. Grows
    BY <1>1, <1>4 DEF Grows
<1>6. ASSUME NEW t, NEW type PROVE OfType(t, type)' <=> OfType(t, type)
    BY <1>1, <1>4 DEF OfType
<1>7. TemplatesInv'
    BY <1>1, <1>4, <1>6 DEF Known, ClassInv, TemplatesInv
<1>8. MakingInv'
    BY <1>1, <1>6 DEF Known, ClassInv, MakingInv, Begun, Running
<1>9. AnswerInv'
    BY <1>1, <1>6 DEF Known, ClassInv, AnswerInv, AnsweredBy, Top
<1>10. NothingEnds
    BY <1>1, <1>4 DEF NothingEnds, Running
<1>11. QED
    BY <1>2, <1>3, <1>5, <1>7, <1>8, <1>9, <1>10 DEF Known, ClassInv

(* create looks its object up. *)
LEMMA LookupKnown ==
    ASSUME Known, NEW g \in Goroutines, Lookup(g)
    PROVE  Known' /\ Grows /\ NothingEnds
<1>1. stack[g] # <<>> /\ Top(g).op = "create" /\ Top(g).pc = "lookup"
    BY DEF Lookup, AtStep
<1>2. PICK c \in Frames : c = Top(g)
    BY <1>1, TopKnown
<1>3. /\ Typed /\ c \in FrameRecords /\ c.op = "create" /\ c.pc = "lookup" /\ ~Making(c)
      /\ c.of \in Objects /\ answer[g] = None
    BY <1>1, <1>2, TopKnown DEF Frames, Sound, Making, AnsweredBy
<1>4. SameClasses /\ IInv'
    BY ClassesStay, LookupIInv DEF Lookup, Known
<1> DEFINE known == receivers[AddressOf[c.of]]
<1>5. CASE known # None /\ AnswerCreate(g, c.of, known)
    <2>1. PICK r \in Results : r = known
        BY <1>3, ObjectsAssumption DEF Typed, Results
    <2>2. Return(g, r)
        BY <1>5, <2>1 DEF AnswerCreate
    <2>3. QED
        BY <1>1, <1>2, <1>3, <1>4, <2>2, ReturnKnown
<1>6. CASE Continue(g, [c EXCEPT !.pc = "error"]) /\ UNCHANGED answer
    <2>1. PICK f \in Frames : f = [c EXCEPT !.pc = "error"]
        BY <1>3 DEF Frames, FrameRecords, Sound
    <2>2. /\ f.op = c.op /\ f.of = c.of /\ f.shared = c.shared /\ f.pc = "error"
        BY <1>3, <2>1 DEF FrameRecords
    <2>3. Placed(f) /\ ~Making(f)
        BY <1>3, <2>2 DEF Placed, Making
    <2>4. QED
        BY <1>1, <1>2, <1>3, <1>4, <1>6, <2>1, <2>2, <2>3, ContinueKnown
<1>7. CASE /\ TypeOf[c.of] # ErrorType /\ UNCHANGED answer
           /\ Invoke(g, [c EXCEPT !.pc = "instance"], Call("prototype", "lookup", TypeOf[c.of], TRUE))
    <2>1. PICK f \in Frames : f = [c EXCEPT !.pc = "instance"]
        BY <1>3 DEF Frames, FrameRecords, Sound
    <2>2. f.op = c.op /\ f.of = c.of /\ f.shared = c.shared /\ f.pc = "instance"
        BY <1>3, <2>1 DEF FrameRecords
    <2>3. TypeOf[c.of] \in Types
        BY <1>3, <1>7, ObjectsAssumption
    <2>4. PICK d \in Frames : d = Call("prototype", "lookup", TypeOf[c.of], TRUE)
        BY <2>3, CallIsFrame
    <2>5. Placed(f) /\ ~Making(f) /\ Placed(d) /\ Awaits(f, d) /\ d.pc = "lookup"
        BY <1>3, <2>2, <2>4 DEF Placed, Making, Awaits, Call
    <2>6. QED
        BY <1>1, <1>2, <1>3, <1>4, <1>7, <2>1, <2>2, <2>4, <2>5, InvokeKnown
<1>8. QED
    BY <1>2, <1>5, <1>6, <1>7 DEF Lookup

(* create makes an Error. *)
LEMMA MakeErrorKnown ==
    ASSUME Known, NEW g \in Goroutines, MakeError(g)
    PROVE  Known' /\ Grows /\ NothingEnds
<1>1. stack[g] # <<>> /\ Top(g).op = "create" /\ Top(g).pc = "error"
    BY DEF MakeError, AtStep
<1>2. PICK c \in Frames : c = Top(g)
    BY <1>1, TopKnown
<1>3. Typed /\ c \in FrameRecords /\ c.op = "create" /\ c.pc = "error" /\ ~Making(c) /\ c.of \in Objects
    BY <1>1, <1>2, TopKnown DEF Frames, Sound, Making
<1>4. IInv' /\ UNCHANGED classes
    BY MakeErrorIInv DEF MakeError, Known
<1>5. CASE Return(g, Failed) /\ UNCHANGED class
    <2>1. SameClasses /\ Failed \in Results
        BY <1>4, <1>5, ClassesStay DEF Results
    <2>2. QED
        BY <1>1, <1>2, <1>3, <1>4, <1>5, <2>1, ReturnKnown
<1>6. CASE /\ HandleLeft /\ class' = [class EXCEPT ![NewHandle] = ErrorType]
           /\ Continue(g, [c EXCEPT !.pc = "receive", !.made = NewHandle]) /\ UNCHANGED answer
    <2>1. NewHandle \in Handles
        BY <1>6 DEF HandleLeft, NewHandle
    <2>2. PICK f \in Frames : f = [c EXCEPT !.pc = "receive", !.made = NewHandle]
        BY <1>3, <2>1 DEF Frames, FrameRecords, Sound, Results
    <2>3. f.op = c.op /\ f.of = c.of /\ f.shared = c.shared /\ f.pc = "receive"
        BY <1>3, <2>2 DEF FrameRecords
    <2>4. Placed(f) /\ ~Making(f)
        BY <1>3, <2>3 DEF Placed, Making
    <2>5. /\ class' \in [Handles -> Templates \cup {None, ErrorType}]
          /\ \A h \in Handles : class'[h] = class[h] \/ class'[h] = ErrorType
        BY <1>6 DEF Known, ClassInv, TemplatesInv
    <2>6. SameClasses
        BY <1>4, <2>5, NoneAssumption DEF SameClasses, Known, ClassInv, TemplatesInv, classes
    <2>7. QED
        BY <1>1, <1>2, <1>3, <1>4, <1>6, <2>2, <2>3, <2>4, <2>6, ContinueKnown
<1>7. QED
    BY <1>2, <1>5, <1>6 DEF MakeError

(* A class that JavaScript sees is otherwise the same. *)
LEMMA SeenSame ==
    ASSUME Known, NEW t, Finished(t), NEW user \in BOOLEAN,
           templates' = [templates EXCEPT ![t] = [@ EXCEPT !.user = user, !.seen = TRUE]]
    PROVE  /\ templates' \in [Templates -> TemplateRecords \cup {None}]
           /\ \A s \in Templates :
                 /\ templates[s] = None => templates'[s] = None
                 /\ templates[s] # None =>
                       /\ templates'[s] # None
                       /\ templates'[s].type = templates[s].type
                       /\ templates'[s].shared = templates[s].shared
                       /\ templates'[s].members = templates[s].members
                       /\ templates'[s].parent = templates[s].parent
                       /\ templates'[s].seen => templates[s].seen \/ Finished(s)
<1>1. t \in Templates /\ templates[t] # None /\ templates \in [Templates -> TemplateRecords \cup {None}]
    BY DEF Known, ClassInv, TemplatesInv, Finished
<1>2. templates[t] \in TemplateRecords
    BY <1>1
<1> DEFINE r == [templates[t] EXCEPT !.user = user, !.seen = TRUE]
<1>3. /\ r \in TemplateRecords /\ r.type = templates[t].type /\ r.shared = templates[t].shared
      /\ r.members = templates[t].members /\ r.parent = templates[t].parent
    BY <1>2 DEF TemplateRecords
<1>4. r # None
    BY <1>3, NoneAssumption
<1> HIDE DEF r
<1>5. templates' = [templates EXCEPT ![t] = r]
    BY DEF r
<1>6. templates' \in [Templates -> TemplateRecords \cup {None}]
    BY <1>1, <1>3, <1>5
<1>7. QED
    BY <1>1, <1>3, <1>4, <1>5, <1>6

(* create makes an instance of the class it asked for, which is finished. *)
LEMMA InstanceKnown ==
    ASSUME Known, NEW g \in Goroutines, Instance(g)
    PROVE  Known' /\ Grows /\ NothingEnds
<1>1. stack[g] # <<>> /\ Top(g).op = "create" /\ Top(g).pc = "instance"
    BY DEF Instance, AtStep
<1>2. PICK c \in Frames : c = Top(g)
    BY <1>1, TopKnown
<1> DEFINE t == answer[g]
<1>3. /\ Typed /\ c \in FrameRecords /\ c.op = "create" /\ c.pc = "instance" /\ ~Making(c)
      /\ c.of \in Objects /\ Finished(t)
    BY <1>1, <1>2, TopKnown DEF Frames, Sound, Making, AnsweredBy, OfType
<1>4. IInv' /\ UNCHANGED <<prototypes, constructors>>
    BY InstanceIInv DEF Instance, Known
<1>5. NewHandle \in Handles
    BY DEF Instance, HandleLeft, NewHandle
<1>6. PICK f \in Frames : f = [c EXCEPT !.pc = "receive", !.made = NewHandle]
    BY <1>3, <1>5 DEF Frames, FrameRecords, Sound, Results
<1>7. /\ f.op = c.op /\ f.of = c.of /\ f.shared = c.shared /\ f.pc = "receive" /\ f.made = NewHandle
    BY <1>3, <1>6 DEF FrameRecords
<1>8. Placed(f) /\ ~Making(f)
    BY <1>3, <1>7 DEF Placed, Making
<1>9. SameClasses
    <2>1. templates[t] \in TemplateRecords /\ templates \in [Templates -> TemplateRecords \cup {None}]
        BY <1>3 DEF Known, ClassInv, TemplatesInv, Finished
    <2>2. templates[t].user \in BOOLEAN /\ [templates[t] EXCEPT !.user = templates[t].user] = templates[t]
        BY <2>1 DEF TemplateRecords
    <2>3. templates' = [templates EXCEPT ![t] = [@ EXCEPT !.user = templates[t].user, !.seen = TRUE]]
        <3>1. templates' = [templates EXCEPT ![t] = [templates[t] EXCEPT !.seen = TRUE]]
            BY DEF Instance
        <3>2. [templates[t] EXCEPT !.seen = TRUE]
                  = [templates[t] EXCEPT !.user = templates[t].user, !.seen = TRUE]
            BY <2>1 DEF TemplateRecords
        <3>3. QED
            BY <3>1, <3>2
    <2>4. /\ templates' \in [Templates -> TemplateRecords \cup {None}]
          /\ \A s \in Templates :
                /\ templates[s] = None => templates'[s] = None
                /\ templates[s] # None =>
                      /\ templates'[s] # None
                      /\ templates'[s].type = templates[s].type
                      /\ templates'[s].shared = templates[s].shared
                      /\ templates'[s].members = templates[s].members
                      /\ templates'[s].parent = templates[s].parent
                      /\ templates'[s].seen => templates[s].seen \/ Finished(s)
        BY <1>3, <2>2, <2>3, SeenSame
    <2>5. \A h \in Handles : class'[h] = class[h] \/ class'[h] = t
        BY DEF Instance, Known, ClassInv, TemplatesInv
    <2>6. t \in Templates
        BY <1>3 DEF Finished
    <2>7. /\ class' \in [Handles -> Templates \cup {None, ErrorType}]
          /\ \A h \in Handles : class'[h] \in Templates => Finished(class'[h])
        BY <1>3, <2>5, <2>6 DEF Instance, Known, ClassInv, TemplatesInv
    <2>8. QED
        BY <1>4, <2>4, <2>7 DEF SameClasses
<1>10. answer'[g] = None /\ \A h \in Goroutines \ {g} : answer'[h] = answer[h]
    BY <1>3 DEF Instance, Typed
<1>11. CASE Invoke(g, f, Call("new", "user", NewHandle, TRUE))
    <2>1. PICK d \in Frames : d = Call("new", "user", NewHandle, TRUE)
        BY <1>5, CallIsFrame
    <2>2. Placed(d) /\ Awaits(f, d) /\ d.pc = "user"
        BY <1>3, <1>5, <1>7, <2>1 DEF Placed, Awaits, Call
    <2>3. QED
        BY <1>1, <1>2, <1>3, <1>4, <1>7, <1>8, <1>9, <1>10, <1>11, <2>1, <2>2, InvokeKnown
<1>12. CASE Continue(g, f)
    BY <1>1, <1>2, <1>3, <1>4, <1>7, <1>8, <1>9, <1>10, <1>12, ContinueKnown
<1>13. QED
    BY <1>2, <1>6, <1>11, <1>12 DEF Instance

(* create sets the receiver. *)
LEMMA ReceiveKnown ==
    ASSUME Known, NEW g \in Goroutines, Receive(g)
    PROVE  Known' /\ Grows /\ NothingEnds
<1>1. stack[g] # <<>> /\ Top(g).op = "create" /\ Top(g).pc = "receive"
    BY DEF Receive, AtStep
<1>2. PICK c \in Frames : c = Top(g)
    BY <1>1, TopKnown
<1>3. /\ Typed /\ c \in FrameRecords /\ c.op = "create" /\ c.pc = "receive" /\ ~Making(c)
      /\ c.of \in Objects /\ Instantiated(g) \in Handles
    BY <1>1, <1>2, TopKnown DEF Frames, Sound, Making, Instantiated
<1>4. IInv' /\ SameClasses
    BY ReceiveIInv, ClassesStay DEF Receive, Known
<1>5. CASE Return(g, Failed)
    BY <1>1, <1>2, <1>3, <1>4, <1>5, ReturnKnown DEF Results
<1>6. CASE /\ Continue(g, [[c EXCEPT !.made = Instantiated(g)] EXCEPT !.pc = "user"])
           /\ answer' = [answer EXCEPT ![g] = None]
    <2>1. PICK f \in Frames : f = [[c EXCEPT !.made = Instantiated(g)] EXCEPT !.pc = "user"]
        BY <1>3 DEF Frames, FrameRecords, Sound, Results
    <2>2. f.op = c.op /\ f.of = c.of /\ f.shared = c.shared /\ f.pc = "user"
        BY <1>3, <2>1 DEF FrameRecords
    <2>3. Placed(f) /\ ~Making(f)
        BY <1>3, <2>2 DEF Placed, Making
    <2>4. answer'[g] = None /\ \A h \in Goroutines \ {g} : answer'[h] = answer[h]
        BY <1>3, <1>6 DEF Typed
    <2>5. QED
        BY <1>1, <1>2, <1>3, <1>4, <1>6, <2>1, <2>2, <2>3, <2>4, ContinueKnown
<1>7. CASE Return(g, [c EXCEPT !.made = Instantiated(g)].made)
    <2>1. PICK r \in Results : r = [c EXCEPT !.made = Instantiated(g)].made
        BY <1>3 DEF FrameRecords, Results
    <2>2. QED
        BY <1>1, <1>2, <1>3, <1>4, <1>7, <2>1, ReturnKnown
<1>8. QED
    BY <1>2, <1>5, <1>6, <1>7 DEF Receive, AnswerCreate

(* create returns from V8Construct. *)
LEMMA EndConstructKnown ==
    ASSUME Known, NEW g \in Goroutines, EndConstruct(g)
    PROVE  Known' /\ Grows /\ NothingEnds
<1>1. stack[g] # <<>> /\ Top(g).op = "create" /\ Top(g).pc = "user"
    BY DEF EndConstruct, AtStep
<1>2. PICK c \in Frames : c = Top(g)
    BY <1>1, TopKnown
<1>3. c.op = "create" /\ ~Making(c) /\ c.made \in Results
    BY <1>1, <1>2 DEF Making, Frames, FrameRecords
<1>4. IInv' /\ SameClasses
    BY EndConstructIInv, ClassesStay DEF EndConstruct, Known
<1>5. PICK r \in Results : r = c.made
    BY <1>3
<1>6. Return(g, r)
    BY <1>2, <1>5 DEF EndConstruct, AnswerCreate
<1>7. QED
    BY <1>1, <1>2, <1>3, <1>4, <1>6, ReturnKnown

(* createConstructor looks its type up. *)
LEMMA LookupConstructorKnown ==
    ASSUME Known, NEW g \in Goroutines, LookupConstructor(g)
    PROVE  Known' /\ Grows /\ NothingEnds
<1>1. stack[g] # <<>> /\ Top(g).op = "constructor" /\ Top(g).pc = "lookup"
    BY DEF LookupConstructor, AtStep
<1>2. PICK c \in Frames : c = Top(g)
    BY <1>1, TopKnown
<1>3. /\ Typed /\ c \in FrameRecords /\ c.op = "constructor" /\ c.pc = "lookup" /\ ~Making(c)
      /\ c.of \in Types /\ c.shared \in BOOLEAN /\ answer[g] = None
    BY <1>1, <1>2, TopKnown DEF Frames, FrameRecords, Sound, Making, AnsweredBy
<1>4. IInv' /\ SameClasses
    BY LookupConstructorIInv, ClassesStay DEF LookupConstructor, Known
<1>5. CASE Return(g, constructors[c.of])
    <2>1. PICK r \in Results : r = constructors[c.of]
        BY <1>3 DEF Typed
    <2>2. QED
        BY <1>1, <1>2, <1>3, <1>4, <1>5, <2>1, ReturnKnown
<1>6. CASE /\ Invoke(g, [c EXCEPT !.pc = "function"], Call("prototype", "lookup", c.of, c.shared))
           /\ UNCHANGED answer
    <2>1. PICK f \in Frames : f = [c EXCEPT !.pc = "function"]
        BY <1>3 DEF Frames, FrameRecords, Sound
    <2>2. f.op = c.op /\ f.of = c.of /\ f.shared = c.shared /\ f.pc = "function"
        BY <1>3, <2>1 DEF FrameRecords
    <2>3. PICK d \in Frames : d = Call("prototype", "lookup", c.of, c.shared)
        BY <1>3, CallIsFrame
    <2>4. Placed(f) /\ ~Making(f) /\ Placed(d) /\ Awaits(f, d) /\ d.pc = "lookup"
        BY <1>3, <2>2, <2>3 DEF Placed, Making, Awaits, Call
    <2>5. QED
        BY <1>1, <1>2, <1>3, <1>4, <1>6, <2>1, <2>2, <2>3, <2>4, InvokeKnown
<1>7. QED
    BY <1>2, <1>5, <1>6 DEF LookupConstructor

(* createConstructor adds the constructor to the class it asked for. *)
LEMMA EndConstructorKnown ==
    ASSUME Known, NEW g \in Goroutines, EndConstructor(g)
    PROVE  Known' /\ Grows /\ NothingEnds
<1>1. stack[g] # <<>> /\ Top(g).op = "constructor" /\ Top(g).pc = "function"
    BY DEF EndConstructor, AtStep
<1>2. PICK c \in Frames : c = Top(g)
    BY <1>1, TopKnown
<1>3. PICK t \in Results : t = answer[g]
    BY <1>1, TopKnown
<1>4. /\ Typed /\ c.op = "constructor" /\ ~Making(c) /\ c.of \in Types
      /\ OfType(t, c.of) /\ templates[t].shared = c.shared
    BY <1>1, <1>2, <1>3, TopKnown DEF Frames, Sound, Making, AnsweredBy
<1>5. IInv'
    BY EndConstructorIInv DEF Known
<1>6. SameClasses
    <2>1. /\ Finished(t) /\ t \in Templates /\ t # None
          /\ templates[t] \in TemplateRecords /\ templates \in [Templates -> TemplateRecords \cup {None}]
        BY <1>4, NoneAssumption DEF Known, ClassInv, TemplatesInv, OfType, Finished
    <2>2. templates' = [templates EXCEPT ![t] = [@ EXCEPT !.user = TRUE, !.seen = TRUE]]
        <3>1. templates' = [templates EXCEPT ![t].user = TRUE, ![t].seen = TRUE]
            BY <1>3 DEF EndConstructor
        <3>2. QED
            BY <2>1, <3>1
    <2>3. /\ templates' \in [Templates -> TemplateRecords \cup {None}]
          /\ \A s \in Templates :
                /\ templates[s] = None => templates'[s] = None
                /\ templates[s] # None =>
                      /\ templates'[s] # None
                      /\ templates'[s].type = templates[s].type
                      /\ templates'[s].shared = templates[s].shared
                      /\ templates'[s].members = templates[s].members
                      /\ templates'[s].parent = templates[s].parent
                      /\ templates'[s].seen => templates[s].seen \/ Finished(s)
        BY <2>1, <2>2, SeenSame
    <2>4. \A type \in Types :
              /\ prototypes'[type] = prototypes[type] \/ (type = c.of /\ c.shared /\ prototypes'[type] = t)
              /\ constructors'[type] = constructors[type] \/ constructors'[type] = t
        BY <1>2, <1>3, <1>4 DEF EndConstructor, Typed
    <2>5. UNCHANGED class
        BY DEF EndConstructor
    <2>6. /\ class' \in [Handles -> Templates \cup {None, ErrorType}]
          /\ \A h \in Handles : class'[h] \in Templates => Finished(class'[h])
        BY <2>5 DEF Known, ClassInv, TemplatesInv
    <2>7. QED
        BY <1>4, <2>1, <2>3, <2>4, <2>6 DEF SameClasses
<1>7. Return(g, t)
    BY <1>3 DEF EndConstructor
<1>8. QED
    BY <1>1, <1>2, <1>4, <1>5, <1>6, <1>7, ReturnKnown

(* The user's constructor returns. *)
LEMMA ConstructorReturnsKnown ==
    ASSUME Known, NEW g \in Goroutines, ConstructorReturns(g)
    PROVE  Known' /\ Grows /\ NothingEnds
<1>1. stack[g] # <<>> /\ Top(g).op = "new" /\ Top(g).pc = "user"
    BY DEF ConstructorReturns, AtStep
<1>2. PICK c \in Frames : c = Top(g)
    BY <1>1, TopKnown
<1>3. c.op = "new" /\ ~Making(c)
    BY <1>1, <1>2 DEF Making
<1>4. IInv' /\ SameClasses
    BY ConstructorReturnsIInv, ClassesStay DEF ConstructorReturns, Known
<1>5. \E r \in Results : Return(g, r)
    BY DEF ConstructorReturns, Results
<1>6. QED
    BY <1>1, <1>2, <1>3, <1>4, <1>5, ReturnKnown

(* V8Construct returns. *)
LEMMA EndUseKnown ==
    ASSUME Known, NEW g \in Goroutines, EndUse(g)
    PROVE  Known' /\ Grows /\ NothingEnds
<1>1. stack[g] # <<>> /\ Top(g).op = "use" /\ Top(g).pc = "user"
    BY DEF EndUse, AtStep
<1>2. PICK c \in Frames : c = Top(g)
    BY <1>1, TopKnown
<1>3. c.op = "use" /\ ~Making(c)
    BY <1>1, <1>2 DEF Making
<1>4. IInv' /\ SameClasses
    BY EndUseIInv, ClassesStay DEF EndUse, Known
<1>5. Return(g, None) /\ None \in Results
    BY DEF EndUse, Results
<1>6. QED
    BY <1>1, <1>2, <1>3, <1>4, <1>5, ReturnKnown

(* A step that leaves the calls where they are. *)
LEMMA SameStackKnown ==
    ASSUME Known, IInv', SameClasses, UNCHANGED <<stack, answer>>, NEW g \in Goroutines
    PROVE  Known' /\ Grows /\ NothingEnds
<1>1. stack[g] \in Seq(Frames)
    BY DEF Known, IInv, Typed
<1>2. /\ Len(stack[g]) \in Nat /\ DOMAIN stack[g] = 1 .. Len(stack[g])
      /\ stack[g] = <<>> <=> Len(stack[g]) = 0
      /\ stack[g] # <<>> => Top(g) = stack[g][1]
    BY <1>1 DEF Top
<1>3. <<>> \in Seq(Frames) /\ DOMAIN <<>> = {} /\ Len(<<>>) = 0
    OBVIOUS
<1>4. Replaces(g, 0, <<>>)
    BY <1>2, <1>3 DEF Replaces, Top
<1>5. SameMaking(g, 0, <<>>) /\ ShapeKept(g, 0, <<>>)
    BY <1>3 DEF SameMaking, ShapeKept
<1>6. Grows
    BY <1>3, <1>4, <1>5, QuietGrows
<1>7. ASSUME NEW f \in Frames, NEW a \in Results, stack'[g] # <<>>, f = Top(g)', a = answer'[g]
      PROVE  AnsweredBy(f, a)'
    <2>1. stack[g] # <<>> /\ f = Top(g) /\ a = answer[g]
        BY <1>7 DEF Top
    <2>2. Placed(f) /\ AnsweredBy(f, a)
        BY <2>1, TopKnown
    <2>3. QED
        BY <1>6, <2>2, AnsweredStays
<1>8. Answered(g)
    BY <1>7 DEF Answered, Known, ClassInv, AnswerInv
<1>9. QED
    BY <1>3, <1>4, <1>5, <1>8, QuietStep

(* A call of create begins. *)
LEMMA BeginCreateKnown ==
    ASSUME Known, NEW g \in Goroutines, NEW o \in Objects, BeginCreate(g, o)
    PROVE  Known' /\ Grows /\ NothingEnds
<1>1. PICK d \in Frames : d = Call("create", "lookup", o, TRUE)
    BY CallIsFrame
<1>2. Begin(g, d)
    BY <1>1 DEF BeginCreate
<1>3. IInv' /\ SameClasses
    BY <1>2, BeginIInv, ClassesStay DEF BeginCreate, Begin, Known
<1>4. Placed(d) /\ d.op # "prototype" /\ d.pc = "lookup"
    BY <1>1 DEF Placed, Call
<1>5. QED
    BY <1>2, <1>3, <1>4, BeginKnown

(* A call of createConstructor begins. *)
LEMMA BeginConstructorKnown ==
    ASSUME Known, NEW g \in Goroutines, NEW type \in Constructed, NEW shared \in BOOLEAN,
           BeginConstructor(g, type, shared)
    PROVE  Known' /\ Grows /\ NothingEnds
<1>1. PICK d \in Frames : d = Call("constructor", "lookup", type, shared)
    BY CallIsFrame, TypesAssumption
<1>2. Begin(g, d)
    BY <1>1 DEF BeginConstructor
<1>3. IInv' /\ SameClasses
    BY <1>2, BeginIInv, ClassesStay DEF BeginConstructor, Begin, Known
<1>4. Placed(d) /\ d.op # "prototype" /\ d.pc = "lookup"
    BY <1>1 DEF Placed, Call
<1>5. QED
    BY <1>2, <1>3, <1>4, BeginKnown

(* JavaScript makes an instance of a class it has seen, which is finished. *)
LEMMA BeginNewKnown ==
    ASSUME Known, NEW g \in Goroutines, NEW t \in Templates, BeginNew(g, t)
    PROVE  Known' /\ Grows /\ NothingEnds
<1>1. NewHandle \in Handles /\ UNCHANGED classes
    BY DEF BeginNew, HandleLeft, NewHandle, Begin
<1>2. Finished(t)
    BY DEF BeginNew, Known, ClassInv, TemplatesInv
<1>3. \A h \in Handles : class'[h] = class[h] \/ class'[h] = t
    BY DEF BeginNew, Known, ClassInv, TemplatesInv
<1>4. /\ class' \in [Handles -> Templates \cup {None, ErrorType}]
      /\ \A h \in Handles : class'[h] \in Templates => Finished(class'[h])
    BY <1>2, <1>3 DEF BeginNew, Known, ClassInv, TemplatesInv
<1>5. IInv'
    BY BeginNewIInv DEF Known
<1>6. SameClasses
    BY <1>1, <1>4 DEF SameClasses, Known, ClassInv, TemplatesInv, classes
<1>7. CASE Begin(g, Call("new", "user", NewHandle, TRUE))
    <2>1. PICK d \in Frames : d = Call("new", "user", NewHandle, TRUE)
        BY <1>1, CallIsFrame
    <2>2. Placed(d) /\ d.op # "prototype" /\ d.pc = "user"
        BY <1>1, <2>1 DEF Placed, Call
    <2>3. QED
        BY <1>5, <1>6, <1>7, <2>1, <2>2, BeginKnown
<1>8. CASE UNCHANGED <<stack, answer>>
    BY <1>5, <1>6, <1>8, SameStackKnown
<1>9. QED
    BY <1>7, <1>8 DEF BeginNew

(* A member is used. *)
LEMMA UseMemberKnown ==
    ASSUME Known, NEW g \in Goroutines, NEW h \in Handles, NEW n \in Names, UseMember(g, h, n)
    PROVE  Known' /\ Grows /\ NothingEnds
<1>1. PICK d \in Frames : d = Call("use", "user", h, TRUE)
    BY CallIsFrame
<1>2. Begin(g, d)
    BY <1>1 DEF UseMember
<1>3. IInv' /\ SameClasses
    BY <1>2, UseMemberIInv, ClassesStay DEF UseMember, Begin, Known
<1>4. Placed(d) /\ d.op # "prototype" /\ d.pc = "user"
    BY <1>1 DEF Placed, Call
<1>5. QED
    BY <1>2, <1>3, <1>4, BeginKnown

-----------------------------------------------------------------------------
(* Classes that are made. *)

(* The fresh calls: f goes on making the class, below the call for the base it takes next. *)
Embeds(g, b, fresh, f) ==
    /\ Replaces(g, 1, fresh) /\ ShapeKept(g, 1, fresh)
    /\ \E k \in DOMAIN fresh :
          fresh[k] = f /\ \A i \in DOMAIN fresh : Making(fresh[i]) => i = k
    /\ Making(f) /\ f.of = b.of /\ f.shared = b.shared
    /\ f.made = b.made /\ f.bases = b.bases
    /\ f.pc = "end" => Len(b.bases) = Len(Bases[b.of])
    /\ stack'[g] # <<>> /\ Top(g)' \in Frames /\ Top(g)'.pc \in {"lookup", "end"}
    /\ fresh # <<>> /\ \A i \in DOMAIN fresh : fresh[i].op = "prototype"

(* The next base is asked for, or the class is about to end. *)
LEMMA EmbedShape ==
    ASSUME Known, NEW g \in Goroutines, stack[g] # <<>>,
           NEW c \in Frames, c = Top(g), c.op = "prototype",
           NEW b \in FrameRecords, b.op = "prototype", b.of = c.of, b.shared = c.shared,
           b.of \in Types, Len(b.bases) <= Len(Bases[b.of]), Embed(g, b)
    PROVE  \E fresh \in Seq(Frames), f \in Frames : Embeds(g, b, fresh, f)
<1> DEFINE next == Len(b.bases) + 1
<1>1. Typed
    BY DEF Known, IInv
<1>2. /\ b.bases \in Seq(Results) /\ Bases[b.of] \in Seq(Types)
      /\ Len(b.bases) \in Nat /\ Len(Bases[b.of]) \in Nat
    BY TypesAssumption DEF FrameRecords
<1>3. CASE next <= Len(Bases[b.of])
    <2>1. Bases[b.of][next] \in Types
        BY <1>2, <1>3
    <2>2. PICK d \in Frames : d = Call("prototype", "lookup", Bases[b.of][next], TRUE)
        BY <2>1, CallIsFrame
    <2>3. [b EXCEPT !.pc = "base"] \in Frames
        <3>1. Len(b.bases) < Len(Bases[b.of])
            BY <1>2, <1>3
        <3>2. QED
            BY <3>1 DEF Frames, FrameRecords, Sound
    <2>4. PICK f \in Frames : f = [b EXCEPT !.pc = "base"]
        BY <2>3
    <2>5. /\ f.op = "prototype" /\ f.pc = "base" /\ f.of = b.of /\ f.shared = b.shared
          /\ f.made = b.made /\ f.bases = b.bases
        BY <2>4 DEF FrameRecords
    <2>6. Invoke(g, f, d)
        BY <1>3, <2>2, <2>4 DEF Embed
    <2>7. Replaces(g, 1, <<d, f>>)
        BY <1>1, <2>6, InvokeReplaces
    <2>8. /\ <<d, f>> \in Seq(Frames) /\ DOMAIN <<d, f>> = {1, 2} /\ Len(<<d, f>>) = 2
          /\ <<d, f>>[1] = d /\ <<d, f>>[2] = f
        OBVIOUS
    <2>9. Placed(f) /\ Making(f) /\ Placed(d) /\ ~Making(d) /\ Awaits(f, d) /\ d.pc = "lookup"
        BY <2>2, <2>5 DEF Placed, Making, Awaits, Call
    <2>10. ShapeKept(g, 1, <<d, f>>)
        <3>1. Len(stack[g]) > 1 => Awaits(stack[g][2], c)
            BY <2>7, BelowAwaits DEF Known, Replaces
        <3>2. Len(stack[g]) > 1 => Awaits(stack[g][2], f)
            BY <2>5, <3>1 DEF Awaits
        <3>3. QED
            BY <2>8, <2>9, <3>2 DEF ShapeKept
    <2>11. stack'[g] # <<>> /\ Top(g)' = d
        BY <2>7, <2>8 DEF Replaces
    <2>12. \E k \in DOMAIN <<d, f>> :
               <<d, f>>[k] = f /\ \A i \in DOMAIN <<d, f>> : Making(<<d, f>>[i]) => i = k
        BY <2>8, <2>9
    <2> DEFINE fresh == <<d, f>>
    <2>13. fresh # <<>> /\ \A i \in DOMAIN fresh : fresh[i].op = "prototype"
        BY <2>2, <2>5, <2>8 DEF Call
    <2>14. QED
        BY <2>5, <2>7, <2>8, <2>9, <2>10, <2>11, <2>12, <2>13 DEF Embeds
<1>4. CASE ~(next <= Len(Bases[b.of]))
    <2>1. [b EXCEPT !.pc = "end"] \in Frames
        BY DEF Frames, FrameRecords, Sound
    <2>2. PICK f \in Frames : f = [b EXCEPT !.pc = "end"]
        BY <2>1
    <2>3. /\ f.op = "prototype" /\ f.pc = "end" /\ f.of = b.of /\ f.shared = b.shared
          /\ f.made = b.made /\ f.bases = b.bases
        BY <2>2 DEF FrameRecords
    <2>4. Continue(g, f)
        BY <1>4, <2>2 DEF Embed
    <2> DEFINE fresh == <<f>>
    <2>5. Replaces(g, 1, fresh)
        BY <1>1, <2>4, ContinueReplaces
    <2>6. fresh \in Seq(Frames) /\ DOMAIN fresh = {1} /\ Len(fresh) = 1 /\ fresh[1] = f
        OBVIOUS
    <2>7. Placed(f) /\ Making(f)
        BY <2>3 DEF Placed, Making
    <2>8. ShapeKept(g, 1, fresh)
        <3>1. Len(stack[g]) > 1 => Awaits(stack[g][2], c)
            BY <2>5, BelowAwaits DEF Known, Replaces
        <3>2. Len(stack[g]) > 1 => Awaits(stack[g][2], f)
            BY <2>3, <3>1 DEF Awaits
        <3>3. QED
            BY <2>6, <2>7, <3>2 DEF ShapeKept
    <2>9. stack'[g] # <<>> /\ Top(g)' = f
        BY <2>5, <2>6 DEF Replaces
    <2>10. Len(b.bases) = Len(Bases[b.of])
        BY <1>2, <1>4
    <2>11. \E k \in DOMAIN fresh : fresh[k] = f /\ \A i \in DOMAIN fresh : Making(fresh[i]) => i = k
        BY <2>6
    <2>12. fresh # <<>> /\ \A i \in DOMAIN fresh : fresh[i].op = "prototype"
        BY <2>3, <2>6
    <2> HIDE DEF fresh
    <2>13. QED
        BY <2>3, <2>5, <2>6, <2>7, <2>8, <2>9, <2>10, <2>11, <2>12 DEF Embeds
<1>5. QED
    BY <1>3, <1>4

(* A set of positions has a greatest one. *)
LEMMA GreatestExists ==
    ASSUME NEW n \in Nat, NEW S \in SUBSET (2 .. n), S # {}
    PROVE  \E i \in S : \A j \in S : j <= i
<1> DEFINE T == {n - i : i \in S}
<1>1. T \subseteq Nat
    <2>1. ASSUME NEW i \in S PROVE n - i \in Nat
        OBVIOUS
    <2>2. QED
        BY <2>1
<1>2. T # {}
    <2>1. PICK i \in S : TRUE
        OBVIOUS
    <2>2. n - i \in T
        OBVIOUS
    <2>3. QED
        BY <2>2
<1> DEFINE R == OpToRel(<, Nat)
<1>3. \A x, y \in Nat : y < x => <<y, x>> \in R
    BY DEF OpToRel
<1>4. PICK x \in T : \A y \in T : <<y, x>> \notin R
    <2> HIDE DEF T, R
    <2>1. IsWellFoundedOn(R, Nat)
        BY NatLessThanWellFounded DEF R
    <2>2. QED
        BY <1>1, <1>2, <2>1, WFMin
<1> HIDE DEF R
<1>5. \A y \in T : ~(y < x)
    BY <1>1, <1>3, <1>4
<1>6. PICK i \in S : x = n - i
    BY <1>4
<1>7. ASSUME NEW j \in S PROVE j <= i
    <2>1. n - j \in T
        BY DEF T
    <2>2. ~(n - j < n - i)
        BY <1>5, <1>6, <2>1
    <2>3. QED
        BY <2>2
<1>8. QED
    BY <1>7

(* What is copied are members. *)
LEMMA CopiesTyped ==
    ASSUME TemplatesInv, NEW type \in Types, NEW bases,
           NEW members \in [Names -> Types \cup {None}],
           bases \in Seq(Results), \A k \in DOMAIN bases : Finished(bases[k])
    PROVE  WithCopies(members, bases) \in [Names -> Types \cup {None}]
<1> SUFFICES ASSUME NEW n \in Names
             PROVE  WithCopies(members, bases)[n] \in Types \cup {None}
    BY DEF WithCopies
<1> DEFINE copied == {i \in 2..Len(bases) : templates[bases[i]].members[n] # None}
           last == CHOOSE i \in copied : \A j \in copied : j <= i
<1>1. WithCopies(members, bases)[n]
          = IF copied = {} THEN members[n] ELSE templates[bases[last]].members[n]
    BY DEF WithCopies
<1>2. CASE copied = {}
    BY <1>1, <1>2
<1>3. CASE copied # {}
    <2>1. Len(bases) \in Nat /\ copied \in SUBSET (2 .. Len(bases))
        OBVIOUS
    <2>2. \E i \in copied : \A j \in copied : j <= i
        <3> HIDE DEF copied
        <3>1. QED
            BY <1>3, <2>1, GreatestExists
    <2>3. last \in copied
        <3> HIDE DEF copied
        <3>1. QED
            BY <2>2
    <2>4. last \in 2 .. Len(bases)
        BY <2>3
    <2>5. last \in DOMAIN bases
        <3> HIDE DEF last
        <3>1. QED
            BY <2>1, <2>4
    <2> HIDE DEF copied, last
    <2>6. templates[bases[last]] \in TemplateRecords
        BY <2>5 DEF Finished, TemplatesInv
    <2>7. QED
        BY <1>1, <1>3, <2>6 DEF TemplateRecords
<1>4. QED
    BY <1>2, <1>3

(* A base is taken: the class that was asked for, which is finished. *)
LEMMA TakeBaseKnown ==
    ASSUME Known, NEW g \in Goroutines, TakeBase(g)
    PROVE  Known' /\ Grows /\ NothingEnds
<1>1. stack[g] # <<>> /\ Top(g).op = "prototype" /\ Top(g).pc = "base"
    BY DEF TakeBase, AtStep
<1>2. PICK c \in Frames : c = Top(g)
    BY <1>1, TopKnown
<1>3. /\ Typed /\ c \in FrameRecords /\ c.op = "prototype" /\ c.pc = "base" /\ Making(c)
      /\ c.of \in Types /\ c.bases \in Seq(Results) /\ Len(c.bases) < Len(Bases[c.of])
      /\ Running(c)
    BY <1>1, <1>2, TopKnown DEF Frames, FrameRecords, Sound, Making
<1>4. Bases[c.of] \in Seq(Types)
    BY <1>3, TypesAssumption
<1> DEFINE sub == Bases[c.of][Len(c.bases) + 1]
<1>5. sub \in Types
    BY <1>3, <1>4
<1>6. PICK p \in Results : p = prototypes[sub]
    BY <1>3, <1>5 DEF Typed
<1>7. p # None /\ OfType(p, sub)
    <2>1. AnsweredBy(c, answer[g])
        BY <1>1, <1>2, TopKnown
    <2>2. QED
        BY <1>3, <1>5, <1>6, <2>1 DEF AnsweredBy, Known, ClassInv, TemplatesInv
<1>8. Begun(c)
    BY <1>3 DEF Known, ClassInv, MakingInv
<1>9. PICK s \in Seq(Results) : s = Append(c.bases, p)
    <2>1. \A q \in Seq(Results) : Append(q, p) \in Seq(Results)
        OBVIOUS
    <2>2. QED
        BY <1>3, <2>1
<1>10. /\ Len(s) = Len(c.bases) + 1 /\ Len(s) <= Len(Bases[c.of])
       /\ \A k \in DOMAIN s : OfType(s[k], Bases[c.of][k]) /\ prototypes[Bases[c.of][k]] # None
    <2>1. /\ Len(s) = Len(c.bases) + 1 /\ DOMAIN s = 1 .. Len(c.bases) + 1
          /\ DOMAIN c.bases = 1 .. Len(c.bases) /\ Len(c.bases) \in Nat
          /\ \A k \in 1 .. Len(c.bases) : s[k] = c.bases[k]
          /\ s[Len(c.bases) + 1] = p
        BY <1>3, <1>9
    <2>2. Len(s) <= Len(Bases[c.of])
        BY <1>3, <1>4, <2>1
    <2>3. ASSUME NEW k \in DOMAIN s
          PROVE  OfType(s[k], Bases[c.of][k]) /\ prototypes[Bases[c.of][k]] # None
        <3>1. CASE k \in DOMAIN c.bases
            BY <1>8, <2>1, <3>1 DEF Begun
        <3>2. CASE k = Len(c.bases) + 1
            BY <1>6, <1>7, <2>1, <3>2
        <3>3. QED
            BY <2>1, <3>1, <3>2
    <2>4. QED
        BY <2>1, <2>2, <2>3
<1>11. PICK b \in FrameRecords : b = [c EXCEPT !.bases = s]
    BY <1>3 DEF FrameRecords
<1>12. /\ b.op = "prototype" /\ b.of = c.of /\ b.shared = c.shared
       /\ b.made = c.made /\ b.bases = s
    BY <1>3, <1>11 DEF FrameRecords
<1>13. Embed(g, b)
    BY <1>2, <1>6, <1>9, <1>11 DEF TakeBase
<1>14. PICK fresh \in Seq(Frames), f \in Frames : Embeds(g, b, fresh, f)
    BY <1>1, <1>2, <1>3, <1>10, <1>12, <1>13, EmbedShape
<1>15. SameMaking(g, 1, fresh)
    BY <1>1, <1>2, <1>3, <1>12, <1>14 DEF SameMaking, Embeds
<1>16. IInv' /\ SameClasses
    BY TakeBaseIInv, ClassesStay DEF TakeBase, Known
<1>17. Begun(f)
    BY <1>8, <1>10, <1>12, <1>14 DEF Begun, Embeds
<1>18. \A k \in Frames : Making(k) /\ (\E i \in DOMAIN fresh : fresh[i] = k) => Begun(k)
    BY <1>14, <1>17 DEF Embeds
<1>19. Answered(g)
    <2>1. answer'[g] = None /\ \A h \in Goroutines \ {g} : answer'[h] = answer[h]
        BY <1>3 DEF TakeBase, Typed
    <2>2. ASSUME NEW k \in Frames, NEW a \in Results, k = Top(g)', a = answer'[g]
          PROVE  AnsweredBy(k, a)'
        BY <1>14, <2>1, <2>2 DEF AnsweredBy, Embeds
    <2>3. QED
        BY <1>14, <2>1, <2>2 DEF Answered, Embeds
<1>20. QED
    BY <1>14, <1>15, <1>16, <1>18, <1>19, QuietStep DEF Embeds

(* A new template is nobody else's. *)
LEMMA NewTemplateKnown ==
    ASSUME Known, NEW g \in Goroutines, BeginPrototype(g),
           NEW c \in Frames, c = Top(g), stack[g] # <<>>, c.op = "prototype", c.pc = "lookup",
           NEW t \in Templates, t = NewTemplate, templates[t] = None,
           NEW r, r = [type |-> c.of, shared |-> c.shared, user |-> FALSE, seen |-> FALSE,
                       parent |-> None, members |-> Members(c.of)],
           templates' = [templates EXCEPT ![t] = r],
           Embed(g, [c EXCEPT !.made = t]), UNCHANGED answer,
           ~(c.shared /\ prototypes[c.of] # None)
    PROVE  Known' /\ Grows /\ NothingEnds
<1>1. /\ Typed /\ c \in FrameRecords /\ c.of \in Types /\ c.shared \in BOOLEAN
      /\ c.bases = <<>> /\ answer[g] = None
    BY TopKnown DEF Frames, FrameRecords, Sound, Placed, AnsweredBy
<1>2. IInv' /\ UNCHANGED <<class, prototypes, constructors>>
    BY BeginPrototypeIInv DEF BeginPrototype, Known
<1>3. PICK b \in FrameRecords : b = [c EXCEPT !.made = t]
    BY <1>1 DEF FrameRecords, Results
<1>4. /\ b.op = "prototype" /\ b.of = c.of /\ b.shared = c.shared
      /\ b.made = t /\ b.bases = <<>>
    BY <1>1, <1>3 DEF FrameRecords
<1>5. Bases[c.of] \in Seq(Types) /\ Len(<<>>) = 0 /\ DOMAIN <<>> = {}
    BY <1>1, TypesAssumption
<1>6. Len(b.bases) <= Len(Bases[b.of])
    BY <1>4, <1>5
<1>7. PICK fresh \in Seq(Frames), f \in Frames : Embeds(g, b, fresh, f)
    <2>1. Embed(g, b)
        BY <1>3
    <2>2. c.op = "prototype" /\ b.op = "prototype" /\ b.of \in Types
        BY <1>1, <1>4
    <2>3. QED
        BY <1>4, <1>6, <2>1, <2>2, EmbedShape
<1>8. ASSUME NEW s, InProgress(s) PROVE s \in Templates /\ templates[s] # None
    <2>1. PICK h \in Goroutines : \E i \in DOMAIN stack[h] : Making(stack[h][i]) /\ stack[h][i].made = s
        BY <1>8 DEF InProgress
    <2>2. PICK i \in DOMAIN stack[h] : Making(stack[h][i]) /\ stack[h][i].made = s
        BY <2>1
    <2>3. stack[h][i] \in Frames /\ Running(stack[h][i])
        BY <1>1 DEF Typed, Running
    <2>4. QED
        BY <2>2, <2>3 DEF Known, ClassInv, MakingInv, Begun
<1>9. ~Making(c)
    BY DEF Making
<1>10. ASSUME NEW s PROVE InProgress(s)' <=> InProgress(s) \/ s = t
    <2>1. InProgress(s)' => InProgress(s) \/ s = t
        BY <1>4, <1>7, ProgressStep DEF Embeds
    <2>2. InProgress(s) => InProgress(s)'
        BY <1>7, <1>9, ProgressStep DEF Embeds
    <2>3. InProgress(t)'
        <3>1. PICK k \in DOMAIN fresh : fresh[k] = f
            BY <1>7 DEF Embeds
        <3>2. k \in DOMAIN stack'[g] /\ stack'[g][k] = f
            BY <1>7, <3>1 DEF Replaces, Embeds
        <3>3. QED
            BY <1>4, <1>7, <3>2 DEF InProgress, Making, Embeds
    <2>4. QED
        BY <2>1, <2>2, <2>3
<1>11. r \in TemplateRecords /\ r # None
    <2>1. Members(c.of) \in [Names -> Types \cup {None}]
        BY <1>1 DEF Members
    <2>2. r \in TemplateRecords
        BY <1>1, <2>1 DEF TemplateRecords
    <2>3. QED
        BY <2>2, NoneAssumption
<1>12. /\ templates \in [Templates -> TemplateRecords \cup {None}]
       /\ templates'[t] = r /\ \A s \in Templates \ {t} : templates'[s] = templates[s]
    BY DEF Known, ClassInv, TemplatesInv
<1>13. ASSUME NEW s, Finished(s) PROVE Finished(s)' /\ s # t
    BY <1>10, <1>12, <1>13 DEF Finished
<1>14. Grows
    BY <1>2, <1>12, <1>13 DEF Grows
<1>15. TemplatesInv'
    <2>1. /\ templates' \in [Templates -> TemplateRecords \cup {None}]
          /\ class' \in [Handles -> Templates \cup {None, ErrorType}]
        BY <1>2, <1>11, <1>12 DEF Known, ClassInv, TemplatesInv
    <2>2. ASSUME NEW s \in Templates, templates'[s] # None, templates'[s].seen
          PROVE  Finished(s)'
        <3>1. s # t
            BY <1>12, <2>2
        <3>2. QED
            BY <1>12, <1>13, <2>2, <3>1 DEF Known, ClassInv, TemplatesInv
    <2>3. ASSUME NEW h \in Handles, NEW s, s = class'[h]
          PROVE  s \in Templates => Finished(s)'
        BY <1>2, <1>13, <2>3 DEF Known, ClassInv, TemplatesInv
    <2>4. ASSUME NEW type \in Types, NEW s, s = prototypes'[type], s # None
          PROVE  OfType(s, type)' /\ templates'[s].shared
        <3>1. OfType(s, type) /\ templates[s].shared
            BY <1>2, <2>4 DEF Known, ClassInv, TemplatesInv
        <3>2. QED
            BY <1>14, <3>1, OfTypeStays
    <2>5. ASSUME NEW type \in Types, NEW s, s = constructors'[type], s # None
          PROVE  Finished(s)'
        BY <1>2, <1>13, <2>5 DEF Known, ClassInv, TemplatesInv
    <2>6. QED
        BY <2>1, <2>2, <2>3, <2>4, <2>5 DEF TemplatesInv, OfType, Finished, InProgress, Making
<1>16. ShapeInv'
    BY <1>7, ShapeStep DEF Known, ShapeKept, Embeds
<1>17. UniqueInv'
    <2>1. ~InProgress(t)
        BY <1>8
    <2>2. QED
        BY <1>4, <1>7, <2>1, UniqueStep DEF Known, ClassInv, Embeds
<1>18. Begun(f)'
    <2>1. f.made = t /\ f.of = c.of /\ f.shared = c.shared /\ f.bases = <<>>
        BY <1>4, <1>7 DEF Embeds
    <2>2. f.pc = "end" => Len(f.bases) = Len(Bases[f.of])
        BY <1>4, <1>7 DEF Embeds
    <2>3. /\ templates'[t].type = c.of /\ templates'[t].shared = c.shared
          /\ templates'[t].members = Members(c.of) /\ templates'[t].parent = None
        BY <1>12
    <2>4. QED
        BY <1>5, <1>11, <1>12, <2>1, <2>2, <2>3 DEF Begun, Members
<1>19. \A k \in Frames : Making(k) /\ (\E i \in DOMAIN fresh : fresh[i] = k) => Begun(k)'
    BY <1>7, <1>18 DEF Embeds
<1>20. \A s : InProgress(s) /\ InProgress(s)' =>
           /\ templates'[s].members = templates[s].members
           /\ templates'[s].parent = templates[s].parent
    BY <1>8, <1>12
<1>21. \A k \in Frames, a \in Results :
           stack'[g] # <<>> /\ k = Top(g)' /\ a = answer'[g] => AnsweredBy(k, a)'
    BY <1>1, <1>7 DEF AnsweredBy, Embeds
<1>22. MakingInv' /\ AnswerInv'
    BY <1>2, <1>7, <1>14, <1>19, <1>20, <1>21, ClassStep DEF Embeds
<1>23. NothingEnds
    <2>1. ASSUME NEW s, Finished(s)' PROVE Finished(s)
        BY <1>10, <1>12, <2>1 DEF Finished
    <2>2. ASSUME NEW k \in Frames, Making(k), Running(k)', k.shared
          PROVE  prototypes[k.of] = None \/ Running(k)
        <3>1. k = f => k.of = c.of /\ k.shared = c.shared
            BY <1>4, <1>7 DEF Embeds
        <3>2. Running(k) \/ k = f
            BY <1>7, <2>2, RunningStep DEF Embeds
        <3>3. QED
            BY <2>2, <3>1, <3>2
    <2>3. QED
        BY <2>1, <2>2 DEF NothingEnds
<1>24. QED
    BY <1>2, <1>14, <1>15, <1>16, <1>17, <1>22, <1>23 DEF Known, ClassInv

(* A class begins, or the shared one is answered. *)
LEMMA BeginPrototypeKnown ==
    ASSUME Known, NEW g \in Goroutines, BeginPrototype(g)
    PROVE  Known' /\ Grows /\ NothingEnds
<1>1. stack[g] # <<>> /\ Top(g).op = "prototype" /\ Top(g).pc = "lookup"
    BY DEF BeginPrototype, AtStep
<1>2. PICK c \in Frames : c = Top(g)
    BY <1>1, TopKnown
<1>3. Typed /\ c.op = "prototype" /\ c.pc = "lookup" /\ ~Making(c) /\ c.of \in Types
    BY <1>1, <1>2, TopKnown DEF Frames, Sound, Making
<1>4. CASE /\ c.shared /\ prototypes[c.of] # None
           /\ Return(g, prototypes[c.of]) /\ UNCHANGED templates
    <2>1. IInv' /\ SameClasses
        BY <1>4, BeginPrototypeIInv, ClassesStay DEF BeginPrototype, Known, classes
    <2>2. PICK r \in Results : r = prototypes[c.of]
        BY <1>3 DEF Typed
    <2>3. OfType(r, c.of) /\ templates[r].shared
        BY <1>3, <1>4, <2>2 DEF Known, ClassInv, TemplatesInv
    <2>4. c.shared \in BOOLEAN /\ templates[r].shared \in BOOLEAN
        BY <2>3 DEF Frames, FrameRecords, OfType, Finished, Known, ClassInv, TemplatesInv, TemplateRecords
    <2>5. templates[r].shared = c.shared
        BY <1>4, <2>3, <2>4
    <2>6. QED
        BY <1>1, <1>2, <1>3, <1>4, <2>1, <2>2, <2>3, <2>5, ReturnKnown
<1>5. CASE /\ TemplateLeft /\ UNCHANGED answer /\ ~(c.shared /\ prototypes[c.of] # None)
           /\ templates' = [templates EXCEPT ![NewTemplate] =
                 [type |-> c.of, shared |-> c.shared, user |-> FALSE, seen |-> FALSE,
                  parent |-> None, members |-> Members(c.of)]]
           /\ Embed(g, [c EXCEPT !.made = NewTemplate])
    <2>1. PICK t \in Templates : t = NewTemplate /\ templates[t] = None
        BY <1>5 DEF TemplateLeft, NewTemplate
    <2> DEFINE rec == [type |-> c.of, shared |-> c.shared, user |-> FALSE, seen |-> FALSE,
                       parent |-> None, members |-> Members(c.of)]
    <2>2. PICK r : r = rec
        OBVIOUS
    <2>3. templates' = [templates EXCEPT ![t] = r] /\ Embed(g, [c EXCEPT !.made = t])
        BY <1>5, <2>1, <2>2
    <2>4. UNCHANGED answer /\ ~(c.shared /\ prototypes[c.of] # None)
        BY <1>5
    <2>5. QED
        BY <1>1, <1>2, <1>3, <2>1, <2>2, <2>3, <2>4, NewTemplateKnown
<1>6. QED
    BY <1>2, <1>4, <1>5 DEF BeginPrototype

(* After a return, each call is one of those that were below. *)
LEMMA WhereItWasReturned ==
    ASSUME NEW g \in Goroutines, Replaces(g, 1, <<>>),
           NEW h \in Goroutines, NEW i \in DOMAIN stack'[h]
    PROVE  \E j \in DOMAIN stack[h] : (h = g => j > 1) /\ stack'[h][i] = stack[h][j]
<1>1. Len(<<>>) = 0
    OBVIOUS
<1>2. CASE h # g
    BY <1>2 DEF Replaces
<1>3. CASE h = g
    <2>1. /\ Len(stack[g]) \in Nat /\ DOMAIN stack[g] = 1 .. Len(stack[g])
          /\ DOMAIN stack'[g] = 1 .. (Len(stack[g]) - 1 + 0)
          /\ \A k \in (0 + 1) .. (Len(stack[g]) - 1 + 0) : stack'[g][k] = stack[g][k + 1 - 0]
        BY <1>1 DEF Replaces
    <2>2. i \in 1 .. (Len(stack[g]) - 1)
        BY <1>3, <2>1
    <2>3. i + 1 \in 1 .. Len(stack[g]) /\ i + 1 > 1 /\ i + 1 - 0 = i + 1
        BY <2>1, <2>2
    <2>4. stack'[g][i] = stack[g][i + 1]
        BY <2>1, <2>2, <2>3
    <2>5. QED
        BY <1>3, <2>1, <2>3, <2>4
<1>4. QED
    BY <1>2, <1>3

(* A class that is finished was made by its call alone. *)
LEMMA EndPrototypeKnown ==
    ASSUME Known, NEW g \in Goroutines, EndPrototype(g)
    PROVE  Known' /\ Grows
<1>1. stack[g] # <<>> /\ Top(g).op = "prototype" /\ Top(g).pc = "end"
    BY DEF EndPrototype, AtStep
<1>2. PICK c \in Frames : c = Top(g)
    BY <1>1, TopKnown
<1>3. /\ Typed /\ c \in FrameRecords /\ c.op = "prototype" /\ c.pc = "end" /\ Making(c)
      /\ c.of \in Types /\ c.bases \in Seq(Results) /\ c.shared \in BOOLEAN /\ Running(c)
    BY <1>1, <1>2, TopKnown DEF Frames, FrameRecords, Sound, Making
<1>4. Begun(c)
    BY <1>3 DEF Known, ClassInv, MakingInv
<1>5. PICK t \in Templates : t = c.made
    BY <1>4 DEF Begun
<1>6. IInv' /\ UNCHANGED <<class, constructors>>
    BY EndPrototypeIInv DEF EndPrototype, Known
<1>7. Return(g, t) /\ t \in Results
    BY <1>2, <1>5 DEF EndPrototype, Results
<1>8. /\ Replaces(g, 1, <<>>)
      /\ answer'[g] = IF stack'[g] # <<>> /\ Top(g)'.pc # "user" THEN t ELSE None
      /\ \A h \in Goroutines \ {g} : answer'[h] = answer[h]
    BY <1>1, <1>3, <1>7, ReturnReplaces
<1>9. <<>> \in Seq(Frames) /\ DOMAIN <<>> = {} /\ Len(<<>>) = 0
    OBVIOUS
<1>10. 1 \in DOMAIN stack[g] /\ stack[g][1] = c
    BY <1>1, <1>2, <1>8 DEF Replaces
<1>11. ~InProgress(t)'
    <2>1. SUFFICES ASSUME InProgress(t)' PROVE FALSE
        OBVIOUS
    <2>2. PICK h \in Goroutines :
              \E i \in DOMAIN stack'[h] : Making(stack'[h][i]) /\ stack'[h][i].made = t
        BY <2>1 DEF InProgress, Making
    <2>3. PICK i \in DOMAIN stack'[h] : Making(stack'[h][i]) /\ stack'[h][i].made = t
        BY <2>2
    <2>4. \E j \in DOMAIN stack[h] : (h = g => j > 1) /\ stack'[h][i] = stack[h][j]
        BY <1>8, WhereItWasReturned
    <2>5. PICK j \in DOMAIN stack[h] : (h = g => j > 1) /\ stack'[h][i] = stack[h][j]
        BY <2>4
    <2>6. h = g /\ j = 1
        BY <1>3, <1>5, <1>10, <2>3, <2>5 DEF Known, ClassInv, UniqueInv
    <2>7. QED
        BY <2>5, <2>6
<1>12. ASSUME NEW s, s # t PROVE InProgress(s)' <=> InProgress(s)
    BY <1>2, <1>5, <1>8, <1>9, <1>12, ProgressStep
<1>13. InProgress(t)
    BY <1>3, <1>5, <1>10 DEF InProgress
<1> DEFINE parent == IF c.bases = <<>> THEN None ELSE c.bases[1]
           members == WithCopies(templates[t].members, c.bases)
<1>14. /\ templates \in [Templates -> TemplateRecords \cup {None}]
       /\ templates[t] # None /\ templates[t] \in TemplateRecords
       /\ templates[t].type = c.of /\ templates[t].shared = c.shared
    BY <1>4, <1>5 DEF Known, ClassInv, TemplatesInv, Begun
<1>15. templates' = [templates EXCEPT ![t] = [@ EXCEPT !.parent = parent, !.members = members]]
    <2>1. templates' = [templates EXCEPT ![t].parent = parent, ![t].members = members]
        BY <1>2, <1>5, <1>14 DEF EndPrototype
    <2>2. QED
        BY <1>14, <2>1
<1>16. \A k \in DOMAIN c.bases : Finished(c.bases[k]) /\ c.bases[k] \in Templates
    BY <1>4 DEF Begun, OfType, Finished
<1>17. parent \in Templates \cup {None}
    <2>1. c.bases # <<>> => 1 \in DOMAIN c.bases
        BY <1>3
    <2>2. QED
        BY <1>16, <2>1
<1>18. members \in [Names -> Types \cup {None}]
    <2>1. templates[t].members \in [Names -> Types \cup {None}]
        BY <1>14 DEF TemplateRecords
    <2>2. QED
        BY <1>3, <1>16, <2>1, CopiesTyped DEF Known, ClassInv
<1> DEFINE r == [templates[t] EXCEPT !.parent = parent, !.members = members]
<1> HIDE DEF parent, members
<1>19. r \in TemplateRecords /\ r.type = c.of /\ r.shared = c.shared
    BY <1>14, <1>17, <1>18 DEF TemplateRecords
<1>20. r # None
    BY <1>19, NoneAssumption
<1> HIDE DEF r
<1>21. /\ templates' = [templates EXCEPT ![t] = r]
       /\ templates'[t] = r /\ \A s \in Templates \ {t} : templates'[s] = templates[s]
    BY <1>14, <1>15 DEF r
<1>22. templates' \in [Templates -> TemplateRecords \cup {None}]
    BY <1>14, <1>19, <1>21
<1>23. ASSUME NEW s, Finished(s) PROVE Finished(s)' /\ s # t
    BY <1>12, <1>13, <1>21, <1>23 DEF Finished
<1>24. OfType(t, c.of)' /\ templates'[t].shared = c.shared
    BY <1>11, <1>19, <1>20, <1>21 DEF OfType, Finished
<1>25. \A type \in Types :
           prototypes'[type] = IF c.shared /\ type = c.of THEN t ELSE prototypes[type]
    BY <1>2, <1>3, <1>5 DEF EndPrototype, Typed
<1>26. t # None
    BY NoneAssumption
<1>27. Grows
    <2>1. ASSUME NEW s \in Templates, templates[s] # None
          PROVE  /\ templates'[s] # None
                 /\ templates'[s].type = templates[s].type /\ templates'[s].shared = templates[s].shared
                 /\ Finished(s) => /\ Finished(s)'
                                   /\ templates'[s].members = templates[s].members
                                   /\ templates'[s].parent = templates[s].parent
        BY <1>14, <1>19, <1>20, <1>21, <1>23, <2>1
    <2>2. \A type \in Types : prototypes[type] # None => prototypes'[type] # None
        BY <1>25, <1>26
    <2>3. QED
        BY <2>1, <2>2 DEF Grows
<1>28. TemplatesInv'
    <2>1. class' \in [Handles -> Templates \cup {None, ErrorType}]
        BY <1>6 DEF Known, ClassInv, TemplatesInv
    <2>2. ASSUME NEW s \in Templates, templates'[s] # None, templates'[s].seen
          PROVE  Finished(s)'
        <3>1. CASE s = t
            BY <1>24, <3>1 DEF OfType
        <3>2. CASE s # t
            BY <1>21, <1>23, <2>2, <3>2 DEF Known, ClassInv, TemplatesInv
        <3>3. QED
            BY <3>1, <3>2
    <2>3. ASSUME NEW h \in Handles, NEW s, s = class'[h]
          PROVE  s \in Templates => Finished(s)'
        BY <1>6, <1>23, <2>3 DEF Known, ClassInv, TemplatesInv
    <2>4. ASSUME NEW type \in Types, NEW s, s = prototypes'[type], s # None
          PROVE  OfType(s, type)' /\ templates'[s].shared
        <3>1. CASE c.shared /\ type = c.of
            BY <1>24, <1>25, <2>4, <3>1
        <3>2. CASE ~(c.shared /\ type = c.of)
            <4>1. OfType(s, type) /\ templates[s].shared
                BY <1>25, <2>4, <3>2 DEF Known, ClassInv, TemplatesInv
            <4>2. QED
                BY <1>27, <4>1, OfTypeStays
        <3>3. QED
            BY <3>1, <3>2
    <2>5. ASSUME NEW type \in Types, NEW s, s = constructors'[type], s # None
          PROVE  Finished(s)'
        BY <1>6, <1>23, <2>5 DEF Known, ClassInv, TemplatesInv
    <2>6. QED
        BY <1>22, <2>1, <2>2, <2>3, <2>4, <2>5 DEF TemplatesInv, OfType, Finished, InProgress, Making
<1>29. ShapeInv'
    BY <1>8, <1>9, ShapeStep DEF Known
<1>30. UniqueInv'
    BY <1>8, <1>9, UniqueStep DEF Known, ClassInv
<1>31. \A s : InProgress(s) /\ InProgress(s)' =>
           /\ templates'[s].members = templates[s].members
           /\ templates'[s].parent = templates[s].parent
    <2>1. ASSUME NEW s, InProgress(s), InProgress(s)'
          PROVE  s \in Templates \ {t}
        <3>1. PICK h \in Goroutines : \E i \in DOMAIN stack[h] : Making(stack[h][i]) /\ stack[h][i].made = s
            BY <2>1 DEF InProgress
        <3>2. PICK i \in DOMAIN stack[h] : Making(stack[h][i]) /\ stack[h][i].made = s
            BY <3>1
        <3>3. stack[h][i] \in Frames /\ Running(stack[h][i])
            BY <1>3 DEF Typed, Running
        <3>4. QED
            BY <1>11, <2>1, <3>2, <3>3 DEF Known, ClassInv, MakingInv, Begun
    <2>2. QED
        BY <1>21, <2>1
<1>32. ASSUME NEW f \in Frames, NEW a \in Results, stack'[g] # <<>>, f = Top(g)', a = answer'[g]
       PROVE  AnsweredBy(f, a)'
    <2>1. 2 \in DOMAIN stack[g] /\ stack[g][2] = f
        BY <1>8, <1>9, <1>32 DEF Replaces
    <2>2. Awaits(f, c)
        BY <1>10, <2>1, BelowAwaits DEF Known
    <2>3. f.pc # "user" /\ a = t
        BY <1>3, <1>8, <1>32, <2>2 DEF Awaits
    <2>4. /\ f.pc = "instance" => c.of = TypeOf[f.of] /\ c.shared
          /\ f.pc = "function" => c.of = f.of /\ c.shared = f.shared
          /\ f.pc = "base" => c.shared /\ c.of = Bases[f.of][Len(f.bases) + 1]
          /\ f.pc \in {"instance", "receive", "base", "function"}
        BY <1>3, <2>2, <2>3 DEF Awaits
    <2>5. c.shared => prototypes'[c.of] # None
        BY <1>3, <1>25, <1>26
    <2>6. QED
        BY <1>24, <2>3, <2>4, <2>5 DEF AnsweredBy
<1>33. MakingInv' /\ AnswerInv'
    BY <1>6, <1>8, <1>9, <1>27, <1>31, <1>32, ClassStep
<1>34. QED
    BY <1>6, <1>27, <1>28, <1>29, <1>30, <1>33 DEF Known, ClassInv

-----------------------------------------------------------------------------
(* Every step keeps what is known and lets classes grow. *)

(* Known holds at first, *)
LEMMA InitKnown == Init => Known
<1> SUFFICES ASSUME Init PROVE Known
    OBVIOUS
<1>1. /\ stack = [g \in Goroutines |-> <<>>] /\ DOMAIN <<>> = {}
      /\ answer = [g \in Goroutines |-> None] /\ templates = [t \in Templates |-> None]
      /\ prototypes = [type \in Types |-> None] /\ constructors = [type \in Types |-> None]
      /\ class = [h \in Handles |-> None]
    BY DEF Init
<1>2. None \notin Templates
    BY NoneAssumption
<1>3. ShapeInv /\ UniqueInv
    BY <1>1 DEF ShapeInv, UniqueInv
<1>4. TemplatesInv
    BY <1>1, <1>2 DEF TemplatesInv
<1>5. MakingInv /\ AnswerInv
    BY <1>1 DEF MakingInv, AnswerInv, Running
<1>6. QED
    BY <1>3, <1>4, <1>5, InitIInv DEF Known, ClassInv

(* every step keeps it and grows the classes, *)
LEMMA NextKnown ==
    ASSUME Known, [Next]_vars
    PROVE  Known' /\ Grows /\ (NothingEnds \/ \E g \in Goroutines : EndPrototype(g))
<1>1. ASSUME NEW g \in Goroutines, Step(g)
      PROVE  Known' /\ Grows /\ (NothingEnds \/ EndPrototype(g))
    BY <1>1, LookupKnown, MakeErrorKnown, InstanceKnown, ReceiveKnown, EndConstructKnown,
       BeginPrototypeKnown, TakeBaseKnown, EndPrototypeKnown, LookupConstructorKnown,
       EndConstructorKnown, ConstructorReturnsKnown, EndUseKnown DEF Step
<1>2. QED
    BY <1>1, StutterKnown, BeginCreateKnown, BeginConstructorKnown, BeginNewKnown,
       UseMemberKnown, NextMoves DEF Start

(* and so it always holds. *)
LEMMA KnownAlways == Spec => []Known
<1>1. Known /\ [Next]_vars => Known'
    BY NextKnown
<1>2. QED
    BY <1>1, InitKnown, PTL DEF Spec

(***************************************************************************)
(* A class that has instances keeps its members and its base class.        *)
(***************************************************************************)
THEOREM InstancesKeepTheirClass == Spec => SettledClassesStay
<1>1. Known /\ [Next]_vars =>
          [\A h \in Handles : class[h] \in Templates =>
              /\ templates'[class[h]].members = templates[class[h]].members
              /\ templates'[class[h]].parent = templates[class[h]].parent]_vars
    <2>1. SUFFICES ASSUME Known, [Next]_vars, NEW h \in Handles, class[h] \in Templates
                   PROVE  /\ templates'[class[h]].members = templates[class[h]].members
                          /\ templates'[class[h]].parent = templates[class[h]].parent
        OBVIOUS
    <2>2. Finished(class[h]) /\ templates[class[h]] # None
        BY <2>1 DEF Known, ClassInv, TemplatesInv, Finished
    <2>3. Grows
        BY <2>1, NextKnown
    <2>4. QED
        BY <2>1, <2>2, <2>3 DEF Grows
<1>2. QED
    BY <1>1, KnownAlways, PTL DEF Spec, SettledClassesStay

-----------------------------------------------------------------------------
(* One class per type, when nothing strays: calls are then on one stack, and *)
(* a class that is made is the first of its type.                            *)

AloneInv ==
    ~strayed => \A g, h \in Goroutines : stack[g] # <<>> /\ stack[h] # <<>> => g = h

SharedInv ==
    ~strayed =>
       /\ \A t \in Templates :
             Finished(t) /\ templates[t].shared => prototypes[templates[t].type] = t
       /\ \A type \in Types :
             constructors[type] # None => constructors[type] = prototypes[type]
       /\ \A f \in Frames : Making(f) /\ Running(f) /\ f.shared => prototypes[f.of] = None

(* A step of a call moves one stack. *)
LEMMA StepMoves ==
    ASSUME Known, NEW g \in Goroutines, Step(g)
    PROVE  /\ stack[g] # <<>> /\ \A h \in Goroutines \ {g} : stack'[h] = stack[h]
           /\ strayed => strayed'
<1>1. Typed
    BY DEF Known, IInv
<1>2. stack[g] # <<>>
    BY DEF Step, Lookup, MakeError, Instance, Receive, EndConstruct, BeginPrototype, TakeBase,
           EndPrototype, LookupConstructor, EndConstructor, ConstructorReturns, EndUse, AtStep
<1>3. strayed => strayed'
    BY DEF Step, Lookup, MakeError, Instance, Receive, EndConstruct, BeginPrototype, TakeBase,
           EndPrototype, LookupConstructor, EndConstructor, ConstructorReturns, EndUse, history
<1>4. \/ \E r : Return(g, r)
      \/ \E f : Continue(g, f)
      \/ \E f, d : Invoke(g, f, d)
    BY DEF Step, Lookup, MakeError, Instance, Receive, EndConstruct, BeginPrototype, TakeBase,
           EndPrototype, LookupConstructor, EndConstructor, ConstructorReturns, EndUse, AnswerCreate, Embed
<1>5. \E s : stack' = [stack EXCEPT ![g] = s]
    BY <1>4 DEF Return, Continue, Invoke
<1>6. QED
    BY <1>1, <1>2, <1>3, <1>5 DEF Typed

(* Until something strays, one stack has calls. *)
LEMMA AloneStep == Known /\ AloneInv /\ [Next]_vars => AloneInv'
<1> SUFFICES ASSUME Known, AloneInv, [Next]_vars PROVE AloneInv'
    OBVIOUS
<1>1. CASE UNCHANGED rest
    BY <1>1 DEF AloneInv, rest, history
<1>2. ASSUME NEW g \in Goroutines, Step(g) PROVE AloneInv'
    BY <1>2, StepMoves DEF AloneInv
<1>3. ASSUME NEW g \in Goroutines, NEW c, Begin(g, c) PROVE AloneInv'
    <2>1. \A h \in Goroutines \ {g} : stack'[h] = stack[h]
        BY <1>3 DEF Begin, Known, IInv, Typed
    <2>2. ~strayed' => \A h \in Goroutines \ {g} : stack[h] = <<>>
        BY <1>3 DEF Begin, Stray
    <2>3. QED
        BY <2>1, <2>2 DEF AloneInv
<1>4. ASSUME NEW g \in Goroutines, UNCHANGED stack, strayed => strayed' PROVE AloneInv'
    BY <1>4 DEF AloneInv
<1>5. QED
    BY <1>1, <1>2, <1>3, <1>4, NextMoves DEF Start, BeginCreate, BeginConstructor, BeginNew, UseMember

(* Steps that end no class and remember none. *)
LEMMA SharedQuiet ==
    ASSUME Grows, NothingEnds, SharedInv, strayed => strayed',
           ~strayed => UNCHANGED prototypes,
           \A type \in Types : constructors'[type] \in {constructors[type], prototypes'[type]}
    PROVE  SharedInv'
<1> SUFFICES ASSUME ~strayed'
             PROVE  /\ \A t \in Templates :
                          Finished(t)' /\ templates'[t].shared => prototypes'[templates'[t].type] = t
                    /\ \A type \in Types :
                          constructors'[type] # None => constructors'[type] = prototypes'[type]
                    /\ \A f \in Frames :
                          Making(f) /\ Running(f)' /\ f.shared => prototypes'[f.of] = None
    BY DEF SharedInv, Making
<1>1. UNCHANGED prototypes
    OBVIOUS
<1>2. ASSUME NEW t \in Templates, Finished(t)', templates'[t].shared
      PROVE  prototypes'[templates'[t].type] = t
    <2>1. Finished(t)
        BY <1>2 DEF NothingEnds
    <2>2. templates'[t].type = templates[t].type /\ templates'[t].shared = templates[t].shared
        BY <2>1 DEF Grows, Finished
    <2>3. QED
        BY <1>1, <1>2, <2>1, <2>2 DEF SharedInv
<1>3. ASSUME NEW type \in Types, constructors'[type] # None
      PROVE  constructors'[type] = prototypes'[type]
    BY <1>1, <1>3 DEF SharedInv
<1>4. ASSUME NEW f \in Frames, Making(f), Running(f)', f.shared
      PROVE  prototypes'[f.of] = None
    BY <1>1, <1>4 DEF NothingEnds, SharedInv
<1>5. QED
    BY <1>2, <1>3, <1>4

(* The class with the constructor is the type's shared class. *)
LEMMA EndConstructorShared ==
    ASSUME Known, SharedInv, NEW g \in Goroutines, EndConstructor(g)
    PROVE  SharedInv'
<1>1. stack[g] # <<>> /\ Top(g).op = "constructor" /\ Top(g).pc = "function"
    BY DEF EndConstructor, AtStep
<1>2. PICK c \in Frames : c = Top(g)
    BY <1>1, TopKnown
<1>3. PICK t \in Results : t = answer[g]
    BY <1>1, TopKnown
<1>4. /\ Typed /\ c.of \in Types /\ OfType(t, c.of) /\ templates[t].shared = c.shared
    BY <1>1, <1>2, <1>3, TopKnown DEF Frames, Sound, AnsweredBy
<1>5. Grows /\ NothingEnds
    BY EndConstructorKnown
<1>6. ~strayed /\ c.shared => prototypes[c.of] = t
    BY <1>4 DEF SharedInv, OfType, Finished
<1>7. /\ prototypes' = IF c.shared THEN [prototypes EXCEPT ![c.of] = t] ELSE prototypes
      /\ constructors' = IF c.shared THEN [constructors EXCEPT ![c.of] = t] ELSE constructors
      /\ UNCHANGED strayed
    BY <1>2, <1>3 DEF EndConstructor, history
<1>8. ~strayed => UNCHANGED prototypes
    BY <1>4, <1>6, <1>7 DEF Typed
<1>9. \A type \in Types : constructors'[type] \in {constructors[type], prototypes'[type]}
    BY <1>4, <1>7 DEF Typed
<1>10. QED
    BY <1>5, <1>7, <1>8, <1>9, SharedQuiet

(* While a type's shared class is being ended, no call below makes one for it: that call
   would wait for a base that is not there, which the class that is ended has. *)
LEMMA NoneBelow ==
    ASSUME Known, SharedInv, ~strayed, NEW g \in Goroutines, stack[g] # <<>>,
           NEW c \in Frames, c = Top(g), c.op = "prototype", c.pc = "end", c.shared,
           NEW i \in DOMAIN stack[g], i > 1,
           NEW f \in Frames, f = stack[g][i], Making(f), f.shared
    PROVE  f.of # c.of
<1>1. stack[g] \in Seq(Frames) /\ Typed /\ DOMAIN stack[g] = 1 .. Len(stack[g]) /\ Len(stack[g]) \in Nat
    BY DEF Known, IInv, Typed
<1>2. i - 1 \in DOMAIN stack[g]
    BY <1>1
<1>3. PICK e \in Frames : e = stack[g][i - 1]
    BY <1>1, <1>2
<1>4. Awaits(f, e) /\ Placed(e)
    BY <1>2, <1>3 DEF Known, ShapeInv
<1>5. f.pc = "base" /\ e.op = "prototype" /\ e.shared /\ e.of = Bases[f.of][Len(f.bases) + 1]
    BY <1>4 DEF Awaits, Making
<1>6. /\ f.of \in Types /\ f.bases \in Seq(Results) /\ Len(f.bases) < Len(Bases[f.of])
    BY <1>5 DEF Frames, FrameRecords, Sound, Making
<1>7. 1 \in DOMAIN stack[g] /\ stack[g][1] = c
    BY <1>1 DEF Top
<1>8. Making(c) /\ Running(c) /\ Begun(c)
    BY <1>7 DEF Making, Running, Known, ClassInv, MakingInv
<1>9. Making(e)
    <2>1. CASE i - 1 = 1
        BY <1>3, <1>7, <1>8, <2>1
    <2>2. CASE i - 1 > 1
        <3>1. (i - 1) - 1 \in DOMAIN stack[g]
            BY <1>1, <2>2
        <3>2. Awaits(e, stack[g][(i - 1) - 1])
            BY <1>2, <1>3, <2>2 DEF Known, ShapeInv
        <3>3. e.pc \in {"instance", "receive", "base", "function", "user"}
            BY <3>2 DEF Awaits
        <3>4. QED
            BY <1>4, <1>5, <3>3 DEF Placed, Making
    <2>3. QED
        BY <1>1, <2>1, <2>2
<1>10. prototypes[e.of] = None
    BY <1>2, <1>3, <1>5, <1>9 DEF SharedInv, Running
<1>11. SUFFICES ASSUME f.of = c.of PROVE FALSE
    OBVIOUS
<1> DEFINE k == Len(f.bases) + 1
<1>12. k \in DOMAIN c.bases
    <2>1. Len(c.bases) = Len(Bases[c.of]) /\ c.bases \in Seq(Results) /\ Bases[c.of] \in Seq(Types)
        BY <1>6, <1>8, <1>11, TypesAssumption DEF Begun, Frames, FrameRecords
    <2>2. QED
        BY <1>6, <1>11, <2>1
<1>13. prototypes[Bases[c.of][k]] # None
    BY <1>8, <1>12 DEF Begun
<1>14. QED
    BY <1>5, <1>10, <1>11, <1>13

(* A shared class ends as the first of its type. *)
LEMMA EndPrototypeShared ==
    ASSUME Known, SharedInv, AloneInv, NEW g \in Goroutines, EndPrototype(g)
    PROVE  SharedInv'
<1>1. stack[g] # <<>> /\ Top(g).op = "prototype" /\ Top(g).pc = "end"
    BY DEF EndPrototype, AtStep
<1>2. PICK c \in Frames : c = Top(g)
    BY <1>1, TopKnown
<1>3. Typed /\ c.op = "prototype" /\ c.pc = "end" /\ Making(c) /\ c.of \in Types /\ Running(c) /\ c.shared \in BOOLEAN
    BY <1>1, <1>2, TopKnown DEF Making, Frames, FrameRecords, Sound
<1>4. Begun(c)
    BY <1>3 DEF Known, ClassInv, MakingInv
<1>5. PICK t \in Templates : t = c.made
    BY <1>4 DEF Begun
<1>6. Grows
    BY EndPrototypeKnown
<1>7. Return(g, t) /\ UNCHANGED <<constructors, strayed>>
    BY <1>2, <1>5 DEF EndPrototype, history
<1>8. Replaces(g, 1, <<>>)
    BY <1>1, <1>3, <1>7, ReturnReplaces
<1>9. \A type \in Types :
          prototypes'[type] = IF c.shared /\ type = c.of THEN t ELSE prototypes[type]
    BY <1>2, <1>3, <1>5 DEF EndPrototype, Typed
<1> SUFFICES ASSUME ~strayed'
             PROVE  /\ \A s \in Templates :
                          Finished(s)' /\ templates'[s].shared => prototypes'[templates'[s].type] = s
                    /\ \A type \in Types :
                          constructors'[type] # None => constructors'[type] = prototypes'[type]
                    /\ \A f \in Frames :
                          Making(f) /\ Running(f)' /\ f.shared => prototypes'[f.of] = None
    BY DEF SharedInv, Making
<1>10. c.shared => prototypes[c.of] = None
    BY <1>3, <1>7 DEF SharedInv
<1>11. ASSUME NEW s \in Templates, Finished(s)', templates'[s].shared
       PROVE  prototypes'[templates'[s].type] = s
    <2>1. CASE s = t
        <3>1. templates'[t].type = c.of /\ templates'[t].shared = c.shared
            BY <1>4, <1>5, <1>6 DEF Begun, Grows
        <3>2. QED
            BY <1>3, <1>9, <1>11, <2>1, <3>1
    <2>2. CASE s # t
        <3>1. Finished(s)
            <4>1. templates[s] # None
                <5>1. templates'[s] = templates[s]
                    BY <1>2, <1>5, <2>2 DEF EndPrototype, Known, ClassInv, TemplatesInv
                <5>2. QED
                    BY <1>11, <5>1 DEF Finished
            <4>2. ~InProgress(s)
                <5>1. SUFFICES ASSUME InProgress(s) PROVE InProgress(s)'
                    BY <1>11 DEF Finished
                <5>2. <<>> \in Seq(Frames) /\ DOMAIN <<>> = {}
                    OBVIOUS
                <5>3. QED
                    BY <1>2, <1>5, <1>8, <2>2, <5>1, <5>2, ProgressStep
            <4>3. QED
                BY <4>1, <4>2 DEF Finished
        <3>2. templates'[s].type = templates[s].type /\ templates'[s].shared = templates[s].shared
            BY <3>1, <1>6 DEF Grows, Finished
        <3>3. prototypes[templates[s].type] = s /\ s # None
            BY <1>7, <1>11, <3>1, <3>2, NoneAssumption DEF SharedInv
        <3>4. templates[s].type \in Types
            BY <3>1 DEF Finished, Known, ClassInv, TemplatesInv, TemplateRecords
        <3>5. QED
            BY <1>9, <1>10, <3>2, <3>3, <3>4
    <2>3. QED
        BY <2>1, <2>2
<1>12. ASSUME NEW type \in Types, constructors'[type] # None
       PROVE  constructors'[type] = prototypes'[type]
    BY <1>7, <1>9, <1>10, <1>12 DEF SharedInv
<1>13. ASSUME NEW f \in Frames, Making(f), Running(f)', f.shared
       PROVE  prototypes'[f.of] = None
    <2>1. PICK h \in Goroutines : \E i \in DOMAIN stack'[h] : stack'[h][i] = f
        BY <1>13 DEF Running
    <2>2. PICK i \in DOMAIN stack'[h] : stack'[h][i] = f
        BY <2>1
    <2>3. PICK j \in DOMAIN stack[h] : (h = g => j > 1) /\ stack'[h][i] = stack[h][j]
        BY <1>8, WhereItWasReturned
    <2>4. stack[h] # <<>>
        BY <2>3
    <2>5. h = g
        BY <1>1, <1>7, <2>4 DEF AloneInv
    <2>6. c.shared => f.of # c.of
        BY <1>1, <1>2, <1>3, <1>7, <1>13, <2>2, <2>3, <2>5, NoneBelow
    <2>7. Running(f)
        BY <2>2, <2>3 DEF Running
    <2>8. prototypes[f.of] = None
        BY <1>7, <1>13, <2>7 DEF SharedInv
    <2>9. f.of \in Types
        BY <1>13 DEF Making, Frames, Sound
    <2>10. QED
        BY <1>9, <2>6, <2>8, <2>9
<1>14. QED
    BY <1>11, <1>12, <1>13

(* Every step keeps the shared classes what they are. *)
LEMMA SharedStep == Known /\ SharedInv /\ AloneInv /\ [Next]_vars => SharedInv'
<1> SUFFICES ASSUME Known, SharedInv, AloneInv, [Next]_vars PROVE SharedInv'
    OBVIOUS
<1>1. ASSUME Known' /\ Grows /\ NothingEnds, strayed => strayed', UNCHANGED <<prototypes, constructors>>
      PROVE  SharedInv'
    BY <1>1, SharedQuiet
<1>2. CASE UNCHANGED rest
    BY <1>1, <1>2, StutterKnown DEF rest, history, classes
<1>3. ASSUME NEW g \in Goroutines, Step(g) PROVE SharedInv'
    <2>1. strayed => strayed'
        BY <1>3, StepMoves
    <2>2. CASE Lookup(g)
        BY <1>1, <2>1, <2>2, LookupKnown DEF Lookup, classes
    <2>3. CASE MakeError(g)
        BY <1>1, <2>1, <2>3, MakeErrorKnown DEF MakeError, classes
    <2>4. CASE Instance(g)
        BY <1>1, <2>1, <2>4, InstanceKnown DEF Instance
    <2>5. CASE Receive(g)
        BY <1>1, <2>1, <2>5, ReceiveKnown DEF Receive, classes
    <2>6. CASE EndConstruct(g)
        BY <1>1, <2>1, <2>6, EndConstructKnown DEF EndConstruct, classes
    <2>7. CASE BeginPrototype(g)
        BY <1>1, <2>1, <2>7, BeginPrototypeKnown DEF BeginPrototype
    <2>8. CASE TakeBase(g)
        BY <1>1, <2>1, <2>8, TakeBaseKnown DEF TakeBase, classes
    <2>9. CASE EndPrototype(g)
        BY <2>9, EndPrototypeShared
    <2>10. CASE LookupConstructor(g)
        BY <1>1, <2>1, <2>10, LookupConstructorKnown DEF LookupConstructor, classes
    <2>11. CASE EndConstructor(g)
        BY <2>11, EndConstructorShared
    <2>12. CASE ConstructorReturns(g)
        BY <1>1, <2>1, <2>12, ConstructorReturnsKnown DEF ConstructorReturns, classes
    <2>13. CASE EndUse(g)
        BY <1>1, <2>1, <2>13, EndUseKnown DEF EndUse, classes
    <2>14. QED
        BY <1>3, <2>2, <2>3, <2>4, <2>5, <2>6, <2>7, <2>8, <2>9, <2>10, <2>11, <2>12, <2>13 DEF Step
<1>4. ASSUME NEW g \in Goroutines, NEW o \in Objects, BeginCreate(g, o) PROVE SharedInv'
    BY <1>1, <1>4, BeginCreateKnown DEF BeginCreate, Begin, classes
<1>5. ASSUME NEW g \in Goroutines, NEW type \in Constructed, NEW shared \in BOOLEAN,
             BeginConstructor(g, type, shared)
      PROVE  SharedInv'
    BY <1>1, <1>5, BeginConstructorKnown DEF BeginConstructor, Begin, classes
<1>6. ASSUME NEW g \in Goroutines, NEW t \in Templates, BeginNew(g, t) PROVE SharedInv'
    BY <1>1, <1>6, BeginNewKnown DEF BeginNew, Begin, classes
<1>7. ASSUME NEW g \in Goroutines, NEW h \in Handles, NEW n \in Names, UseMember(g, h, n)
      PROVE  SharedInv'
    BY <1>1, <1>7, UseMemberKnown DEF UseMember, Begin, classes
<1>8. QED
    BY <1>2, <1>3, <1>4, <1>5, <1>6, <1>7, NextMoves DEF Start

ClassesKnown == Known /\ AloneInv /\ SharedInv

(* What is known of shared classes always holds. *)
LEMMA ClassesKnownAlways == Spec => []ClassesKnown
<1>1. Init => ClassesKnown
    <2>1. SUFFICES ASSUME Init PROVE AloneInv /\ SharedInv
        BY InitKnown DEF ClassesKnown
    <2>2. /\ stack = [g \in Goroutines |-> <<>>] /\ DOMAIN <<>> = {}
          /\ templates = [t \in Templates |-> None] /\ constructors = [type \in Types |-> None]
        BY <2>1 DEF Init
    <2>3. QED
        BY <2>2 DEF AloneInv, SharedInv, Finished, Running
<1>2. ClassesKnown /\ [Next]_vars => ClassesKnown'
    BY NextKnown, AloneStep, SharedStep DEF ClassesKnown
<1>3. QED
    BY <1>1, <1>2, PTL DEF Spec

(***************************************************************************)
(* The objects of a type that have its shared class have the same one, and *)
(* it is the one that the constructor makes, if nothing strayed.           *)
(***************************************************************************)
THEOREM TypesHaveOneClass == Spec => []OneClassPerType
<1>1. ClassesKnown => OneClassPerType
    <2>1. SUFFICES ASSUME ClassesKnown, ~strayed, NEW h \in Handles, class[h] \in Templates,
                          templates[class[h]].shared
                   PROVE  LET type == templates[class[h]].type IN
                          prototypes[type] = class[h] /\ constructors[type] \in {None, class[h]}
        BY DEF OneClassPerType
    <2>2. Finished(class[h])
        BY <2>1 DEF ClassesKnown, Known, ClassInv, TemplatesInv
    <2>3. templates[class[h]].type \in Types
        <3>1. templates[class[h]] \in TemplateRecords
            BY <2>1, <2>2 DEF ClassesKnown, Known, ClassInv, TemplatesInv, Finished
        <3>2. QED
            BY <3>1 DEF TemplateRecords
    <2>4. QED
        BY <2>1, <2>2, <2>3 DEF ClassesKnown, SharedInv
<1>2. QED
    BY <1>1, ClassesKnownAlways, PTL

-----------------------------------------------------------------------------
(* One wrapper per object, when nothing strays. *)

(* What a call has below another that it waits for, or that user code made. *)
Apart(f, e) ==
    /\ f.pc \in {"instance", "base", "function"} => e.op = "prototype"
    /\ f.op = "create" /\ f.pc = "receive" /\ e.op = "create" => AddressOf[f.of] # AddressOf[e.of]

BelowInv ==
    \A g \in Goroutines : \A i, j \in DOMAIN stack[g] :
        j < i => Apart(stack[g][i], stack[g][j])

(* Until create has set the receiver its object has no wrapper, then it has this one. *)
Wrapped(f) ==
    /\ f.op \in {"new", "use"} => class[f.of] # None
    /\ f.op = "create" =>
          /\ f.pc \in {"error", "instance", "receive"} => receivers[AddressOf[f.of]] = None
          /\ f.pc = "receive" => class[f.made] # None
          /\ f.pc = "user" => receivers[AddressOf[f.of]] = f.made

(* Nobody was told, or is going to be, of a wrapper for the address. *)
Free(a) ==
    /\ \A x \in answers : AddressOf[x[1]] # a
    /\ \A f \in Frames : Running(f) /\ f.op = "create" /\ f.pc = "user" => AddressOf[f.of] # a

(* The instance is the one that was asked for; its constructor may have given it a receiver. *)
Fits(f, a) ==
    f.op = "create" /\ f.pc = "receive" /\ a # Failed =>
       /\ a \in Handles => a = f.made
       /\ \A o \in Objects : receiver[f.made] = o => Free(AddressOf[o])

WrapInv ==
    ~strayed =>
       /\ BelowInv
       /\ \A x \in answers : x \in Objects \X Handles /\ receivers[AddressOf[x[1]]] = x[2]
       /\ \A h \in Handles : class[h] = None => receiver[h] = None
       /\ \A f \in Frames : Running(f) => Wrapped(f)
       /\ \A g \in Goroutines, f \in Frames, a \in Results :
             stack[g] # <<>> /\ f = Top(g) /\ a = answer[g] => Fits(f, a)

(* The fresh calls are apart from each other and from those below. *)
FreshApart(g, n, fresh) ==
    /\ \A i, j \in DOMAIN fresh : j < i => Apart(fresh[i], fresh[j])
    /\ \A i \in DOMAIN stack[g], j \in DOMAIN fresh : i > n => Apart(stack[g][i], fresh[j])

(* Fresh calls that are apart keep all calls apart. *)
LEMMA BelowStep ==
    ASSUME BelowInv, NEW g \in Goroutines, NEW n \in {0, 1},
           NEW fresh \in Seq(Frames), Replaces(g, n, fresh), FreshApart(g, n, fresh)
    PROVE  BelowInv'
<1> SUFFICES ASSUME NEW h \in Goroutines, NEW i \in DOMAIN stack'[h], NEW j \in DOMAIN stack'[h], j < i
             PROVE  Apart(stack'[h][i], stack'[h][j])
    BY DEF BelowInv, Apart
<1>1. CASE h # g
    BY <1>1 DEF BelowInv, Replaces
<1>2. CASE h = g
    <2> DEFINE k == i + n - Len(fresh)
               l == j + n - Len(fresh)
    <2>1. /\ Len(fresh) \in Nat /\ DOMAIN fresh = 1 .. Len(fresh)
          /\ Len(stack[g]) \in Nat /\ DOMAIN stack[g] = 1 .. Len(stack[g])
          /\ DOMAIN stack'[g] = 1 .. (Len(stack[g]) - n + Len(fresh))
        BY DEF Replaces
    <2>2. /\ i \in 1 .. (Len(stack[g]) - n + Len(fresh))
          /\ j \in 1 .. (Len(stack[g]) - n + Len(fresh))
        BY <1>2, <2>1
    <2>3. ASSUME NEW m \in 1 .. (Len(stack[g]) - n + Len(fresh)), m > Len(fresh)
          PROVE  /\ m + n - Len(fresh) \in DOMAIN stack[g] /\ m + n - Len(fresh) > n
                 /\ stack'[g][m] = stack[g][m + n - Len(fresh)]
        <3>1. m + n - Len(fresh) \in 1 .. Len(stack[g]) /\ m + n - Len(fresh) > n
            BY <2>1, <2>3
        <3>2. m \in (Len(fresh) + 1) .. (Len(stack[g]) - n + Len(fresh))
            BY <2>1, <2>3
        <3>3. QED
            BY <2>1, <3>1, <3>2 DEF Replaces
    <2>4. ASSUME NEW m \in 1 .. (Len(stack[g]) - n + Len(fresh)), ~(m > Len(fresh))
          PROVE  m \in DOMAIN fresh /\ stack'[g][m] = fresh[m]
        BY <2>1, <2>4 DEF Replaces
    <2>5. CASE ~(i > Len(fresh))
        <3>1. ~(j > Len(fresh))
            BY <2>1, <2>2, <2>5
        <3>2. QED
            BY <1>2, <2>2, <2>4, <2>5, <3>1 DEF FreshApart
    <2>6. CASE i > Len(fresh) /\ ~(j > Len(fresh))
        <3>1. k \in DOMAIN stack[g] /\ k > n /\ stack'[g][i] = stack[g][k]
            BY <2>2, <2>3, <2>6
        <3>2. j \in DOMAIN fresh /\ stack'[g][j] = fresh[j]
            BY <2>2, <2>4, <2>6
        <3> HIDE DEF k
        <3>3. QED
            BY <1>2, <3>1, <3>2 DEF FreshApart
    <2>7. CASE i > Len(fresh) /\ j > Len(fresh)
        <3>1. k \in DOMAIN stack[g] /\ stack'[g][i] = stack[g][k]
            BY <2>2, <2>3, <2>7
        <3>2. l \in DOMAIN stack[g] /\ stack'[g][j] = stack[g][l]
            BY <2>2, <2>3, <2>7
        <3>3. l < k
            BY <2>1, <2>2
        <3> HIDE DEF k, l
        <3>4. QED
            BY <1>2, <3>1, <3>2, <3>3 DEF BelowInv
    <2>8. QED
        BY <2>5, <2>6, <2>7
<1>3. QED
    BY <1>1, <1>2

(* What is left to show of a step that replaces calls. *)
LEMMA WrapStep ==
    ASSUME Known, WrapInv, ~strayed, NEW g \in Goroutines, NEW n \in {0, 1},
           NEW fresh \in Seq(Frames), Replaces(g, n, fresh), FreshApart(g, n, fresh),
           \A h \in Goroutines \ {g} : stack[h] = <<>>,
           \A x \in answers' : x \in Objects \X Handles /\ receivers'[AddressOf[x[1]]] = x[2],
           \A h \in Handles : class'[h] = None => receiver'[h] = None,
           \A f \in Frames : (\E i \in DOMAIN fresh : fresh[i] = f) => Wrapped(f)',
           \A f \in Frames, i \in DOMAIN stack[g] :
               i > n /\ stack[g][i] = f /\ Wrapped(f) => Wrapped(f)',
           \A f \in Frames, a \in Results :
               stack'[g] # <<>> /\ f = Top(g)' /\ a = answer'[g] => Fits(f, a)'
    PROVE  WrapInv'
<1>1. BelowInv'
    BY BelowStep DEF WrapInv
<1>2. \A h \in Goroutines \ {g} : stack'[h] = <<>>
    BY DEF Replaces
<1>3. ASSUME NEW f \in Frames, Running(f)' PROVE Wrapped(f)'
    <2>1. PICK i \in DOMAIN stack'[g] : stack'[g][i] = f
        BY <1>2, <1>3 DEF Running
    <2>2. CASE \E j \in DOMAIN fresh : fresh[j] = f
        BY <2>2
    <2>3. ASSUME NEW j \in DOMAIN stack[g], j > n, stack[g][j] = f
          PROVE  Wrapped(f)'
        <3>1. Running(f)
            BY <2>3 DEF Running
        <3>2. Wrapped(f)
            BY <3>1 DEF WrapInv
        <3>3. QED
            BY <2>3, <3>2
    <2>4. \/ \E j \in DOMAIN fresh : fresh[j] = f
          \/ \E j \in DOMAIN stack[g] : j > n /\ stack[g][j] = f
        BY <2>1, WhereItWas
    <2>5. QED
        BY <2>2, <2>3, <2>4
<1>4. \A h \in Goroutines, f \in Frames, a \in Results :
          stack'[h] # <<>> /\ f = Top(h)' /\ a = answer'[h] => Fits(f, a)'
    BY <1>2
<1>5. QED
    BY <1>1, <1>3, <1>4 DEF WrapInv

-----------------------------------------------------------------------------
(* Steps that leave the receivers alone. *)

(* The calls are on one stack. *)
Lone(g) == ~strayed /\ \A h \in Goroutines \ {g} : stack[h] = <<>>

ClassesOnlyAdded == \A h \in Handles : class[h] # None => class'[h] # None

(* Without a change to the receivers a call keeps what it knows of its wrapper. *)
LEMMA WrappedStays ==
    ASSUME NEW f \in Frames, Placed(f), Wrapped(f), UNCHANGED links, ClassesOnlyAdded
    PROVE  Wrapped(f)'
BY DEF Wrapped, Placed, Frames, Sound, links, ClassesOnlyAdded

(* What is running has the shape of a call, and what is below another its wrapper. *)
LEMMA LowerKnown ==
    ASSUME Known, NEW g \in Goroutines, NEW f \in Frames, NEW i \in DOMAIN stack[g], stack[g][i] = f
    PROVE  Placed(f) /\ Running(f)
BY DEF Known, ShapeInv, Running

(* A call that takes the place of the running one is as much apart from those below. *)
LEMMA ApartStays ==
    ASSUME Known, WrapInv, ~strayed, NEW g \in Goroutines, stack[g] # <<>>,
           NEW c \in Frames, c = Top(g), NEW f \in Frames, f.op = c.op, f.of = c.of
    PROVE  \A i \in DOMAIN stack[g] : i > 1 => Apart(stack[g][i], f)
<1>1. stack[g] \in Seq(Frames)
    BY DEF Known, IInv, Typed
<1>2. 1 \in DOMAIN stack[g] /\ stack[g][1] = c
    BY <1>1 DEF Top
<1>3. \A i \in DOMAIN stack[g] : i > 1 => Apart(stack[g][i], c)
    BY <1>2 DEF WrapInv, BelowInv
<1>4. QED
    BY <1>3 DEF Apart

(* A call returns and sets no receiver. *)
LEMMA ReturnWrap ==
    ASSUME Known, WrapInv, NEW g \in Goroutines, Lone(g), stack[g] # <<>>,
           NEW c \in Frames, c = Top(g), NEW r \in Results, Return(g, r),
           UNCHANGED <<links, class>>, c.op = "new" => r = Failed,
           \A x \in answers' : \/ x \in answers
                               \/ x \in Objects \X Handles /\ receivers[AddressOf[x[1]]] = x[2]
    PROVE  WrapInv'
<1>1. /\ Replaces(g, 1, <<>>)
      /\ answer'[g] = IF stack'[g] # <<>> /\ Top(g)'.pc # "user" THEN r ELSE None
    BY ReturnReplaces DEF Known, IInv
<1> DEFINE fresh == <<>>
<1>2. fresh \in Seq(Frames) /\ DOMAIN fresh = {} /\ Len(fresh) = 0 /\ Replaces(g, 1, fresh)
    BY <1>1
<1> HIDE DEF fresh
<1>3. FreshApart(g, 1, fresh)
    BY <1>2 DEF FreshApart
<1>4. ASSUME NEW f \in Frames, NEW a \in Results, stack'[g] # <<>>, f = Top(g)', a = answer'[g]
      PROVE  Fits(f, a)'
    <2>1. 2 \in DOMAIN stack[g] /\ stack[g][2] = f /\ stack[g][1] = c
        BY <1>2, <1>4 DEF Replaces
    <2>2. Awaits(f, c)
        BY <2>1, BelowAwaits DEF Known
    <2>3. f.pc = "receive" => a = r /\ c.op = "new"
        BY <1>1, <1>4, <2>2 DEF Awaits
    <2>4. QED
        BY <2>3 DEF Fits
<1>5. ~strayed /\ \A h \in Goroutines \ {g} : stack[h] = <<>>
    BY DEF Lone
<1>6. \A x \in answers' : x \in Objects \X Handles /\ receivers'[AddressOf[x[1]]] = x[2]
    BY <1>5 DEF WrapInv, links
<1>7. \A h \in Handles : class'[h] = None => receiver'[h] = None
    BY <1>5 DEF WrapInv, links
<1>8. \A f \in Frames, i \in DOMAIN stack[g] :
          i > 1 /\ stack[g][i] = f /\ Wrapped(f) => Wrapped(f)'
    BY WrappedStays, LowerKnown DEF ClassesOnlyAdded
<1>9. QED
    BY <1>2, <1>3, <1>4, <1>5, <1>6, <1>7, <1>8, WrapStep

(* A call goes on and sets no receiver. *)
LEMMA ContinueWrap ==
    ASSUME Known, WrapInv, NEW g \in Goroutines, Lone(g), stack[g] # <<>>,
           NEW c \in Frames, c = Top(g), NEW f \in Frames, Continue(g, f),
           f.op = c.op, f.of = c.of, UNCHANGED <<links, answers>>, ClassesOnlyAdded, Wrapped(f)',
           f.op = "create" /\ f.pc = "receive" => answer'[g] = None /\ receiver[f.made] = None
    PROVE  WrapInv'
<1> DEFINE fresh == <<f>>
<1>1. Replaces(g, 1, fresh)
    BY ContinueReplaces DEF Known, IInv
<1>2. fresh \in Seq(Frames) /\ DOMAIN fresh = {1} /\ fresh[1] = f /\ Len(fresh) = 1
    OBVIOUS
<1> HIDE DEF fresh
<1>3. ~strayed /\ \A h \in Goroutines \ {g} : stack[h] = <<>>
    BY DEF Lone
<1>4. FreshApart(g, 1, fresh)
    BY <1>2, <1>3, ApartStays DEF FreshApart
<1>5. stack'[g] # <<>> /\ Top(g)' = f
    BY <1>1, <1>2 DEF Replaces
<1>6. \A a \in Results : a = answer'[g] => Fits(f, a)'
    BY NoneAssumption DEF Fits, links
<1>7. \A x \in answers' : x \in Objects \X Handles /\ receivers'[AddressOf[x[1]]] = x[2]
    BY <1>3 DEF WrapInv, links
<1>8. \A h \in Handles : class'[h] = None => receiver'[h] = None
    BY <1>3 DEF WrapInv, links, ClassesOnlyAdded
<1>9. \A k \in Frames, i \in DOMAIN stack[g] :
          i > 1 /\ stack[g][i] = k /\ Wrapped(k) => Wrapped(k)'
    BY WrappedStays, LowerKnown
<1>10. QED
    BY <1>1, <1>2, <1>3, <1>4, <1>5, <1>6, <1>7, <1>8, <1>9, WrapStep

(* A call calls another and sets no receiver. *)
LEMMA InvokeWrap ==
    ASSUME Known, WrapInv, NEW g \in Goroutines, Lone(g), stack[g] # <<>>,
           NEW c \in Frames, c = Top(g), NEW f \in Frames, NEW d \in Frames, Invoke(g, f, d),
           f.op = c.op, f.of = c.of, UNCHANGED <<links, answers>>, ClassesOnlyAdded,
           Wrapped(f)', Wrapped(d)', Apart(f, d),
           d.op = "prototype" \/ (d.op = "new" /\ c.op = "create")
    PROVE  WrapInv'
<1> DEFINE fresh == <<d, f>>
<1>1. Replaces(g, 1, fresh)
    BY InvokeReplaces DEF Known, IInv
<1>2. /\ fresh \in Seq(Frames) /\ DOMAIN fresh = {1, 2} /\ Len(fresh) = 2
      /\ fresh[1] = d /\ fresh[2] = f
    OBVIOUS
<1> HIDE DEF fresh
<1>3. ~strayed /\ \A h \in Goroutines \ {g} : stack[h] = <<>>
    BY DEF Lone
<1>4. FreshApart(g, 1, fresh)
    <2>1. \A i \in DOMAIN stack[g] : i > 1 => Apart(stack[g][i], f)
        BY <1>3, ApartStays
    <2>2. \A i \in DOMAIN stack[g] : i > 1 => Apart(stack[g][i], d)
        BY <2>1 DEF Apart
    <2>3. QED
        BY <1>2, <2>1, <2>2 DEF FreshApart
<1>5. stack'[g] # <<>> /\ Top(g)' = d
    BY <1>1, <1>2 DEF Replaces
<1>6. \A a \in Results : Fits(d, a)'
    BY DEF Fits
<1>7. \A x \in answers' : x \in Objects \X Handles /\ receivers'[AddressOf[x[1]]] = x[2]
    BY <1>3 DEF WrapInv, links
<1>8. \A h \in Handles : class'[h] = None => receiver'[h] = None
    BY <1>3 DEF WrapInv, links, ClassesOnlyAdded
<1>9. \A k \in Frames, i \in DOMAIN stack[g] :
          i > 1 /\ stack[g][i] = k /\ Wrapped(k) => Wrapped(k)'
    BY WrappedStays, LowerKnown
<1>10. QED
    BY <1>1, <1>2, <1>3, <1>4, <1>5, <1>6, <1>7, <1>8, <1>9, WrapStep

(* Calls that make classes. *)
LEMMA PrototypesWrap ==
    ASSUME Known, WrapInv, NEW g \in Goroutines, Lone(g),
           NEW fresh \in Seq(Frames), Replaces(g, 1, fresh), fresh # <<>>,
           \A i \in DOMAIN fresh : fresh[i].op = "prototype",
           UNCHANGED <<links, answers, class>>
    PROVE  WrapInv'
<1>1. ~strayed /\ \A h \in Goroutines \ {g} : stack[h] = <<>>
    BY DEF Lone
<1>2. FreshApart(g, 1, fresh)
    BY DEF FreshApart, Apart
<1>3. \A f \in Frames : (\E i \in DOMAIN fresh : fresh[i] = f) => Wrapped(f)'
    BY DEF Wrapped
<1>4. 1 \in DOMAIN fresh /\ stack'[g] # <<>> => Top(g)' = fresh[1]
    BY DEF Replaces
<1>5. \A f \in Frames, a \in Results : stack'[g] # <<>> /\ f = Top(g)' => Fits(f, a)'
    BY <1>4 DEF Fits
<1>6. \A x \in answers' : x \in Objects \X Handles /\ receivers'[AddressOf[x[1]]] = x[2]
    BY <1>1 DEF WrapInv, links
<1>7. \A h \in Handles : class'[h] = None => receiver'[h] = None
    BY <1>1 DEF WrapInv, links
<1>8. \A k \in Frames, i \in DOMAIN stack[g] :
          i > 1 /\ stack[g][i] = k /\ Wrapped(k) => Wrapped(k)'
    BY WrappedStays, LowerKnown DEF ClassesOnlyAdded
<1>9. QED
    BY <1>1, <1>2, <1>3, <1>5, <1>6, <1>7, <1>8, WrapStep

(* A call of user code, which is the user's or waits for none of the library's. *)
LEMMA BeginWrap ==
    ASSUME Known, WrapInv, NEW g \in Goroutines, NEW d \in Frames, Begin(g, d), ~strayed',
           ClassesOnlyAdded, Wrapped(d)', d.pc \in {"lookup", "user"}
    PROVE  WrapInv'
<1>1. /\ stack' = [stack EXCEPT ![g] = <<d>> \o @] /\ UNCHANGED <<links, answers>>
      /\ stack[g] = <<>> \/ Top(g).pc = "user"
      /\ ~strayed /\ ~Stray(g, d.of)
    BY DEF Begin, MayCall
<1>2. \A h \in Goroutines \ {g} : stack[h] = <<>>
    BY <1>1 DEF Stray
<1> DEFINE fresh == <<d>>
<1>3. Replaces(g, 0, fresh)
    BY <1>1, PushReplaces DEF Known, IInv
<1>4. fresh \in Seq(Frames) /\ DOMAIN fresh = {1} /\ fresh[1] = d /\ Len(fresh) = 1
    OBVIOUS
<1> HIDE DEF fresh
<1>5. ASSUME NEW i \in DOMAIN stack[g] PROVE Apart(stack[g][i], d)
    <2>1. stack[g] \in Seq(Frames) /\ stack[g] # <<>>
        BY DEF Known, IInv, Typed
    <2>2. 1 \in DOMAIN stack[g] /\ Top(g) = stack[g][1] /\ Top(g).pc = "user" /\ Placed(Top(g))
        BY <1>1, <2>1, TopKnown DEF Top
    <2>3. Top(g).op # "prototype"
        BY <2>2 DEF Placed
    <2>4. stack[g][i].pc \notin {"instance", "base", "function"}
        <3>1. CASE i = 1
            BY <2>2, <3>1
        <3>2. CASE i > 1
            BY <1>1, <2>2, <2>3, <3>2 DEF WrapInv, BelowInv, Apart
        <3>3. QED
            BY <2>1, <3>1, <3>2
    <2>5. stack[g][i].op = "create" /\ stack[g][i].pc = "receive" /\ d.op = "create" =>
              AddressOf[stack[g][i].of] # AddressOf[d.of]
        BY <1>1 DEF Stray, Frames, Sound
    <2>6. QED
        BY <2>4, <2>5 DEF Apart
<1>6. FreshApart(g, 0, fresh)
    BY <1>4, <1>5 DEF FreshApart
<1>7. stack'[g] # <<>> /\ Top(g)' = d
    BY <1>3, <1>4 DEF Replaces
<1>8. \A a \in Results : Fits(d, a)'
    BY DEF Fits
<1>9. \A x \in answers' : x \in Objects \X Handles /\ receivers'[AddressOf[x[1]]] = x[2]
    BY <1>1 DEF WrapInv, links
<1>10. \A h \in Handles : class'[h] = None => receiver'[h] = None
    BY <1>1 DEF WrapInv, links, ClassesOnlyAdded
<1>11. \A k \in Frames, i \in DOMAIN stack[g] :
          i > 0 /\ stack[g][i] = k /\ Wrapped(k) => Wrapped(k)'
    BY <1>1, WrappedStays, LowerKnown
<1>12. QED
    BY <1>1, <1>2, <1>3, <1>4, <1>6, <1>7, <1>8, <1>9, <1>10, <1>11, WrapStep

-----------------------------------------------------------------------------
(* Steps that give an object its wrapper. *)

(* SetReceiver, by address and by handle. *)
LEMMA SetReceiverAt ==
    ASSUME Typed, NEW h \in Handles, NEW o \in Objects, SetReceiver(h, o)
    PROVE  /\ receivers'[AddressOf[o]] = h
           /\ \A a \in Addresses : a # AddressOf[o] =>
                 /\ receivers'[a] \in {receivers[a], None}
                 /\ (\A p \in Objects : receiver[h] = p => AddressOf[p] # a) => receivers'[a] = receivers[a]
           /\ receiver'[h] = o
           /\ \A k \in Handles \ {h} : receiver'[k] = receiver[k]
<1> DEFINE replaced == {AddressOf[p] : p \in {receiver[h]} \ {None}}
<1>1. /\ receivers' = [a \in Addresses |-> IF a = AddressOf[o] THEN h
                                          ELSE IF a \in replaced THEN None ELSE receivers[a]]
      /\ receiver' = [receiver EXCEPT ![h] = o]
    BY DEF SetReceiver
<1>2. AddressOf[o] \in Addresses
    BY ObjectsAssumption
<1>3. ASSUME NEW a, \A p \in Objects : receiver[h] = p => AddressOf[p] # a
      PROVE  a \notin replaced
    BY <1>3 DEF Typed
<1>4. QED
    BY <1>1, <1>2, <1>3 DEF Typed

(* Setting the receiver of one that has none, to an object that is not in use. *)
LEMMA SetFresh ==
    ASSUME Known, WrapInv, ~strayed, NEW h \in Handles, NEW o \in Objects, SetReceiver(h, o),
           receiver[h] = None, class[h] # None, ~InUse(o), UNCHANGED <<class, answers>>
    PROVE  /\ \A x \in answers' : x \in Objects \X Handles /\ receivers'[AddressOf[x[1]]] = x[2]
           /\ \A k \in Handles : class'[k] = None => receiver'[k] = None
           /\ \A f \in Frames : Running(f) => Wrapped(f)'
           /\ Free(AddressOf[o])
<1>1. Typed
    BY DEF Known, IInv
<1>2. \A p \in Objects : p # None /\ AddressOf[p] \in Addresses
    BY NoneAssumption, ObjectsAssumption
<1>3. \A k \in Handles : k # None
    BY NoneAssumption
<1>4. \A a \in Addresses : a # AddressOf[o] => receivers'[a] = receivers[a]
    BY <1>1, <1>2, SetReceiverAt
<1>5. ASSUME NEW x \in answers
      PROVE  /\ x \in Objects \X Handles /\ AddressOf[x[1]] # AddressOf[o]
             /\ receivers'[AddressOf[x[1]]] = x[2]
    <2>1. x \in Objects \X Handles /\ receivers[AddressOf[x[1]]] = x[2]
        BY DEF WrapInv
    <2>2. x[1] \in Objects /\ x[2] \in Handles
        BY <2>1
    <2>3. QED
        BY <1>2, <1>3, <1>4, <2>1, <2>2 DEF InUse
<1>6. ASSUME NEW f \in Frames, Running(f), f.op = "create"
      PROVE  f.of \in Objects /\ AddressOf[f.of] # AddressOf[o]
    BY <1>6 DEF Running, InUse, Frames, Sound
<1>7. ASSUME NEW f \in Frames, Running(f) PROVE Wrapped(f)'
    <2>1. Wrapped(f)
        BY <1>7 DEF WrapInv
    <2>2. f.op = "create" => receivers'[AddressOf[f.of]] = receivers[AddressOf[f.of]]
        BY <1>2, <1>4, <1>6, <1>7
    <2>3. QED
        BY <2>1, <2>2 DEF Wrapped
<1>8. \A k \in Handles : class'[k] = None => receiver'[k] = None
    BY <1>1, SetReceiverAt DEF WrapInv
<1>9. Free(AddressOf[o])
    BY <1>5, <1>6 DEF Free
<1>10. QED
    BY <1>5, <1>7, <1>8, <1>9

(* The user's constructor returns: unless it strays, with an object not in use, for this. *)
LEMMA ConstructorReturnsWrap ==
    ASSUME Known, WrapInv, NEW g \in Goroutines, Lone(g), ConstructorReturns(g), ~strayed'
    PROVE  WrapInv'
<1>1. stack[g] # <<>> /\ Top(g).op = "new" /\ Top(g).pc = "user"
    BY DEF ConstructorReturns, AtStep
<1>2. PICK c \in Frames : c = Top(g)
    BY <1>1, TopKnown
<1>3. Typed /\ c.op = "new" /\ Placed(c) /\ Running(c) /\ c.of \in Handles
    BY <1>1, <1>2, TopKnown DEF Placed
<1>4. ~strayed /\ \A k \in Goroutines \ {g} : stack[k] = <<>>
    BY DEF Lone
<1>5. CASE Return(g, Failed) /\ UNCHANGED links
    BY <1>1, <1>2, <1>4, <1>5, ReturnWrap DEF ConstructorReturns, Results
<1>6. ASSUME NEW o \in Objects, NEW this \in Handles, SetReceiver(this, o), Return(g, this),
             strayed' = (strayed \/ this # c.of \/ InUse(o) \/ receiver[c.of] # None)
      PROVE  WrapInv'
    <2>1. this = c.of /\ ~InUse(o) /\ receiver[this] = None /\ UNCHANGED <<class, answers>>
        BY <1>6 DEF ConstructorReturns
    <2>2. class[this] # None
        BY <1>3, <1>4, <2>1 DEF WrapInv, Wrapped
    <2>3. /\ \A x \in answers' : x \in Objects \X Handles /\ receivers'[AddressOf[x[1]]] = x[2]
          /\ \A k \in Handles : class'[k] = None => receiver'[k] = None
          /\ \A f \in Frames : Running(f) => Wrapped(f)'
          /\ Free(AddressOf[o])
        BY <1>4, <1>6, <2>1, <2>2, SetFresh
    <2>4. PICK r \in Results : r = this
        BY DEF Results
    <2>5. /\ Replaces(g, 1, <<>>)
          /\ answer'[g] = IF stack'[g] # <<>> /\ Top(g)'.pc # "user" THEN r ELSE None
        BY <1>1, <1>3, <1>6, <2>4, ReturnReplaces
    <2> DEFINE fresh == <<>>
    <2>6. fresh \in Seq(Frames) /\ DOMAIN fresh = {} /\ Len(fresh) = 0 /\ Replaces(g, 1, fresh)
        BY <2>5
    <2> HIDE DEF fresh
    <2>7. FreshApart(g, 1, fresh)
        BY <2>6 DEF FreshApart
    <2>8. \A f \in Frames : Running(f)' => Running(f)
        BY <2>6, RunningStep
    <2>9. Free(AddressOf[o])'
        BY <2>1, <2>3, <2>8 DEF Free
    <2>10. ASSUME NEW f \in Frames, NEW a \in Results, stack'[g] # <<>>, f = Top(g)', a = answer'[g]
           PROVE  Fits(f, a)'
        <3>1. 2 \in DOMAIN stack[g] /\ stack[g][2] = f /\ stack[g][1] = c
            BY <1>2, <2>6, <2>10 DEF Replaces
        <3>2. Awaits(f, c)
            BY <3>1, BelowAwaits DEF Known
        <3>3. f.pc = "receive" => a = this /\ f.made = this
            BY <1>3, <2>1, <2>4, <2>5, <2>10, <3>2 DEF Awaits
        <3>4. receiver'[this] = o
            BY <1>3, <1>6, SetReceiverAt
        <3>5. QED
            BY <2>9, <3>3, <3>4 DEF Fits
    <2>11. \A f \in Frames, i \in DOMAIN stack[g] :
               i > 1 /\ stack[g][i] = f /\ Wrapped(f) => Wrapped(f)'
        BY <2>3, LowerKnown
    <2>12. QED
        BY <1>4, <2>3, <2>6, <2>7, <2>10, <2>11, WrapStep
<1>7. QED
    BY <1>2, <1>5, <1>6 DEF ConstructorReturns

(* A step that leaves the calls where they are, the running one not at "receive". *)
LEMMA SameStackWrap ==
    ASSUME Known, WrapInv, NEW g \in Goroutines, Lone(g), UNCHANGED stack,
           stack[g] = <<>> \/ Top(g).pc = "user",
           \A x \in answers' : x \in Objects \X Handles /\ receivers'[AddressOf[x[1]]] = x[2],
           \A h \in Handles : class'[h] = None => receiver'[h] = None,
           \A f \in Frames : Running(f) => Wrapped(f)'
    PROVE  WrapInv'
<1>1. ~strayed /\ \A k \in Goroutines \ {g} : stack[k] = <<>>
    BY DEF Lone
<1>2. BelowInv'
    BY <1>1 DEF WrapInv, BelowInv, Apart
<1>3. \A f \in Frames : Running(f)' => Wrapped(f)'
    BY DEF Running
<1>4. \A h \in Goroutines, f \in Frames, a \in Results :
          stack'[h] # <<>> /\ f = Top(h)' => Fits(f, a)'
    BY <1>1 DEF Fits, Top
<1>5. QED
    BY <1>2, <1>3, <1>4 DEF WrapInv

(* V8Construct returns: unless it strays, with an object not in use, for one without. *)
LEMMA EndUseWrap ==
    ASSUME Known, WrapInv, NEW g \in Goroutines, Lone(g), EndUse(g), ~strayed'
    PROVE  WrapInv'
<1>1. stack[g] # <<>> /\ Top(g).op = "use" /\ Top(g).pc = "user"
    BY DEF EndUse, AtStep
<1>2. PICK c \in Frames : c = Top(g)
    BY <1>1, TopKnown
<1>3. Typed /\ c.op = "use" /\ Running(c) /\ c.of \in Handles
    BY <1>1, <1>2, TopKnown DEF Frames, Sound
<1>4. ~strayed /\ \A k \in Goroutines \ {g} : stack[k] = <<>>
    BY DEF Lone
<1>5. Return(g, None) /\ None \in Results /\ UNCHANGED <<class, answers>>
    BY DEF EndUse, Results
<1>6. CASE UNCHANGED links
    BY <1>1, <1>2, <1>4, <1>5, <1>6, ReturnWrap
<1>7. ASSUME ClearReceiver(c.of), strayed' = (strayed \/ receiver[c.of] # None)
      PROVE  WrapInv'
    <2>1. receiver[c.of] = None
        BY <1>7
    <2>2. UNCHANGED links
        BY <1>3, <1>7, <2>1 DEF ClearReceiver, Typed, links
    <2>3. QED
        BY <1>1, <1>2, <1>4, <1>5, <2>2, ReturnWrap
<1>8. ASSUME NEW o \in Objects, SetReceiver(c.of, o),
             strayed' = (strayed \/ InUse(o) \/ receiver[c.of] # None)
      PROVE  WrapInv'
    <2>1. ~InUse(o) /\ receiver[c.of] = None
        BY <1>8
    <2>2. class[c.of] # None
        BY <1>3, <1>4 DEF WrapInv, Wrapped
    <2>3. /\ \A x \in answers' : x \in Objects \X Handles /\ receivers'[AddressOf[x[1]]] = x[2]
          /\ \A k \in Handles : class'[k] = None => receiver'[k] = None
          /\ \A f \in Frames : Running(f) => Wrapped(f)'
        BY <1>3, <1>4, <1>5, <1>8, <2>1, <2>2, SetFresh
    <2>4. /\ Replaces(g, 1, <<>>)
          /\ answer'[g] = IF stack'[g] # <<>> /\ Top(g)'.pc # "user" THEN None ELSE None
        BY <1>1, <1>3, <1>5, ReturnReplaces
    <2> DEFINE fresh == <<>>
    <2>5. fresh \in Seq(Frames) /\ DOMAIN fresh = {} /\ Len(fresh) = 0 /\ Replaces(g, 1, fresh)
        BY <2>4
    <2> HIDE DEF fresh
    <2>6. FreshApart(g, 1, fresh)
        BY <2>5 DEF FreshApart
    <2>7. ASSUME NEW f \in Frames, NEW a \in Results, stack'[g] # <<>>, f = Top(g)', a = answer'[g]
          PROVE  Fits(f, a)'
        <3>1. 2 \in DOMAIN stack[g] /\ stack[g][2] = f /\ stack[g][1] = c
            BY <1>2, <2>5, <2>7 DEF Replaces
        <3>2. Awaits(f, c)
            BY <3>1, BelowAwaits DEF Known
        <3>3. f.pc # "receive"
            BY <1>3, <3>2 DEF Awaits
        <3>4. QED
            BY <3>3 DEF Fits
    <2>8. \A f \in Frames, i \in DOMAIN stack[g] :
              i > 1 /\ stack[g][i] = f /\ Wrapped(f) => Wrapped(f)'
        BY <2>3, LowerKnown
    <2>9. QED
        BY <1>4, <2>3, <2>5, <2>6, <2>7, <2>8, WrapStep
<1>9. QED
    BY <1>2, <1>6, <1>7, <1>8 DEF EndUse

(* The use of a member begins, of an object that was made. *)
LEMMA UseMemberWrap ==
    ASSUME Known, WrapInv, NEW g \in Goroutines, NEW h \in Handles, NEW n \in Names,
           UseMember(g, h, n), ~strayed'
    PROVE  WrapInv'
<1>1. PICK d \in Frames : d = Call("use", "user", h, TRUE)
    BY CallIsFrame
<1>2. d.op = "use" /\ d.pc = "user" /\ d.of = h
    BY <1>1 DEF Call
<1>3. class[h] # None
    BY NoneAssumption DEF UseMember
<1>4. Begin(g, d) /\ ClassesOnlyAdded /\ Wrapped(d)'
    BY <1>1, <1>2, <1>3 DEF UseMember, ClassesOnlyAdded, Wrapped
<1>5. QED
    BY <1>2, <1>4, BeginWrap

(* create gives its object the instance, whose own receiver nobody was told of. *)
LEMMA ReceiveSets ==
    ASSUME Known, WrapInv, NEW g \in Goroutines, Lone(g), stack[g] # <<>>,
           NEW c \in Frames, c = Top(g), c.op = "create", c.pc = "receive", answer[g] # Failed,
           SetReceiver(Instantiated(g), c.of), UNCHANGED class
    PROVE  /\ Instantiated(g) = c.made /\ c.made \in Handles
           /\ receivers'[AddressOf[c.of]] = c.made
           /\ \A x \in answers : x \in Objects \X Handles /\ receivers'[AddressOf[x[1]]] = x[2]
           /\ \A k \in Handles : class'[k] = None => receiver'[k] = None
           /\ \A f \in Frames, i \in DOMAIN stack[g] :
                  i > 1 /\ stack[g][i] = f /\ Wrapped(f) => Wrapped(f)'
<1>1. /\ Typed /\ c.of \in Objects /\ c.made \in Handles /\ Running(c) /\ answer[g] \in Results
    BY TopKnown DEF Frames, Sound
<1>2. ~strayed /\ Wrapped(c)
    BY <1>1 DEF Lone, WrapInv
<1>3. PICK a \in Results : a = answer[g]
    BY <1>1
<1>4. Fits(c, a)
    BY <1>2, <1>3 DEF WrapInv
<1>5. Instantiated(g) = c.made
    BY <1>3, <1>4 DEF Instantiated, Fits
<1> DEFINE b == AddressOf[c.of]
<1>6. \A p \in Objects : p # None /\ AddressOf[p] \in Addresses
    BY NoneAssumption, ObjectsAssumption
<1>7. /\ receivers'[b] = c.made
      /\ \A d \in Addresses : d # b =>
            /\ receivers'[d] \in {receivers[d], None}
            /\ (\A p \in Objects : receiver[c.made] = p => AddressOf[p] # d) => receivers'[d] = receivers[d]
      /\ \A k \in Handles \ {c.made} : receiver'[k] = receiver[k]
    BY <1>1, <1>5, SetReceiverAt
<1>8. \A p \in Objects : receiver[c.made] = p => Free(AddressOf[p])
    BY <1>3, <1>4 DEF Fits
<1>9. receivers[b] = None /\ class[c.made] # None
    BY <1>2 DEF Wrapped
<1>10. ASSUME NEW x \in answers
       PROVE  x \in Objects \X Handles /\ receivers'[AddressOf[x[1]]] = x[2]
    <2>1. x \in Objects \X Handles /\ receivers[AddressOf[x[1]]] = x[2]
        BY <1>2 DEF WrapInv
    <2>2. x[1] \in Objects /\ x[2] \in Handles /\ x[2] # None
        BY <2>1, NoneAssumption
    <2>3. \A p \in Objects : receiver[c.made] = p => AddressOf[p] # AddressOf[x[1]]
        BY <1>8 DEF Free
    <2>4. AddressOf[x[1]] # b
        BY <1>9, <2>1, <2>2
    <2>5. QED
        BY <1>6, <1>7, <2>1, <2>2, <2>3, <2>4
<1>11. \A k \in Handles : class'[k] = None => receiver'[k] = None
    BY <1>2, <1>7, <1>9 DEF WrapInv
<1>12. ASSUME NEW f \in Frames, NEW i \in DOMAIN stack[g], i > 1, stack[g][i] = f, Wrapped(f)
       PROVE  Wrapped(f)'
    <2>1. stack[g] \in Seq(Frames)
        BY <1>1 DEF Typed
    <2>2. 1 \in DOMAIN stack[g] /\ stack[g][1] = c /\ i - 1 \in DOMAIN stack[g]
        BY <1>12, <2>1 DEF Top
    <2>3. Apart(f, c)
        BY <1>2, <1>12, <2>2 DEF WrapInv, BelowInv
    <2>4. Awaits(f, stack[g][i - 1])
        BY <1>12, <2>2 DEF Known, ShapeInv
    <2>5. CASE f.op = "create"
        <3>1. f.of \in Objects
            BY <2>5 DEF Frames, Sound
        <3>2. f.pc \notin {"error", "instance"}
            BY <2>3, <2>4 DEF Apart, Awaits
        <3>3. CASE f.pc = "receive"
            <4>1. AddressOf[f.of] # b
                BY <2>3, <2>5, <3>3 DEF Apart
            <4>2. QED
                BY <1>6, <1>7, <1>12, <2>5, <3>1, <3>3, <4>1 DEF Wrapped
        <3>4. CASE f.pc = "user"
            <4>1. f.made \in Handles /\ f.made # None
                BY <2>5, <3>4, NoneAssumption DEF Frames, Sound
            <4>2. receivers[AddressOf[f.of]] = f.made
                BY <1>12, <2>5, <3>4 DEF Wrapped
            <4>3. AddressOf[f.of] # b
                BY <1>9, <4>1, <4>2
            <4>4. Running(f)
                BY <1>12 DEF Running
            <4>5. \A p \in Objects : receiver[c.made] = p => AddressOf[p] # AddressOf[f.of]
                BY <1>8, <2>5, <3>4, <4>4 DEF Free
            <4>6. receivers'[AddressOf[f.of]] = f.made
                BY <1>6, <1>7, <3>1, <4>2, <4>3, <4>5
            <4>7. QED
                BY <2>5, <3>4, <4>6 DEF Wrapped
        <3>5. QED
            BY <2>5, <3>2, <3>3, <3>4 DEF Wrapped
    <2>6. CASE f.op # "create"
        BY <1>12, <2>6 DEF Wrapped
    <2>7. QED
        BY <2>5, <2>6
<1>13. QED
    BY <1>1, <1>5, <1>7, <1>10, <1>11, <1>12

(* create sets the receiver of an object that has no wrapper. *)
LEMMA ReceiveWrap ==
    ASSUME Known, WrapInv, NEW g \in Goroutines, Lone(g), Receive(g)
    PROVE  WrapInv'
<1>1. stack[g] # <<>> /\ Top(g).op = "create" /\ Top(g).pc = "receive"
    BY DEF Receive, AtStep
<1>2. PICK c \in Frames : c = Top(g)
    BY <1>1, TopKnown
<1>3. Typed /\ c \in FrameRecords /\ c.op = "create" /\ c.of \in Objects
    BY <1>1, <1>2, TopKnown DEF Frames, Sound
<1>4. ~strayed /\ \A k \in Goroutines \ {g} : stack[k] = <<>>
    BY DEF Lone
<1>5. CASE Return(g, Failed) /\ UNCHANGED <<links, answers>>
    BY <1>1, <1>2, <1>3, <1>5, ReturnWrap DEF Receive, Results
<1>6. CASE answer[g] # Failed /\ SetReceiver(Instantiated(g), c.of)
    <2>1. UNCHANGED class
        BY DEF Receive
    <2>2. /\ Instantiated(g) = c.made /\ c.made \in Handles
          /\ receivers'[AddressOf[c.of]] = c.made
          /\ \A x \in answers : x \in Objects \X Handles /\ receivers'[AddressOf[x[1]]] = x[2]
          /\ \A k \in Handles : class'[k] = None => receiver'[k] = None
          /\ \A f \in Frames, i \in DOMAIN stack[g] :
                 i > 1 /\ stack[g][i] = f /\ Wrapped(f) => Wrapped(f)'
        BY <1>1, <1>2, <1>3, <1>6, <2>1, ReceiveSets
    <2>3. CASE Continue(g, [[c EXCEPT !.made = Instantiated(g)] EXCEPT !.pc = "user"]) /\ UNCHANGED answers
        <3>1. PICK f \in Frames : f = [[c EXCEPT !.made = Instantiated(g)] EXCEPT !.pc = "user"]
            BY <1>3, <2>2 DEF Frames, FrameRecords, Sound, Results
        <3>2. f.op = c.op /\ f.of = c.of /\ f.pc = "user" /\ f.made = c.made
            BY <1>3, <2>2, <3>1 DEF FrameRecords
        <3> DEFINE fresh == <<f>>
        <3>3. Replaces(g, 1, fresh)
            BY <1>1, <1>3, <2>3, <3>1, ContinueReplaces
        <3>4. fresh \in Seq(Frames) /\ DOMAIN fresh = {1} /\ fresh[1] = f /\ Len(fresh) = 1
            OBVIOUS
        <3> HIDE DEF fresh
        <3>5. FreshApart(g, 1, fresh)
            BY <1>1, <1>2, <1>4, <3>2, <3>4, ApartStays DEF FreshApart
        <3>6. stack'[g] # <<>> /\ Top(g)' = f
            BY <3>3, <3>4 DEF Replaces
        <3>7. \A a \in Results : Fits(f, a)'
            BY <3>2 DEF Fits
        <3>8. Wrapped(f)'
            BY <1>3, <2>2, <3>2 DEF Wrapped
        <3>9. \A x \in answers' : x \in Objects \X Handles /\ receivers'[AddressOf[x[1]]] = x[2]
            BY <2>2, <2>3
        <3>10. QED
            BY <1>4, <2>2, <3>3, <3>4, <3>5, <3>6, <3>7, <3>8, <3>9, WrapStep
    <2>4. CASE AnswerCreate(g, c.of, Instantiated(g))
        <3>1. PICK r \in Results : r = c.made
            BY <2>2 DEF Results
        <3>2. Return(g, r) /\ answers' = answers \cup {<<c.of, c.made>>}
            BY <1>4, <2>2, <2>4, <3>1 DEF AnswerCreate
        <3>3. Replaces(g, 1, <<>>)
            BY <1>1, <1>3, <3>2, ReturnReplaces
        <3> DEFINE fresh == <<>>
        <3>4. fresh \in Seq(Frames) /\ DOMAIN fresh = {} /\ Len(fresh) = 0 /\ Replaces(g, 1, fresh)
            BY <3>3
        <3> HIDE DEF fresh
        <3>5. FreshApart(g, 1, fresh)
            BY <3>4 DEF FreshApart
        <3>6. ASSUME NEW f \in Frames, NEW a \in Results, stack'[g] # <<>>, f = Top(g)'
              PROVE  Fits(f, a)'
            <4>1. 2 \in DOMAIN stack[g] /\ stack[g][2] = f /\ stack[g][1] = c
                BY <1>2, <3>4, <3>6 DEF Replaces
            <4>2. Awaits(f, c)
                BY <4>1, BelowAwaits DEF Known
            <4>3. f.pc # "receive"
                BY <1>3, <4>2 DEF Awaits
            <4>4. QED
                BY <4>3 DEF Fits
        <3>7. \A x \in answers' : x \in Objects \X Handles /\ receivers'[AddressOf[x[1]]] = x[2]
            BY <1>3, <2>2, <3>2
        <3>8. QED
            BY <1>4, <2>2, <3>4, <3>5, <3>6, <3>7, WrapStep
    <2>5. [c EXCEPT !.made = Instantiated(g)].of = c.of /\ [c EXCEPT !.made = Instantiated(g)].made = Instantiated(g)
        BY <1>3 DEF FrameRecords
    <2>6. QED
        BY <1>2, <1>6, <2>3, <2>4, <2>5 DEF Receive
<1>7. QED
    <2>1. [c EXCEPT !.made = Instantiated(g)].of = c.of /\ [c EXCEPT !.made = Instantiated(g)].made = Instantiated(g)
        BY <1>3 DEF FrameRecords
    <2>2. QED
        BY <1>2, <1>5, <1>6, <2>1 DEF Receive

-----------------------------------------------------------------------------
(* Every step. *)

(* create answers the wrapper that receivers remembers, or goes on without one. *)
LEMMA LookupWrap ==
    ASSUME Known, WrapInv, NEW g \in Goroutines, Lone(g), Lookup(g)
    PROVE  WrapInv'
<1>1. stack[g] # <<>> /\ Top(g).op = "create" /\ Top(g).pc = "lookup"
    BY DEF Lookup, AtStep
<1>2. PICK c \in Frames : c = Top(g)
    BY <1>1, TopKnown
<1>3. Typed /\ c \in FrameRecords /\ c.op = "create" /\ c.of \in Objects
    BY <1>1, <1>2, TopKnown DEF Frames, Sound
<1>4. ~strayed /\ UNCHANGED <<links, class>> /\ ClassesOnlyAdded
    BY DEF Lone, Lookup, ClassesOnlyAdded
<1> DEFINE known == receivers[AddressOf[c.of]]
<1>5. CASE known # None /\ AnswerCreate(g, c.of, known)
    <2>1. known \in Handles
        BY <1>3, <1>5, ObjectsAssumption DEF Typed
    <2>2. PICK r \in Results : r = known
        BY <2>1 DEF Results
    <2>3. Return(g, r) /\ answers' = answers \cup {<<c.of, r>>}
        BY <1>4, <1>5, <2>2 DEF AnswerCreate
    <2>4. \A x \in answers' : \/ x \in answers
                              \/ x \in Objects \X Handles /\ receivers[AddressOf[x[1]]] = x[2]
        BY <1>3, <2>1, <2>2, <2>3
    <2>5. QED
        BY <1>1, <1>2, <1>3, <1>4, <2>3, <2>4, ReturnWrap
<1>6. CASE known = None /\ Continue(g, [c EXCEPT !.pc = "error"]) /\ UNCHANGED answers
    <2>1. PICK f \in Frames : f = [c EXCEPT !.pc = "error"]
        BY <1>3 DEF Frames, FrameRecords, Sound
    <2>2. f.op = c.op /\ f.of = c.of /\ f.pc = "error"
        BY <1>3, <2>1 DEF FrameRecords
    <2>3. Wrapped(f)'
        BY <1>3, <1>4, <1>6, <2>2 DEF Wrapped, links
    <2>4. QED
        BY <1>1, <1>2, <1>4, <1>6, <2>1, <2>2, <2>3, ContinueWrap
<1>7. CASE /\ known = None /\ TypeOf[c.of] # ErrorType /\ UNCHANGED answers
           /\ Invoke(g, [c EXCEPT !.pc = "instance"], Call("prototype", "lookup", TypeOf[c.of], TRUE))
    <2>1. PICK f \in Frames : f = [c EXCEPT !.pc = "instance"]
        BY <1>3 DEF Frames, FrameRecords, Sound
    <2>2. f.op = c.op /\ f.of = c.of /\ f.pc = "instance"
        BY <1>3, <2>1 DEF FrameRecords
    <2>3. TypeOf[c.of] \in Types
        BY <1>3, <1>7, ObjectsAssumption
    <2>4. PICK d \in Frames : d = Call("prototype", "lookup", TypeOf[c.of], TRUE)
        BY <2>3, CallIsFrame
    <2>5. d.op = "prototype" /\ Apart(f, d) /\ Wrapped(d)'
        BY <2>2, <2>4 DEF Apart, Call, Wrapped
    <2>6. Wrapped(f)'
        BY <1>3, <1>4, <1>7, <2>2 DEF Wrapped, links
    <2>7. QED
        BY <1>1, <1>2, <1>4, <1>7, <2>1, <2>2, <2>4, <2>5, <2>6, InvokeWrap
<1>8. QED
    BY <1>2, <1>5, <1>6, <1>7 DEF Lookup

(* The new handle is the class's, and the receiver of none. *)
LEMMA NewHandleFacts ==
    ASSUME WrapInv, ~strayed, Known, HandleLeft, NEW t, t # None,
           class' = [class EXCEPT ![NewHandle] = t]
    PROVE  /\ NewHandle \in Handles /\ class'[NewHandle] = t /\ ClassesOnlyAdded
           /\ receiver[NewHandle] = None
<1>1. NewHandle \in Handles /\ class[NewHandle] = None
    BY DEF HandleLeft, NewHandle, Made
<1>2. \A h \in Handles : class'[h] = class[h] \/ (class'[h] = t /\ h = NewHandle)
    <2>1. PICK k \in Handles : k = NewHandle
        BY <1>1
    <2>2. QED
        BY <2>1 DEF Known, ClassInv, TemplatesInv
<1>3. class'[NewHandle] = t
    BY <1>1 DEF Known, ClassInv, TemplatesInv
<1>4. QED
    BY <1>1, <1>2, <1>3 DEF WrapInv, ClassesOnlyAdded

(* create makes an Error, a new one. *)
LEMMA MakeErrorWrap ==
    ASSUME Known, WrapInv, NEW g \in Goroutines, Lone(g), MakeError(g)
    PROVE  WrapInv'
<1>1. stack[g] # <<>> /\ Top(g).op = "create" /\ Top(g).pc = "error"
    BY DEF MakeError, AtStep
<1>2. PICK c \in Frames : c = Top(g)
    BY <1>1, TopKnown
<1>3. /\ Typed /\ c \in FrameRecords /\ c.op = "create" /\ c.pc = "error" /\ c.of \in Objects
      /\ AnsweredBy(c, answer[g]) /\ Running(c)
    BY <1>1, <1>2, TopKnown DEF Frames, Sound
<1>4. ~strayed /\ UNCHANGED <<links, answers>>
    BY DEF Lone, MakeError, history
<1>5. CASE Return(g, Failed) /\ UNCHANGED class
    BY <1>1, <1>2, <1>3, <1>4, <1>5, ReturnWrap DEF Results
<1>6. CASE /\ HandleLeft /\ class' = [class EXCEPT ![NewHandle] = ErrorType]
           /\ Continue(g, [c EXCEPT !.pc = "receive", !.made = NewHandle]) /\ UNCHANGED answer
    <2>1. ErrorType # None
        BY NoneAssumption
    <2>2. /\ NewHandle \in Handles /\ class'[NewHandle] = ErrorType /\ ClassesOnlyAdded
          /\ receiver[NewHandle] = None
        BY <1>4, <1>6, <2>1, NewHandleFacts
    <2>3. PICK f \in Frames : f = [c EXCEPT !.pc = "receive", !.made = NewHandle]
        BY <1>3, <2>2 DEF Frames, FrameRecords, Sound, Results
    <2>4. f.op = c.op /\ f.of = c.of /\ f.pc = "receive" /\ f.made = NewHandle
        BY <1>3, <2>3 DEF FrameRecords
    <2>5. answer'[g] = None
        BY <1>3, <1>6 DEF AnsweredBy
    <2>6. Wrapped(f)'
        <3>1. receivers[AddressOf[c.of]] = None
            BY <1>3, <1>4 DEF WrapInv, Wrapped
        <3>2. QED
            BY <1>3, <1>4, <2>1, <2>2, <2>4, <3>1 DEF Wrapped, links
    <2>7. QED
        BY <1>1, <1>2, <1>4, <1>6, <2>2, <2>3, <2>4, <2>5, <2>6, ContinueWrap
<1>7. QED
    BY <1>2, <1>5, <1>6 DEF MakeError

(* create makes an instance, a new one. *)
LEMMA InstanceWrap ==
    ASSUME Known, WrapInv, NEW g \in Goroutines, Lone(g), Instance(g)
    PROVE  WrapInv'
<1>1. stack[g] # <<>> /\ Top(g).op = "create" /\ Top(g).pc = "instance"
    BY DEF Instance, AtStep
<1>2. PICK c \in Frames : c = Top(g)
    BY <1>1, TopKnown
<1>3. /\ Typed /\ c \in FrameRecords /\ c.op = "create" /\ c.pc = "instance" /\ c.of \in Objects
      /\ Running(c)
    BY <1>1, <1>2, TopKnown DEF Frames, Sound
<1>4. ~strayed /\ UNCHANGED <<links, answers>>
    BY DEF Lone, Instance, history
<1>5. PICK t \in Results : t = answer[g]
    BY <1>1, TopKnown
<1>6. t # None
    <2>1. AnsweredBy(c, t)
        BY <1>1, <1>2, <1>5, TopKnown
    <2>2. QED
        BY <1>3, <2>1, NoneAssumption DEF AnsweredBy, OfType, Finished
<1>7. HandleLeft /\ class' = [class EXCEPT ![NewHandle] = t]
    BY <1>5 DEF Instance
<1>8. /\ NewHandle \in Handles /\ class'[NewHandle] = t /\ ClassesOnlyAdded
      /\ receiver[NewHandle] = None
    BY <1>4, <1>6, <1>7, NewHandleFacts
<1>9. PICK f \in Frames : f = [c EXCEPT !.pc = "receive", !.made = NewHandle]
    BY <1>3, <1>8 DEF Frames, FrameRecords, Sound, Results
<1>10. f.op = c.op /\ f.of = c.of /\ f.pc = "receive" /\ f.made = NewHandle
    BY <1>3, <1>9 DEF FrameRecords
<1>11. Wrapped(f)'
    <2>1. receivers[AddressOf[c.of]] = None
        BY <1>3, <1>4 DEF WrapInv, Wrapped
    <2>2. QED
        BY <1>3, <1>4, <1>6, <1>8, <1>10, <2>1 DEF Wrapped, links
<1>12. answer'[g] = None
    BY <1>3 DEF Instance, Typed
<1>13. CASE Invoke(g, f, Call("new", "user", NewHandle, TRUE))
    <2>1. PICK d \in Frames : d = Call("new", "user", NewHandle, TRUE)
        BY <1>8, CallIsFrame
    <2>2. d.op = "new" /\ d.of = NewHandle
        BY <2>1 DEF Call
    <2>3. Apart(f, d) /\ Wrapped(d)'
        BY <1>6, <1>8, <1>10, <2>2 DEF Apart, Wrapped
    <2>4. QED
        BY <1>1, <1>2, <1>3, <1>4, <1>8, <1>10, <1>11, <1>13, <2>1, <2>2, <2>3, InvokeWrap
<1>14. CASE Continue(g, f)
    BY <1>1, <1>2, <1>4, <1>8, <1>10, <1>11, <1>12, <1>14, ContinueWrap
<1>15. QED
    BY <1>2, <1>9, <1>13, <1>14 DEF Instance

(* create answers the wrapper it has set. *)
LEMMA EndConstructWrap ==
    ASSUME Known, WrapInv, NEW g \in Goroutines, Lone(g), EndConstruct(g)
    PROVE  WrapInv'
<1>1. stack[g] # <<>> /\ Top(g).op = "create" /\ Top(g).pc = "user"
    BY DEF EndConstruct, AtStep
<1>2. PICK c \in Frames : c = Top(g)
    BY <1>1, TopKnown
<1>3. c.op = "create" /\ c.pc = "user" /\ c.of \in Objects /\ c.made \in Handles /\ Running(c)
    BY <1>1, <1>2, TopKnown DEF Frames, Sound
<1>4. ~strayed /\ UNCHANGED <<links, class>>
    BY DEF Lone, EndConstruct
<1>5. receivers[AddressOf[c.of]] = c.made
    BY <1>3, <1>4 DEF WrapInv, Wrapped
<1>6. PICK r \in Results : r = c.made
    BY <1>3 DEF Results
<1>7. Return(g, r) /\ answers' = answers \cup {<<c.of, r>>}
    BY <1>2, <1>4, <1>6 DEF EndConstruct, AnswerCreate
<1>8. \A x \in answers' : \/ x \in answers
                          \/ x \in Objects \X Handles /\ receivers[AddressOf[x[1]]] = x[2]
    BY <1>3, <1>5, <1>6, <1>7
<1>9. QED
    BY <1>1, <1>2, <1>3, <1>4, <1>7, <1>8, ReturnWrap

(* A class begins; no receiver changes. *)
LEMMA BeginPrototypeWrap ==
    ASSUME Known, WrapInv, NEW g \in Goroutines, Lone(g), BeginPrototype(g)
    PROVE  WrapInv'
<1>1. stack[g] # <<>> /\ Top(g).op = "prototype" /\ Top(g).pc = "lookup"
    BY DEF BeginPrototype, AtStep
<1>2. PICK c \in Frames : c = Top(g)
    BY <1>1, TopKnown
<1>3. Typed /\ c \in FrameRecords /\ c.op = "prototype" /\ c.of \in Types /\ c.bases = <<>>
    BY <1>1, <1>2, TopKnown DEF Frames, Sound, Placed
<1>4. UNCHANGED <<links, class, answers>>
    BY DEF BeginPrototype, history
<1>5. CASE Return(g, prototypes[c.of])
    <2>1. PICK r \in Results : r = prototypes[c.of]
        BY <1>3 DEF Typed
    <2>2. QED
        BY <1>1, <1>2, <1>3, <1>4, <1>5, <2>1, ReturnWrap
<1>6. CASE TemplateLeft /\ Embed(g, [c EXCEPT !.made = NewTemplate])
    <2>1. NewTemplate \in Templates
        BY <1>6 DEF TemplateLeft, NewTemplate
    <2>2. PICK b \in FrameRecords : b = [c EXCEPT !.made = NewTemplate]
        BY <1>3, <2>1 DEF FrameRecords, Results
    <2>3. b.op = "prototype" /\ b.of = c.of /\ b.shared = c.shared /\ b.bases = <<>> /\ b.of \in Types
        BY <1>3, <2>2 DEF FrameRecords
    <2>4. Len(b.bases) <= Len(Bases[b.of])
        <3>1. Bases[b.of] \in Seq(Types) /\ Len(b.bases) = 0
            BY <2>3, TypesAssumption
        <3>2. QED
            BY <3>1
    <2>5. Embed(g, b)
        BY <1>6, <2>2
    <2>6. PICK fresh \in Seq(Frames), f \in Frames : Embeds(g, b, fresh, f)
        BY <1>1, <1>2, <1>3, <2>3, <2>4, <2>5, EmbedShape
    <2>7. Replaces(g, 1, fresh) /\ fresh # <<>> /\ \A i \in DOMAIN fresh : fresh[i].op = "prototype"
        BY <2>6 DEF Embeds
    <2>8. QED
        BY <1>4, <2>7, PrototypesWrap
<1>7. QED
    BY <1>2, <1>5, <1>6 DEF BeginPrototype

(* A base is taken; no receiver changes. *)
LEMMA TakeBaseWrap ==
    ASSUME Known, WrapInv, NEW g \in Goroutines, Lone(g), TakeBase(g)
    PROVE  WrapInv'
<1>1. stack[g] # <<>> /\ Top(g).op = "prototype" /\ Top(g).pc = "base"
    BY DEF TakeBase, AtStep
<1>2. PICK c \in Frames : c = Top(g)
    BY <1>1, TopKnown
<1>3. /\ Typed /\ c \in FrameRecords /\ c.op = "prototype" /\ c.pc = "base" /\ c.of \in Types
      /\ c.bases \in Seq(Results) /\ Len(c.bases) < Len(Bases[c.of]) /\ Bases[c.of] \in Seq(Types)
    BY <1>1, <1>2, TopKnown, TypesAssumption DEF Frames, FrameRecords, Sound
<1> DEFINE p == prototypes[Bases[c.of][Len(c.bases) + 1]]
<1>4. p \in Results
    <2>1. Bases[c.of][Len(c.bases) + 1] \in Types
        BY <1>3
    <2>2. QED
        BY <1>3, <2>1 DEF Typed
<1>5. PICK s \in Seq(Results) : s = Append(c.bases, p)
    <2>1. \A q \in Seq(Results) : Append(q, p) \in Seq(Results)
        BY <1>4
    <2>2. QED
        BY <1>3, <2>1
<1>6. Len(s) <= Len(Bases[c.of])
    <2>1. Len(s) = Len(c.bases) + 1
        BY <1>3, <1>4, <1>5
    <2>2. QED
        BY <1>3, <2>1
<1>7. PICK b \in FrameRecords : b = [c EXCEPT !.bases = s]
    BY <1>3 DEF FrameRecords
<1>8. b.op = "prototype" /\ b.of = c.of /\ b.shared = c.shared /\ b.bases = s
    BY <1>3, <1>7 DEF FrameRecords
<1>9. Embed(g, b)
    BY <1>2, <1>5, <1>7 DEF TakeBase
<1>10. PICK fresh \in Seq(Frames), f \in Frames : Embeds(g, b, fresh, f)
    BY <1>1, <1>2, <1>3, <1>6, <1>8, <1>9, EmbedShape
<1>11. Replaces(g, 1, fresh) /\ fresh # <<>> /\ \A i \in DOMAIN fresh : fresh[i].op = "prototype"
    BY <1>10 DEF Embeds
<1>12. UNCHANGED <<links, class, answers>>
    BY DEF TakeBase, history
<1>13. QED
    BY <1>11, <1>12, PrototypesWrap

(* A class ends; no receiver changes. *)
LEMMA EndPrototypeWrap ==
    ASSUME Known, WrapInv, NEW g \in Goroutines, Lone(g), EndPrototype(g)
    PROVE  WrapInv'
<1>1. stack[g] # <<>> /\ Top(g).op = "prototype" /\ Top(g).pc = "end"
    BY DEF EndPrototype, AtStep
<1>2. PICK c \in Frames : c = Top(g)
    BY <1>1, TopKnown
<1>3. PICK r \in Results : r = c.made
    BY DEF Frames, FrameRecords
<1>4. Return(g, r) /\ UNCHANGED <<links, class, answers>>
    BY <1>2, <1>3 DEF EndPrototype, history
<1>5. QED
    BY <1>1, <1>2, <1>4, ReturnWrap

(* createConstructor looks its type up; no receiver changes. *)
LEMMA LookupConstructorWrap ==
    ASSUME Known, WrapInv, NEW g \in Goroutines, Lone(g), LookupConstructor(g)
    PROVE  WrapInv'
<1>1. stack[g] # <<>> /\ Top(g).op = "constructor" /\ Top(g).pc = "lookup"
    BY DEF LookupConstructor, AtStep
<1>2. PICK c \in Frames : c = Top(g)
    BY <1>1, TopKnown
<1>3. Typed /\ c \in FrameRecords /\ c.op = "constructor" /\ c.of \in Types /\ c.shared \in BOOLEAN
    BY <1>1, <1>2, TopKnown DEF Frames, FrameRecords, Sound
<1>4. UNCHANGED <<links, class, answers>> /\ ClassesOnlyAdded
    BY DEF LookupConstructor, history, ClassesOnlyAdded
<1>5. CASE Return(g, constructors[c.of])
    <2>1. PICK r \in Results : r = constructors[c.of]
        BY <1>3 DEF Typed
    <2>2. QED
        BY <1>1, <1>2, <1>3, <1>4, <1>5, <2>1, ReturnWrap
<1>6. CASE Invoke(g, [c EXCEPT !.pc = "function"], Call("prototype", "lookup", c.of, c.shared))
    <2>1. PICK f \in Frames : f = [c EXCEPT !.pc = "function"]
        BY <1>3 DEF Frames, FrameRecords, Sound
    <2>2. f.op = c.op /\ f.of = c.of /\ f.op = "constructor"
        BY <1>3, <2>1 DEF FrameRecords
    <2>3. PICK d \in Frames : d = Call("prototype", "lookup", c.of, c.shared)
        BY <1>3, CallIsFrame
    <2>4. d.op = "prototype" /\ Apart(f, d) /\ Wrapped(d)' /\ Wrapped(f)'
        BY <2>2, <2>3 DEF Apart, Wrapped, Call
    <2>5. QED
        BY <1>1, <1>2, <1>4, <1>6, <2>1, <2>2, <2>3, <2>4, InvokeWrap
<1>7. QED
    BY <1>2, <1>5, <1>6 DEF LookupConstructor

(* createConstructor ends; no receiver changes. *)
LEMMA EndConstructorWrap ==
    ASSUME Known, WrapInv, NEW g \in Goroutines, Lone(g), EndConstructor(g)
    PROVE  WrapInv'
<1>1. stack[g] # <<>> /\ Top(g).op = "constructor"
    BY DEF EndConstructor, AtStep
<1>2. PICK c \in Frames : c = Top(g)
    BY <1>1, TopKnown
<1>3. PICK r \in Results : r = answer[g]
    BY <1>1, TopKnown
<1>4. Return(g, r) /\ UNCHANGED <<links, class, answers>> /\ c.op = "constructor"
    BY <1>1, <1>2, <1>3 DEF EndConstructor, history
<1>5. QED
    BY <1>1, <1>2, <1>4, ReturnWrap

(* JavaScript makes an instance, a new one. *)
LEMMA BeginNewWrap ==
    ASSUME Known, WrapInv, NEW g \in Goroutines, NEW t \in Templates, BeginNew(g, t), ~strayed'
    PROVE  WrapInv'
<1>1. ~strayed /\ UNCHANGED <<links, answers>>
    BY DEF BeginNew, Begin
<1>2. t # None /\ HandleLeft /\ class' = [class EXCEPT ![NewHandle] = t]
    BY NoneAssumption DEF BeginNew
<1>3. NewHandle \in Handles /\ class'[NewHandle] = t /\ ClassesOnlyAdded
    BY <1>1, <1>2, NewHandleFacts
<1>4. CASE Begin(g, Call("new", "user", NewHandle, TRUE))
    <2>1. PICK d \in Frames : d = Call("new", "user", NewHandle, TRUE)
        BY <1>3, CallIsFrame
    <2>2. d.op = "new" /\ d.of = NewHandle /\ d.pc = "user"
        BY <2>1 DEF Call
    <2>3. Wrapped(d)'
        BY <1>2, <1>3, <2>2 DEF Wrapped
    <2>4. QED
        BY <1>3, <1>4, <2>1, <2>2, <2>3, BeginWrap
<1>5. CASE MayCall(g) /\ strayed' = (strayed \/ Stray(g, None)) /\ UNCHANGED stack
    <2>1. Lone(g) /\ (stack[g] = <<>> \/ Top(g).pc = "user")
        BY <1>5 DEF Lone, Stray, MayCall
    <2>2. \A x \in answers' : x \in Objects \X Handles /\ receivers'[AddressOf[x[1]]] = x[2]
        BY <1>1 DEF WrapInv, links
    <2>3. \A h \in Handles : class'[h] = None => receiver'[h] = None
        BY <1>1, <1>3 DEF WrapInv, links, ClassesOnlyAdded
    <2>4. ASSUME NEW f \in Frames, Running(f) PROVE Wrapped(f)'
        BY <1>1, <1>3, <2>4, WrappedStays DEF WrapInv, Known, ShapeInv, Running
    <2>5. QED
        BY <1>5, <2>1, <2>2, <2>3, <2>4, SameStackWrap
<1>6. QED
    BY <1>4, <1>5 DEF BeginNew

(* Every step keeps the wrappers what they are. *)
LEMMA WrapNext == Known /\ AloneInv /\ WrapInv /\ [Next]_vars => WrapInv'
<1> SUFFICES ASSUME Known, AloneInv, WrapInv, [Next]_vars, ~strayed' PROVE WrapInv'
    BY DEF WrapInv
<1>1. CASE UNCHANGED rest
    <2>1. /\ ~strayed /\ UNCHANGED <<stack, answer, answers, class>>
          /\ UNCHANGED <<receivers, receiver>>
        BY <1>1 DEF rest, history, links
    <2>2. BelowInv'
        BY <2>1 DEF WrapInv, BelowInv, Apart
    <2>3. \A f \in Frames : Running(f)' => Wrapped(f)'
        BY <2>1 DEF WrapInv, Running, Wrapped
    <2>4. \A g \in Goroutines, f \in Frames, a \in Results :
              stack'[g] # <<>> /\ f = Top(g)' /\ a = answer'[g] => Fits(f, a)'
        BY <2>1 DEF WrapInv, Fits, Free, Running, Top
    <2>5. QED
        BY <2>1, <2>2, <2>3, <2>4 DEF WrapInv
<1>2. ASSUME NEW g \in Goroutines, Step(g) PROVE WrapInv'
    <2>1. Lone(g)
        BY <1>2, StepMoves DEF Lone, AloneInv
    <2>2. QED
        BY <1>2, <2>1, LookupWrap, MakeErrorWrap, InstanceWrap, ReceiveWrap, EndConstructWrap,
           BeginPrototypeWrap, TakeBaseWrap, EndPrototypeWrap, LookupConstructorWrap,
           EndConstructorWrap, ConstructorReturnsWrap, EndUseWrap DEF Step
<1>3. ASSUME NEW g \in Goroutines, NEW o \in Objects, BeginCreate(g, o) PROVE WrapInv'
    <2>1. PICK d \in Frames : d = Call("create", "lookup", o, TRUE)
        BY CallIsFrame
    <2>2. d.op = "create" /\ d.pc = "lookup"
        BY <2>1 DEF Call
    <2>3. Begin(g, d) /\ ClassesOnlyAdded /\ Wrapped(d)'
        BY <1>3, <2>1, <2>2 DEF BeginCreate, ClassesOnlyAdded, Wrapped
    <2>4. QED
        BY <2>2, <2>3, BeginWrap
<1>4. ASSUME NEW g \in Goroutines, NEW type \in Constructed, NEW shared \in BOOLEAN,
             BeginConstructor(g, type, shared)
      PROVE  WrapInv'
    <2>1. PICK d \in Frames : d = Call("constructor", "lookup", type, shared)
        BY CallIsFrame, TypesAssumption
    <2>2. d.op = "constructor" /\ d.pc = "lookup"
        BY <2>1 DEF Call
    <2>3. Begin(g, d) /\ ClassesOnlyAdded /\ Wrapped(d)'
        BY <1>4, <2>1, <2>2 DEF BeginConstructor, ClassesOnlyAdded, Wrapped
    <2>4. QED
        BY <2>2, <2>3, BeginWrap
<1>5. ASSUME NEW g \in Goroutines, NEW t \in Templates, BeginNew(g, t) PROVE WrapInv'
    BY <1>5, BeginNewWrap
<1>6. ASSUME NEW g \in Goroutines, NEW h \in Handles, NEW n \in Names, UseMember(g, h, n)
      PROVE  WrapInv'
    BY <1>6, UseMemberWrap
<1>7. QED
    BY <1>1, <1>2, <1>3, <1>4, <1>5, <1>6, NextMoves DEF Start

(* What is known of wrappers always holds. *)
LEMMA WrapKnownAlways == Spec => [](ClassesKnown /\ WrapInv)
<1>1. Init => WrapInv
    <2>1. SUFFICES ASSUME Init PROVE WrapInv
        OBVIOUS
    <2>2. /\ stack = [g \in Goroutines |-> <<>>] /\ DOMAIN <<>> = {} /\ answers = {}
          /\ receiver = [h \in Handles |-> None]
        BY <2>1 DEF Init
    <2>3. QED
        BY <2>2 DEF WrapInv, BelowInv, Running
<1>2. ClassesKnown /\ WrapInv /\ [Next]_vars => WrapInv'
    BY WrapNext DEF ClassesKnown
<1>3. QED
    BY <1>1, <1>2, ClassesKnownAlways, PTL DEF Spec

(***************************************************************************)
(* create answers one wrapper per Go object, if nothing strayed.           *)
(***************************************************************************)
THEOREM ObjectsHaveOneWrapper == Spec => []OneWrapperPerObject
<1>1. WrapInv => OneWrapperPerObject
    BY DEF WrapInv, OneWrapperPerObject
<1>2. QED
    BY <1>1, WrapKnownAlways, PTL

-----------------------------------------------------------------------------
(* Classes are complete. *)

(* The embedding of structs below the type is well-founded. *)
Grounded(type) ==
    \A S \in SUBSET Types : type \in S =>
        \E x \in S : \A k \in DOMAIN Bases[x] : Bases[x][k] \notin S

(* A class has the type's own members, the first base, and the others' own members. *)
Complete(t) ==
    LET type == templates[t].type IN
    /\ Grounded(type)
    /\ \A n \in Own[type] : templates[t].members[n] # None
    /\ IF Bases[type] = <<>> THEN templates[t].parent = None
       ELSE OfType(templates[t].parent, Bases[type][1])
    /\ \A k \in 2..Len(Bases[type]) : \A n \in Own[Bases[type][k]] : templates[t].members[n] # None

CompleteInv == \A t \in Templates : Finished(t) => Complete(t)

(* A type is well-founded when its bases are. *)
LEMMA GroundedUp ==
    ASSUME NEW type \in Types, \A k \in DOMAIN Bases[type] : Grounded(Bases[type][k])
    PROVE  Grounded(type)
<1> SUFFICES ASSUME NEW S \in SUBSET Types, type \in S
             PROVE  \E x \in S : \A k \in DOMAIN Bases[x] : Bases[x][k] \notin S
    BY DEF Grounded
<1>1. CASE \A k \in DOMAIN Bases[type] : Bases[type][k] \notin S
    BY <1>1
<1>2. ASSUME NEW k \in DOMAIN Bases[type], Bases[type][k] \in S
      PROVE  \E x \in S : \A i \in DOMAIN Bases[x] : Bases[x][i] \notin S
    BY <1>2 DEF Grounded
<1>3. QED
    BY <1>1, <1>2

(* A complete class stays complete. *)
LEMMA CompleteStays ==
    ASSUME Grows, NEW t \in Templates, Finished(t), Complete(t)
    PROVE  Complete(t)'
<1> DEFINE type == templates[t].type
<1>1. /\ templates'[t].type = type /\ templates'[t].members = templates[t].members
      /\ templates'[t].parent = templates[t].parent
    BY DEF Grows, Finished
<1>2. CASE Bases[type] = <<>>
    BY <1>1, <1>2 DEF Complete, Grounded
<1>3. CASE Bases[type] # <<>>
    <2>1. OfType(templates[t].parent, Bases[type][1])
        BY <1>3 DEF Complete
    <2> DEFINE p == templates[t].parent
               b == Bases[type][1]
    <2>2. OfType(p, b)'
        BY <2>1, OfTypeStays DEF Grows, OfType, Finished
    <2>3. QED
        BY <1>1, <1>3, <2>2 DEF Complete, Grounded, OfType
<1>4. QED
    BY <1>2, <1>3

(* A member that a later base has is copied, and the others stay. *)
LEMMA CopiesComplete ==
    ASSUME NEW members, NEW bases \in Seq(Results), NEW n \in Names
    PROVE  /\ members[n] # None => WithCopies(members, bases)[n] # None
           /\ \A k \in 2..Len(bases) :
                 templates[bases[k]].members[n] # None => WithCopies(members, bases)[n] # None
<1> DEFINE copied == {i \in 2..Len(bases) : templates[bases[i]].members[n] # None}
           last == CHOOSE i \in copied : \A j \in copied : j <= i
<1>1. WithCopies(members, bases)[n]
          = IF copied = {} THEN members[n] ELSE templates[bases[last]].members[n]
    BY DEF WithCopies
<1>2. Len(bases) \in Nat /\ copied \in SUBSET (2 .. Len(bases))
    OBVIOUS
<1>3. copied # {} => last \in copied
    <2> HIDE DEF copied
    <2>1. copied # {} => \E i \in copied : \A j \in copied : j <= i
        BY <1>2, GreatestExists
    <2>2. QED
        BY <2>1
<1> HIDE DEF last
<1>4. copied # {} => templates[bases[last]].members[n] # None
    BY <1>3
<1>5. QED
    BY <1>1, <1>4

(* A class ends complete. *)
LEMMA EndPrototypeComplete ==
    ASSUME Known, CompleteInv, NEW g \in Goroutines, EndPrototype(g)
    PROVE  CompleteInv'
<1>1. stack[g] # <<>> /\ Top(g).op = "prototype" /\ Top(g).pc = "end"
    BY DEF EndPrototype, AtStep
<1>2. PICK c \in Frames : c = Top(g)
    BY <1>1, TopKnown
<1>3. /\ Typed /\ c \in FrameRecords /\ c.op = "prototype" /\ c.pc = "end" /\ Making(c)
      /\ c.of \in Types /\ c.bases \in Seq(Results) /\ Bases[c.of] \in Seq(Types)
    BY <1>1, <1>2, TopKnown, TypesAssumption DEF Frames, FrameRecords, Sound, Making
<1>4. Begun(c)
    <2>1. Running(c)
        BY <1>1, <1>2, TopKnown
    <2>2. QED
        BY <1>3, <2>1 DEF Known, ClassInv, MakingInv
<1>5. PICK t \in Templates : t = c.made
    BY <1>4 DEF Begun
<1>6. Known' /\ Grows
    BY EndPrototypeKnown
<1>7. Return(g, t)
    BY <1>2, <1>5 DEF EndPrototype
<1>8. Replaces(g, 1, <<>>)
    BY <1>1, <1>3, <1>7, ReturnReplaces
<1> DEFINE members == WithCopies(templates[t].members, c.bases)
           parent == IF c.bases = <<>> THEN None ELSE c.bases[1]
<1>9. /\ templates[t] \in TemplateRecords /\ templates \in [Templates -> TemplateRecords \cup {None}]
      /\ templates[t].type = c.of /\ templates[t].members = Members(c.of)
    BY <1>4, <1>5 DEF Known, ClassInv, TemplatesInv, Begun
<1>10. /\ templates'[t].members = members /\ templates'[t].parent = parent
       /\ templates'[t].type = c.of
       /\ \A s \in Templates \ {t} : templates'[s] = templates[s]
    <2>1. templates' = [templates EXCEPT ![t].parent = parent, ![t].members = members]
        BY <1>2, <1>5, <1>9 DEF EndPrototype
    <2> HIDE DEF parent, members
    <2>2. templates' = [templates EXCEPT ![t] = [@ EXCEPT !.parent = parent, !.members = members]]
        BY <1>9, <2>1
    <2> DEFINE r == [templates[t] EXCEPT !.parent = parent, !.members = members]
    <2>3. r.members = members /\ r.parent = parent /\ r.type = c.of
        BY <1>9 DEF TemplateRecords
    <2> HIDE DEF r
    <2>4. templates' = [templates EXCEPT ![t] = r]
        BY <2>2 DEF r
    <2>5. QED
        BY <1>9, <2>3, <2>4
<1>11. ASSUME NEW s \in Templates, s # t, Finished(s)' PROVE Complete(s)'
    <2>1. templates[s] # None
        BY <1>10, <1>11 DEF Finished
    <2>2. ~InProgress(s)
        <3>1. SUFFICES ASSUME InProgress(s) PROVE InProgress(s)'
            BY <1>11 DEF Finished
        <3>2. <<>> \in Seq(Frames) /\ DOMAIN <<>> = {}
            OBVIOUS
        <3>3. QED
            BY <1>2, <1>5, <1>8, <1>11, <3>1, <3>2, ProgressStep
    <2>3. Finished(s) /\ Complete(s)
        BY <2>1, <2>2 DEF Finished, CompleteInv
    <2>4. QED
        BY <1>6, <2>3, CompleteStays
<1>12. /\ Len(c.bases) = Len(Bases[c.of])
       /\ \A k \in DOMAIN c.bases : OfType(c.bases[k], Bases[c.of][k])
       /\ DOMAIN c.bases = DOMAIN Bases[c.of] /\ DOMAIN Bases[c.of] = 1 .. Len(Bases[c.of])
       /\ Len(c.bases) \in Nat
    BY <1>3, <1>4 DEF Begun
<1>13. ASSUME NEW k \in DOMAIN c.bases
       PROVE  c.bases[k] \in Templates /\ Complete(c.bases[k]) /\ templates[c.bases[k]].type = Bases[c.of][k]
    BY <1>12 DEF OfType, Finished, CompleteInv
<1>14. Grounded(c.of)
    <2>1. \A k \in DOMAIN Bases[c.of] : Grounded(Bases[c.of][k])
        BY <1>12, <1>13 DEF Complete
    <2>2. QED
        BY <1>3, <2>1, GroundedUp
<1>15. \A n \in Own[c.of] : n \in Names /\ members[n] # None
    <2>1. ASSUME NEW n \in Own[c.of] PROVE n \in Names /\ templates[t].members[n] # None
        BY <1>3, <1>9, TypesAssumption, NoneAssumption DEF Members
    <2>2. QED
        BY <1>3, <2>1, CopiesComplete
<1>16. ASSUME NEW k \in 2..Len(Bases[c.of]), NEW n \in Own[Bases[c.of][k]] PROVE members[n] # None
    <2>1. k \in DOMAIN c.bases /\ k \in 2..Len(c.bases)
        BY <1>12
    <2>2. Bases[c.of][k] \in Types
        BY <1>3, <1>12, <2>1
    <2>3. n \in Names
        BY <2>2, TypesAssumption
    <2>4. templates[c.bases[k]].members[n] # None
        BY <1>13, <2>1 DEF Complete
    <2>5. QED
        BY <1>3, <2>1, <2>3, <2>4, CopiesComplete
<1>17. IF Bases[c.of] = <<>> THEN parent = None ELSE OfType(parent, Bases[c.of][1])
    BY <1>3, <1>12
<1> HIDE DEF members, parent
<1>18. Complete(t)'
    <2>1. Bases[c.of] # <<>> => OfType(parent, Bases[c.of][1])'
        BY <1>6, <1>17, OfTypeStays
    <2>2. Bases[c.of] # <<>> => OfType(templates[t].parent, Bases[c.of][1])'
        BY <1>10, <2>1 DEF OfType, Finished, InProgress, Making
    <2>3. QED
        BY <1>10, <1>14, <1>15, <1>16, <1>17, <2>2 DEF Complete, Grounded, OfType
<1>19. QED
    BY <1>11, <1>18 DEF CompleteInv

(* Classes are always complete. *)
LEMMA CompleteAlways == Spec => [](Known /\ CompleteInv)
<1>1. Init => CompleteInv
    <2>1. Init => templates = [t \in Templates |-> None]
        BY DEF Init
    <2>2. QED
        BY <2>1 DEF CompleteInv, Finished
<1>2. Known /\ CompleteInv /\ [Next]_vars => CompleteInv'
    <2>1. SUFFICES ASSUME Known, CompleteInv, [Next]_vars PROVE CompleteInv'
        OBVIOUS
    <2>2. Grows /\ (NothingEnds \/ \E g \in Goroutines : EndPrototype(g))
        BY <2>1, NextKnown
    <2>3. CASE NothingEnds
        <3>1. ASSUME NEW t \in Templates, Finished(t)' PROVE Complete(t)'
            BY <2>1, <2>2, <2>3, <3>1, CompleteStays DEF NothingEnds, CompleteInv
        <3>2. QED
            BY <3>1 DEF CompleteInv
    <2>4. QED
        BY <2>1, <2>2, <2>3, EndPrototypeComplete
<1>3. QED
    BY <1>1, <1>2, KnownAlways, PTL DEF Spec

-----------------------------------------------------------------------------
(* What Promoted and Found compute. *)

(* F gives a node what it has itself and what F gives its predecessors. *)
Inherits(F, X, own, up) == F = [x \in X |-> own[x] \cup UNION {F[y] : y \in up[x]}]

(* Along any graph, whether it has cycles or not, there is such an F: the greatest one. *)
LEMMA Inheritance ==
    ASSUME NEW X, NEW V, NEW own \in [X -> SUBSET V], NEW up \in [X -> SUBSET X]
    PROVE  \E F \in [X -> SUBSET V] : Inherits(F, X, own, up)
<1> DEFINE Apply(F) == [x \in X |-> own[x] \cup UNION {F[y] : y \in up[x]}]
           Below(F) == F \in [X -> SUBSET V] /\ \A x \in X : F[x] \subseteq Apply(F)[x]
           G == [x \in X |-> {v \in V : \E F \in [X -> SUBSET V] : Below(F) /\ v \in F[x]}]
<1>1. G \in [X -> SUBSET V]
    OBVIOUS
<1>2. ASSUME NEW F, Below(F), NEW x \in X PROVE F[x] \subseteq G[x]
    BY <1>2
<1>3. ASSUME NEW x \in X, NEW v \in G[x] PROVE v \in Apply(G)[x]
    <2>1. PICK F \in [X -> SUBSET V] : Below(F) /\ v \in F[x]
        BY <1>3
    <2>2. v \in own[x] \/ \E y \in up[x] : v \in F[y]
        BY <2>1
    <2>3. v \in own[x] \/ \E y \in up[x] : v \in G[y]
        BY <1>2, <2>1, <2>2
    <2> HIDE DEF G
    <2>4. QED
        BY <2>3
<1> HIDE DEF G
<1>4. Apply(G) \in [X -> SUBSET V]
    BY <1>1
<1>5. ASSUME NEW x \in X, NEW v \in Apply(G)[x] PROVE v \in Apply(Apply(G))[x]
    <2>1. v \in own[x] \/ \E y \in up[x] : v \in G[y]
        BY <1>5
    <2>2. v \in own[x] \/ \E y \in up[x] : v \in Apply(G)[y]
        BY <1>3, <2>1
    <2>3. QED
        BY <2>2
<1>6. \A x \in X : Apply(G)[x] \subseteq G[x]
    <2>1. Below(Apply(G))
        BY <1>4, <1>5
    <2>2. QED
        BY <1>2, <2>1
<1>7. G = Apply(G)
    <2>1. \A x \in X : G[x] = Apply(G)[x]
        BY <1>3, <1>6
    <2>2. QED
        BY <1>1, <1>4, <2>1
<1>8. QED
    BY <1>1, <1>7 DEF Inherits

(* What a type has by embedding is its own and what its bases have. *)
LEMMA PromotedUnfolds ==
    ASSUME NEW type \in Types
    PROVE  Promoted[type] = Own[type] \cup UNION {Promoted[Bases[type][i]] : i \in DOMAIN Bases[type]}
<1> DEFINE Apply(F) == [x \in Types |-> Own[x] \cup UNION {F[Bases[x][i]] : i \in DOMAIN Bases[x]}]
           up == [x \in Types |-> {Bases[x][i] : i \in DOMAIN Bases[x]}]
<1>1. up \in [Types -> SUBSET Types]
    BY TypesAssumption
<1>2. \E F \in [Types -> SUBSET Names] : Inherits(F, Types, Own, up)
    <2> HIDE DEF up
    <2>1. QED
        BY <1>1, TypesAssumption, Inheritance
<1>3. \E F : F = Apply(F)
    <2>1. PICK F \in [Types -> SUBSET Names] : Inherits(F, Types, Own, up)
        BY <1>2
    <2> DEFINE h == Apply(F)
    <2>2. \A x \in Types : F[x] = h[x]
        <3>1. \A x \in Types : F[x] = Own[x] \cup UNION {F[y] : y \in up[x]}
            <4> HIDE DEF up
            <4>1. QED
                BY <2>1 DEF Inherits
        <3>2. \A x \in Types :
                  UNION {F[y] : y \in up[x]} = UNION {F[Bases[x][i]] : i \in DOMAIN Bases[x]}
            OBVIOUS
        <3>3. QED
            BY <3>1, <3>2
    <2>3. h = [x \in Types |-> h[x]] /\ F = [x \in Types |-> F[x]]
        OBVIOUS
    <2> HIDE DEF h
    <2>4. F = h
        BY <2>2, <2>3
    <2>5. QED
        BY <2>4 DEF h
<1>4. Promoted = CHOOSE F : F = Apply(F)
    BY DEF Promoted
<1>5. Promoted = Apply(Promoted)
    <2> HIDE DEF Apply
    <2>1. QED
        BY <1>3, <1>4
<1>6. QED
    BY <1>5

(* A member is found in the class or else where it is found in the base class. *)
LEMMA FoundUnfolds ==
    ASSUME \A t \in Templates : templates[t] # None /\ templates[t].parent # None =>
               templates[t].parent \in Templates /\ templates[templates[t].parent] # None,
           NEW n,
           NEW t \in Templates, templates[t] # None
    PROVE  Found(n)[t] = IF templates[t].members[n] # None THEN templates[t].members[n]
                         ELSE IF templates[t].parent = None THEN None
                         ELSE Found(n)[templates[t].parent]
<1> DEFINE D == {s \in Templates : templates[s] # None}
           Declarers == {templates[s].members[n] : s \in D}
           Apply(f) == [s \in D |->
               IF templates[s].members[n] # None THEN templates[s].members[n]
               ELSE IF templates[s].parent = None THEN None ELSE f[templates[s].parent]]
           own == [s \in D |-> {templates[s].members[n]} \ {None}]
           up == [s \in D |-> IF templates[s].members[n] = None
                              THEN {templates[s].parent} \ {None} ELSE {}]
<1>1. own \in [D -> SUBSET Declarers]
    OBVIOUS
<1>2. up \in [D -> SUBSET D]
    OBVIOUS
<1>3. PICK F \in [D -> SUBSET Declarers] : Inherits(F, D, own, up)
    <2> HIDE DEF D, Declarers, own, up
    <2>1. QED
        BY <1>1, <1>2, Inheritance
<1> DEFINE Only(S) == IF S = {} THEN None ELSE CHOOSE v \in S : TRUE
           f == [s \in D |-> Only(F[s])]
<1>4. ASSUME NEW s \in D PROVE f[s] = Apply(f)[s]
    <2> DEFINE m == templates[s].members[n]
               p == templates[s].parent
    <2>1. F[s] = own[s] \cup UNION {F[y] : y \in up[s]}
        <3> HIDE DEF D, own, up
        <3>1. QED
            BY <1>3 DEF Inherits
    <2>2. CASE m # None
        <3>1. own[s] = {m} /\ up[s] = {}
            BY <2>2
        <3>2. F[s] = {m}
            <4> HIDE DEF D, own, up, m
            <4>1. QED
                BY <2>1, <3>1
        <3>3. (CHOOSE v \in {m} : TRUE) = m
            OBVIOUS
        <3>4. f[s] = m
            BY <3>2, <3>3
        <3>5. QED
            BY <2>2, <3>4
    <2>3. CASE m = None /\ p = None
        <3>1. own[s] = {} /\ up[s] = {}
            BY <2>3
        <3>2. F[s] = {}
            <4> HIDE DEF D, own, up, m
            <4>1. QED
                BY <2>1, <3>1
        <3>3. QED
            BY <2>3, <3>2
    <2>4. CASE m = None /\ p # None
        <3>1. own[s] = {} /\ up[s] = {p} /\ p \in D
            BY <2>4
        <3>2. F[s] = F[p]
            <4> HIDE DEF D, own, up, m, p
            <4>1. QED
                BY <2>1, <3>1
        <3>3. f[s] = f[p]
            <4> HIDE DEF D, Only
            <4>1. QED
                BY <3>1, <3>2
        <3>4. QED
            BY <2>4, <3>3
    <2>5. QED
        BY <2>2, <2>3, <2>4
<1>5. f = Apply(f)
    <2> DEFINE h == Apply(f)
    <2>1. \A s \in D : f[s] = h[s]
        BY <1>4
    <2>2. h = [s \in D |-> h[s]] /\ f = [s \in D |-> f[s]]
        OBVIOUS
    <2> HIDE DEF h, f, D
    <2>3. f = h
        BY <2>1, <2>2
    <2>4. QED
        BY <2>3 DEF h
<1>6. Found(n) = CHOOSE x : x = Apply(x)
    BY DEF Found
<1>7. Found(n) = Apply(Found(n))
    <2> HIDE DEF Apply, f
    <2>1. QED
        BY <1>5, <1>6
<1>8. t \in D
    OBVIOUS
<1>9. QED
    BY <1>7, <1>8

(* The base of a class is a class. *)
LEMMA ParentsKnown ==
    ASSUME Known, CompleteInv, NEW t \in Templates, templates[t] # None, templates[t].parent # None
    PROVE  templates[t].parent \in Templates /\ templates[templates[t].parent] # None
<1>1. CASE Finished(t)
    <2>1. Complete(t)
        BY <1>1 DEF CompleteInv
    <2>2. OfType(templates[t].parent, Bases[templates[t].type][1])
        BY <2>1 DEF Complete
    <2>3. QED
        BY <2>2 DEF OfType, Finished
<1>2. CASE InProgress(t)
    <2> PICK g \in Goroutines : \E i \in DOMAIN stack[g] : Making(stack[g][i]) /\ stack[g][i].made = t
        BY <1>2 DEF InProgress
    <2>1. PICK i \in DOMAIN stack[g] : Making(stack[g][i]) /\ stack[g][i].made = t
        OBVIOUS
    <2>2. stack[g][i] \in Frames
        BY DEF Known, IInv, Typed
    <2>3. PICK f \in Frames : f = stack[g][i]
        BY <2>2
    <2>4. Begun(f)
        BY <2>1, <2>3 DEF Known, ClassInv, MakingInv, Running
    <2>5. QED
        BY <2>1, <2>3, <2>4 DEF Begun
<1>3. QED
    BY <1>1, <1>2 DEF Finished

(***************************************************************************)
(* An instance has every member its Go type has by embedding.  Were there  *)
(* a type with a finished class that misses one, there would be one none   *)
(* of whose bases misses any; but what the first base has is found there,  *)
(* and what the others declare was copied.                                 *)
(***************************************************************************)
THEOREM PromotedMembersAreFound == Spec => []PromotedMembersFound
<1>1. ASSUME Known, CompleteInv PROVE PromotedMembersFound
    <2> DEFINE Misses(s, n) == Finished(s) /\ n \in Promoted[templates[s].type] /\ Found(n)[s] = None
               Lacking == {x \in Types : \E s \in Templates : \E n : templates[s].type = x /\ Misses(s, n)}
    <2> SUFFICES ASSUME NEW h \in Handles, class[h] \in Templates,
                        \A sub \in Types : \A i \in 2..Len(Bases[sub]) : Bases[Bases[sub][i]] = <<>>,
                        NEW name, Misses(class[h], name)
                 PROVE  FALSE
        BY <1>1 DEF PromotedMembersFound, Known, ClassInv, TemplatesInv
    <2>1. \A s \in Templates : Finished(s) => templates[s].type \in Types /\ Complete(s)
        BY <1>1 DEF Known, ClassInv, TemplatesInv, TemplateRecords, Finished, CompleteInv
    <2>2. PICK x \in Lacking : \A k \in DOMAIN Bases[x] : Bases[x][k] \notin Lacking
        <3>1. templates[class[h]].type \in Lacking /\ Grounded(templates[class[h]].type)
            BY <2>1 DEF Complete
        <3> HIDE DEF Lacking
        <3>2. Lacking \in SUBSET Types
            BY DEF Lacking
        <3>3. QED
            BY <3>1, <3>2 DEF Grounded
    <2>3. PICK s \in Templates : \E n : templates[s].type = x /\ Misses(s, n)
        OBVIOUS
    <2>4. PICK n : templates[s].type = x /\ Misses(s, n)
        BY <2>3
    <2>5. /\ x \in Types /\ Bases[x] \in Seq(Types)
          /\ \A k \in DOMAIN Bases[x] : Bases[x][k] \in Types
        <3>1. x \in Types /\ Bases[x] \in Seq(Types)
            BY TypesAssumption
        <3>2. QED
            BY <3>1
    <2>6. Found(n)[s] = IF templates[s].members[n] # None THEN templates[s].members[n]
                        ELSE IF templates[s].parent = None THEN None
                        ELSE Found(n)[templates[s].parent]
        BY <1>1, <2>4, ParentsKnown, FoundUnfolds DEF Finished
    <2>7. templates[s].members[n] = None
        BY <2>4, <2>6
    <2>8. PICK i \in DOMAIN Bases[x] : n \in Promoted[Bases[x][i]]
        <3>1. n \notin Own[x]
            BY <2>1, <2>4, <2>7 DEF Complete
        <3>2. n \in Own[x] \cup UNION {Promoted[Bases[x][k]] : k \in DOMAIN Bases[x]}
            BY <2>4, <2>5, PromotedUnfolds
        <3> HIDE DEF Lacking, Misses
        <3>3. QED
            BY <3>1, <3>2
    <2> DEFINE p == templates[s].parent
               b == Bases[x][i]
    <2>9. CASE i = 1
        <3>1. OfType(p, b)
            BY <2>1, <2>4, <2>5, <2>9 DEF Complete
        <3>2. Found(n)[s] = Found(n)[p]
            BY <2>6, <2>7, <3>1, NoneAssumption DEF OfType, Finished
        <3>3. Misses(p, n) /\ p \in Templates /\ templates[p].type = b
            BY <2>4, <2>8, <3>1, <3>2 DEF OfType, Finished
        <3> HIDE DEF Misses, p, b
        <3>4. b \in Lacking
            BY <2>5, <3>3 DEF b
        <3>5. QED
            BY <2>2, <3>4 DEF b
    <2>10. CASE i # 1
        <3>1. i \in 2..Len(Bases[x])
            BY <2>5, <2>10
        <3>2. Bases[b] = <<>> /\ b \in Types
            BY <2>5, <3>1
        <3>3. n \in Own[b]
            BY <2>8, <3>2, PromotedUnfolds
        <3>4. QED
            BY <2>1, <2>4, <2>7, <3>1, <3>3 DEF Complete
    <2>11. QED
        BY <2>9, <2>10
<1>2. QED
    BY <1>1, CompleteAlways, PTL

-----------------------------------------------------------------------------
(* Types *)

(* The history of what create answered has its type, too. *)
Remembered == answers \subseteq Objects \X Handles /\ strayed \in BOOLEAN

(* create answers handles for objects. *)
LEMMA AnswerRemembered ==
    ASSUME Remembered, NEW g \in Goroutines, NEW o \in Objects, NEW h \in Handles, AnswerCreate(g, o, h)
    PROVE  answers' \subseteq Objects \X Handles
BY DEF Remembered, AnswerCreate

(* Every step keeps the type of the history. *)
LEMMA RememberedStep ==
    ASSUME Known, Remembered, [Next]_vars
    PROVE  Remembered'
<1>1. ASSUME NEW g \in Goroutines, stack[g] # <<>>, Top(g).op = "create"
      PROVE  /\ Top(g).of \in Objects
             /\ Top(g).pc \in {"receive", "user"} => Top(g).made \in Handles
             /\ receivers[AddressOf[Top(g).of]] \in Handles \cup {None}
    <2>1. Top(g).of \in Objects /\ (Top(g).pc \in {"receive", "user"} => Top(g).made \in Handles)
        BY <1>1, TopKnown DEF Frames, Sound
    <2>2. QED
        BY <2>1, ObjectsAssumption DEF Known, IInv, Typed
<1>2. ASSUME NEW g \in Goroutines, Lookup(g) \/ Receive(g) \/ EndConstruct(g)
      PROVE  answers' \subseteq Objects \X Handles /\ strayed' = strayed
    <2>1. stack[g] # <<>> /\ Top(g).op = "create"
        BY <1>2 DEF Lookup, Receive, EndConstruct, AtStep
    <2>2. CASE Lookup(g)
        BY <1>1, <2>1, <2>2, AnswerRemembered DEF Lookup, Remembered
    <2>3. CASE Receive(g)
        <3>1. Top(g).made \in Handles /\ Instantiated(g) \in Handles
            BY <1>1, <2>1, <2>3 DEF Receive, AtStep, Instantiated
        <3>2. [Top(g) EXCEPT !.made = Instantiated(g)].made = Instantiated(g)
              /\ [Top(g) EXCEPT !.made = Instantiated(g)].of = Top(g).of
            BY <2>1, TopKnown DEF FrameRecords
        <3>3. QED
            BY <1>1, <2>1, <2>3, <3>1, <3>2, AnswerRemembered DEF Receive, Remembered
    <2>4. CASE EndConstruct(g)
        BY <1>1, <2>1, <2>4, AnswerRemembered DEF EndConstruct, AtStep
    <2>5. QED
        BY <1>2, <2>2, <2>3, <2>4
<1>3. ASSUME NEW g \in Goroutines, Step(g), ~Lookup(g), ~Receive(g), ~EndConstruct(g)
      PROVE  Remembered'
    BY <1>3 DEF Step, MakeError, Instance, BeginPrototype, TakeBase, EndPrototype,
                LookupConstructor, EndConstructor, ConstructorReturns, EndUse, history, Remembered
<1>4. ASSUME NEW g \in Goroutines,
             \/ \E c : Begin(g, c)
             \/ UNCHANGED answers /\ strayed' = (strayed \/ Stray(g, None))
      PROVE  Remembered'
    BY <1>4 DEF Begin, Remembered
<1>5. CASE UNCHANGED rest
    BY <1>5 DEF rest, history, Remembered
<1>6. QED
    BY <1>2, <1>3, <1>4, <1>5, NextMoves DEF Start, Step, BeginCreate, BeginConstructor, BeginNew, UseMember, Remembered

(***************************************************************************)
(* Receivers are objects, entries of receivers are handles, and JS objects *)
(* are instances of templates or errors, whatever strays.                  *)
(***************************************************************************)
THEOREM TypeCorrect == Spec => []TypeOK
<1>1. Init => Remembered
    BY DEF Init, Remembered
<1>2. Known /\ Remembered /\ [Next]_vars => Remembered'
    BY RememberedStep
<1>3. Known /\ Remembered /\ jammed \in BOOLEAN => TypeOK
    BY DEF Known, IInv, Typed, ClassInv, TemplatesInv, Remembered, TypeOK
<1>4. Init => jammed \in BOOLEAN
    BY DEF Init
<1>5. jammed \in BOOLEAN /\ [Next]_vars => (jammed \in BOOLEAN)'
    BY DEF Next, LookupPanics, vars
<1>6. QED
    BY <1>1, <1>2, <1>3, <1>4, <1>5, KnownAlways, PTL DEF Spec
=============================================================================
