-------------------------------- MODULE Create --------------------------------
(***************************************************************************)
(* How Go objects become JS objects.  Context.create wraps a Go struct in  *)
(* an instance of the class of its type, and an error in an Error, and     *)
(* remembers the pair in receivers, so that the object gets the same       *)
(* wrapper every time.  A class is a FunctionTemplate made once per type:  *)
(* its members come from the type's own fields and methods, the first      *)
(* embedded struct is its base class, and the accessors of the others are  *)
(* copied.  createConstructor makes the same class call the user's Go      *)
(* constructor; CreateConstructor makes a class of its own.  An object     *)
(* made in JavaScript gets a receiver from the constructor or, when its    *)
(* type has V8Construct, on the first use of a member.                     *)
(*                                                                         *)
(* Each goroutine has a stack of calls.  Constructors and V8Construct are  *)
(* the user's code, which may make further calls.  Goroutines that join    *)
(* one session (see Execution) interleave between calls of native code.    *)
(***************************************************************************)
EXTENDS Naturals, Sequences, FiniteSets

CONSTANTS
    Goroutines,
    Objects,        \* Go pointers to structs, and errors
    Handles,        \* JS objects with their Go Values
    Templates,      \* FunctionTemplates
    Types,          \* struct types
    Names,          \* names of members
    TypeOf,         \* the type of an object, ErrorType for an error
    AddressOf,      \* its address; a struct and its first field share one
    Addresses,
    ErrorType,
    Own,            \* the members a type declares itself
    Bases,          \* the structs a type embeds, in the order of its fields
    Lazy,           \* the types that have V8Construct
    Constructed,    \* the types for which the program has a Go constructor
    MaxCalls,       \* bound on the calls that the user's code has under way
    Failed,         \* the answer of a call that returns an error
    None

(* What is known of a FunctionTemplate; seen: JavaScript has its function. *)
TemplateRecords ==
    [type : Types, shared : BOOLEAN, user : BOOLEAN, seen : BOOLEAN,
     parent : Templates \cup {None}, members : [Names -> Types \cup {None}]]

ASSUME ObjectsAssumption ==
    /\ TypeOf \in [Objects -> Types \cup {ErrorType}]
    /\ AddressOf \in [Objects -> Addresses]
ASSUME TypesAssumption ==
    /\ Own \in [Types -> SUBSET Names]
    /\ Bases \in [Types -> Seq(Types)]
    /\ Lazy \subseteq Types /\ Constructed \subseteq Types
ASSUME NoneAssumption ==
    /\ None \notin Objects \cup Handles \cup Templates \cup Types \cup {ErrorType, Failed}
    /\ None \notin TemplateRecords
    /\ ErrorType \notin Templates

VARIABLES
    receivers,      \* Context.receivers: the wrapper of the object at an address
    receiver,       \* Value.receiver: the Go object of a wrapper
    jammed,         \* receiversMutex was left locked
    class,          \* the template a JS object is an instance of
    templates,      \* what is known of each FunctionTemplate
    prototypes,     \* Context.prototypes: the shared template of a type
    constructors,   \* Context.constructors: the one with a constructor
    stack,          \* the calls of a goroutine, the running one first
    answer,         \* what its last call returned
    answers,        \* what create answered for which object (history)
    strayed         \* see Stray (history)

classes == <<templates, prototypes, constructors>>
links == <<receivers, receiver>>
history == <<answers, strayed>>
vars == <<links, class, classes, stack, answer, history, jammed>>

-----------------------------------------------------------------------------
(* Calls *)

Call(op, pc, subject, shared) ==
    [op |-> op, pc |-> pc, of |-> subject, shared |-> shared, made |-> None, bases |-> <<>>]

Top(g) == Head(stack[g])
AtStep(g, op, pc) == stack[g] # <<>> /\ Top(g).op = op /\ Top(g).pc = pc

Continue(g, call) == stack' = [stack EXCEPT ![g] = <<call>> \o Tail(@)]
Invoke(g, call, callee) == stack' = [stack EXCEPT ![g] = <<callee, call>> \o Tail(@)]
(* The user's code does with an answer what it likes. *)
Return(g, result) ==
    LET awaited == Len(stack[g]) > 1 /\ stack[g][2].pc # "user" IN
    /\ stack' = [stack EXCEPT ![g] = Tail(@)]
    /\ answer' = [answer EXCEPT ![g] = IF awaited THEN result ELSE None]

Made(h) == class[h] # None
NewHandle == CHOOSE h \in Handles : ~Made(h)
HandleLeft == \E h \in Handles : ~Made(h)

Init ==
    /\ receivers = [a \in Addresses |-> None]
    /\ receiver = [h \in Handles |-> None]
    /\ class = [h \in Handles |-> None]
    /\ templates = [t \in Templates |-> None]
    /\ prototypes = [type \in Types |-> None]
    /\ constructors = [type \in Types |-> None]
    /\ stack = [g \in Goroutines |-> <<>>]
    /\ answer = [g \in Goroutines |-> None]
    /\ answers = {}
    /\ strayed = FALSE
    /\ jammed = FALSE

(* The constructor may return an object that is not, as a new one. *)
InUse(o) ==
    \/ receivers[AddressOf[o]] # None
    \/ \E p \in Objects : AddressOf[p] = AddressOf[o] /\
          (\/ \E h \in Handles : receiver[h] = p
           \/ \E g \in Goroutines : \E i \in DOMAIN stack[g] : stack[g][i].of = p)

(* The calls that the user's code has under way. *)
UnderWay ==
    UNION {{g} \X {i \in DOMAIN stack[g] : i = Len(stack[g]) \/ stack[g][i + 1].pc = "user"} :
           g \in Goroutines}

(* A session is idle, or the user's code that it runs makes a call.  The    *)
(* bound counts the call that jammed receiversMutex as one under way.      *)
MayCall(g) ==
    /\ stack[g] # <<>> => Top(g).pc = "user"
    /\ Cardinality(UnderWay) + (IF jammed THEN 1 ELSE 0) < MaxCalls

(***************************************************************************)
(* What the properties about identity do not cover: goroutines that share  *)
(* a session; wrapping an object again while the constructor that its      *)
(* wrapping calls is running; a constructor that returns an object in use  *)
(* already, replaces this, or has used members of the object it constructs,*)
(* which gave it a receiver already (ConstructorReturns); and a V8Construct*)
(* on first use that does the same, in particular one that has asked for   *)
(* the wrapper of the struct it is called on: nothing says yet that this   *)
(* is its wrapper, and create makes another (EndUse).                      *)
(***************************************************************************)
Stray(g, subject) ==
    \/ \E other \in Goroutines \ {g} : stack[other] # <<>>
    \/ /\ subject \in Objects
       /\ \E i \in DOMAIN stack[g] :
             /\ stack[g][i].op = "create" /\ stack[g][i].pc = "receive"
             /\ AddressOf[stack[g][i].of] = AddressOf[subject]

Begin(g, call) ==
    /\ MayCall(g)
    /\ stack' = [stack EXCEPT ![g] = <<call>> \o @]
    /\ strayed' = (strayed \/ Stray(g, call.of))
    /\ UNCHANGED <<links, classes, answer, answers>>

BeginCreate(g, o) ==
    /\ Begin(g, Call("create", "lookup", o, TRUE))
    /\ UNCHANGED class

BeginConstructor(g, type, shared) ==
    /\ Begin(g, Call("constructor", "lookup", type, shared))
    /\ UNCHANGED <<class>>

(* JavaScript evaluates `new F` for a class it has seen. *)
BeginNew(g, t) ==
    /\ templates[t] # None /\ templates[t].seen
    /\ HandleLeft
    /\ IF templates[t].user THEN Begin(g, Call("new", "user", NewHandle, TRUE))
       ELSE /\ MayCall(g) /\ strayed' = (strayed \/ Stray(g, None))
            /\ UNCHANGED <<links, classes, stack, answer, answers>>
    /\ class' = [class EXCEPT ![NewHandle] = t]

-----------------------------------------------------------------------------
(* SetReceiver *)

\* Mutant: the entry of the receiver that is replaced stays.
SetReceiver_Stale(h, o) ==
    /\ ~jammed
    /\ receivers' = [receivers EXCEPT ![AddressOf[o]] = h]
    /\ receiver' = [receiver EXCEPT ![h] = o]

SetReceiver(h, o) ==
    LET replaced == {AddressOf[p] : p \in {receiver[h]} \ {None}} IN
    /\ ~jammed
    /\ receivers' = [a \in Addresses |-> IF a = AddressOf[o] THEN h
                                          ELSE IF a \in replaced THEN None ELSE receivers[a]]
    /\ receiver' = [receiver EXCEPT ![h] = o]

-----------------------------------------------------------------------------
(* Context.create for structs and errors *)

AnswerCreate(g, o, h) ==
    /\ Return(g, h)
    /\ answers' = IF strayed THEN {} ELSE answers \cup {<<o, h>>}

(***************************************************************************)
(* An error that is no pointer, or a struct without an address: Pointer or *)
(* Addr panics between Lock and Unlock, which is not deferred.  Sync makes *)
(* an error of the panic, and receiversMutex stays locked.                 *)
(***************************************************************************)
LookupPanics(g) ==
    /\ MayCall(g)
    /\ ~jammed
    /\ jammed' = TRUE
    /\ UNCHANGED <<links, class, classes, stack, answer, history>>

\* receiversMutex is held for the lookup alone.
Lookup(g) ==
    /\ AtStep(g, "create", "lookup")
    /\ ~jammed
    /\ LET call == Top(g)  o == call.of  known == receivers[AddressOf[o]] IN
       \/ known # None /\ AnswerCreate(g, o, known)
       \/ /\ known = None /\ TypeOf[o] = ErrorType
          /\ Continue(g, [call EXCEPT !.pc = "error"])
          /\ UNCHANGED <<answer, answers>>
       \/ /\ known = None /\ TypeOf[o] # ErrorType
          /\ Invoke(g, [call EXCEPT !.pc = "instance"], Call("prototype", "lookup", TypeOf[o], TRUE))
          /\ UNCHANGED <<answer, answers>>
    /\ UNCHANGED <<links, class, classes, strayed>>

(* The global Error may have been replaced by a function that throws. *)
MakeError(g) ==
    /\ AtStep(g, "create", "error")
    /\ \/ Return(g, Failed) /\ UNCHANGED class
       \/ /\ HandleLeft
          /\ class' = [class EXCEPT ![NewHandle] = ErrorType]
          /\ Continue(g, [Top(g) EXCEPT !.pc = "receive", !.made = NewHandle])
          /\ UNCHANGED answer
    /\ UNCHANGED <<links, classes, history>>

(* GetFunction and NewValue, which runs the class's function. *)
Instance(g) ==
    /\ AtStep(g, "create", "instance")
    /\ HandleLeft
    /\ LET t == answer[g]
           call == [Top(g) EXCEPT !.pc = "receive", !.made = NewHandle] IN
       /\ class' = [class EXCEPT ![NewHandle] = t]
       /\ templates' = [templates EXCEPT ![t].seen = TRUE]
       /\ IF templates[t].user
          THEN Invoke(g, call, Call("new", "user", NewHandle, TRUE))
          ELSE Continue(g, call)
       /\ answer' = [answer EXCEPT ![g] = None]
    /\ UNCHANGED <<links, prototypes, constructors, history>>

(* What `new` returned: the constructor may have replaced it. *)
Instantiated(g) == IF answer[g] \in Handles THEN answer[g] ELSE Top(g).made

\* Mutant: types with V8Construct are left to set their receiver themselves.
Receive_Lazy(g) ==
    /\ AtStep(g, "create", "receive")
    /\ LET call == [Top(g) EXCEPT !.made = Instantiated(g)] IN
       \/ answer[g] = Failed /\ Return(g, Failed) /\ UNCHANGED <<links, answers>>
       \/ /\ answer[g] # Failed
          /\ IF TypeOf[call.of] \in Lazy
             THEN /\ Continue(g, [call EXCEPT !.pc = "user"])
                  /\ answer' = [answer EXCEPT ![g] = None]
                  /\ UNCHANGED <<links, answers>>
             ELSE AnswerCreate(g, call.of, call.made) /\ SetReceiver(call.made, call.of)
    /\ UNCHANGED <<class, classes, strayed>>

Receive(g) ==
    /\ AtStep(g, "create", "receive")
    /\ LET call == [Top(g) EXCEPT !.made = Instantiated(g)] IN
       \/ answer[g] = Failed /\ Return(g, Failed) /\ UNCHANGED <<links, answers>>
       \/ /\ answer[g] # Failed
          /\ SetReceiver(call.made, call.of)
          /\ IF TypeOf[call.of] \in Lazy
             THEN /\ Continue(g, [call EXCEPT !.pc = "user"])
                  /\ answer' = [answer EXCEPT ![g] = None]
                  /\ UNCHANGED answers
             ELSE AnswerCreate(g, call.of, call.made)
    /\ UNCHANGED <<class, classes, strayed>>

(* What V8Construct returns is ignored here. *)
EndConstruct(g) ==
    /\ AtStep(g, "create", "user")
    /\ AnswerCreate(g, Top(g).of, Top(g).made)
    /\ UNCHANGED <<links, class, classes, strayed>>

-----------------------------------------------------------------------------
(* createPrototypeInstance *)

TemplateLeft == \E t \in Templates : templates[t] = None
NewTemplate == CHOOSE t \in Templates : templates[t] = None

Members(type) == [n \in Names |-> IF n \in Own[type] THEN type ELSE None]

\* Mutant: the copies leave out the last base.
WithCopies_OffByOne(members, bases) ==
    [n \in Names |->
        LET copied == {i \in 2..(Len(bases) - 1) : templates[bases[i]].members[n] # None} IN
        IF copied = {} THEN members[n] ELSE templates[bases[2]].members[n]]

(* The accessors after those of all bases but the first were copied over them. *)
WithCopies(members, bases) ==
    [n \in Names |->
        LET copied == {i \in 2..Len(bases) : templates[bases[i]].members[n] # None} IN
        IF copied = {} THEN members[n]
        ELSE templates[bases[CHOOSE i \in copied : \A j \in copied : j <= i]].members[n]]

(* On to the next embedded struct, or to the end. *)
Embed(g, call) ==
    LET next == Len(call.bases) + 1 IN
    IF next <= Len(Bases[call.of])
    THEN Invoke(g, [call EXCEPT !.pc = "base"],
                Call("prototype", "lookup", Bases[call.of][next], TRUE))
    ELSE Continue(g, [call EXCEPT !.pc = "end"])

(* NewFunctionTemplate and writePrototypeFields, unless the class is shared and there. *)
BeginPrototype(g) ==
    /\ AtStep(g, "prototype", "lookup")
    /\ LET call == Top(g)  type == call.of IN
       \/ /\ call.shared /\ prototypes[type] # None
          /\ Return(g, prototypes[type])
          /\ UNCHANGED templates
       \/ /\ ~(call.shared /\ prototypes[type] # None)
          /\ TemplateLeft
          /\ templates' = [templates EXCEPT ![NewTemplate] =
                 [type |-> type, shared |-> call.shared, user |-> FALSE, seen |-> FALSE,
                  parent |-> None, members |-> Members(type)]]
          /\ Embed(g, [call EXCEPT !.made = NewTemplate])
          /\ UNCHANGED answer
    /\ UNCHANGED <<links, class, prototypes, constructors, history>>

(* What createPrototype returned for the base is looked up again. *)
TakeBase(g) ==
    /\ AtStep(g, "prototype", "base")
    /\ LET call == Top(g)  sub == Bases[call.of][Len(call.bases) + 1] IN
       Embed(g, [call EXCEPT !.bases = Append(@, prototypes[sub])])
    /\ answer' = [answer EXCEPT ![g] = None]
    /\ UNCHANGED <<links, class, classes, history>>

\* Mutant: a base class gets the accessors of the class that inherits it, too.
EndPrototype_Reversed(g) ==
    /\ AtStep(g, "prototype", "end")
    /\ LET call == Top(g)  t == call.made IN
       /\ templates' = [s \in Templates |->
              IF s = t THEN [templates[t] EXCEPT
                  !.parent = IF call.bases = <<>> THEN None ELSE call.bases[1],
                  !.members = WithCopies(@, call.bases)]
              ELSE IF call.bases # <<>> /\ s = call.bases[1]
              THEN [templates[s] EXCEPT !.members =
                       [n \in Names |-> IF @[n] = None THEN templates[t].members[n] ELSE @[n]]]
              ELSE templates[s]]
       /\ prototypes' = IF call.shared THEN [prototypes EXCEPT ![call.of] = t] ELSE prototypes
       /\ Return(g, t)
    /\ UNCHANGED <<links, class, constructors, history>>

(* Inherit, Copy, and the store in prototypes. *)
\* Mutant: every template is stored, those that are not shared too.
EndPrototype_Stored(g) ==
    /\ AtStep(g, "prototype", "end")
    /\ LET call == Top(g)  t == call.made IN
       /\ templates' = [templates EXCEPT
              ![t].parent = IF call.bases = <<>> THEN None ELSE call.bases[1],
              ![t].members = WithCopies(@, call.bases)]
       /\ prototypes' = [prototypes EXCEPT ![call.of] = t]
       /\ Return(g, t)
    /\ UNCHANGED <<links, class, constructors, history>>

EndPrototype(g) ==
    /\ AtStep(g, "prototype", "end")
    /\ LET call == Top(g)  t == call.made IN
       /\ templates' = [templates EXCEPT
              ![t].parent = IF call.bases = <<>> THEN None ELSE call.bases[1],
              ![t].members = WithCopies(@, call.bases)]
       /\ prototypes' = IF call.shared THEN [prototypes EXCEPT ![call.of] = t] ELSE prototypes
       /\ Return(g, t)
    /\ UNCHANGED <<links, class, constructors, history>>

-----------------------------------------------------------------------------
(* createConstructor, CreateConstructor *)

LookupConstructor(g) ==
    /\ AtStep(g, "constructor", "lookup")
    /\ LET call == Top(g)  t == constructors[call.of] IN
       \/ call.shared /\ t # None /\ Return(g, t)
       \/ /\ ~(call.shared /\ t # None)
          /\ Invoke(g, [call EXCEPT !.pc = "function"],
                    Call("prototype", "lookup", call.of, call.shared))
          /\ UNCHANGED answer
    /\ UNCHANGED <<links, class, classes, history>>

(* info.Function becomes the user's; JavaScript gets the function. *)
EndConstructor(g) ==
    /\ AtStep(g, "constructor", "function")
    /\ LET type == Top(g).of  t == answer[g] IN
       /\ templates' = [templates EXCEPT ![t].user = TRUE, ![t].seen = TRUE]
       /\ IF Top(g).shared
          THEN /\ constructors' = [constructors EXCEPT ![type] = t]
               /\ prototypes' = [prototypes EXCEPT ![type] = t]
          ELSE UNCHANGED <<constructors, prototypes>>
       /\ Return(g, t)
    /\ UNCHANGED <<links, class, history>>

-----------------------------------------------------------------------------
(* Objects made in JavaScript *)

(* The Go constructor fails, or returns an object, new or already in use; it may
   replace this by another JS object (ReplaceThis). *)
ConstructorReturns(g) ==
    /\ AtStep(g, "new", "user")
    /\ LET h == Top(g).of IN
       \/ /\ Return(g, Failed)
          /\ UNCHANGED <<links, strayed>>
       \/ \E o \in {p \in Objects : TypeOf[p] = templates[class[h]].type},
             this \in {x \in Handles : Made(x)} :
              /\ SetReceiver(this, o)
              /\ strayed' = (strayed \/ this # h \/ InUse(o) \/ receiver[h] # None)
              /\ Return(g, this)
    /\ UNCHANGED <<class, classes, answers>>

(* Where a member is found: in the class, or along its base classes. *)
Found(n) ==
    LET f[t \in {s \in Templates : templates[s] # None}] ==
            IF templates[t].members[n] # None THEN templates[t].members[n]
            ELSE IF templates[t].parent = None THEN None ELSE f[templates[t].parent]
    IN f

(***************************************************************************)
(* JavaScript uses a member of an object without a receiver: Receiver      *)
(* calls V8Construct of the type that declares the member on a new struct. *)
(* A getter may then create its value (BeginCreate).                       *)
(***************************************************************************)
UseMember(g, h, n) ==
    /\ class[h] \in Templates
    /\ receiver[h] = None
    /\ Found(n)[class[h]] \in Lazy
    /\ Begin(g, Call("use", "user", h, TRUE))
    /\ UNCHANGED class

(* SetReceiver with a nil pointer, which is as none. *)
ClearReceiver(h) ==
    /\ ~jammed
    /\ receivers' = [a \in Addresses |->
                        IF \E p \in {receiver[h]} \ {None} : AddressOf[p] = a
                        THEN None ELSE receivers[a]]
    /\ receiver' = [receiver EXCEPT ![h] = None]

(***************************************************************************)
(* V8Construct panics, or the struct it returned, if any, becomes the      *)
(* receiver, whatever happened to it and to this in the meantime.          *)
(***************************************************************************)
EndUse(g) ==
    /\ AtStep(g, "use", "user")
    /\ LET h == Top(g).of IN
       \/ UNCHANGED <<links, strayed>>
       \/ /\ ClearReceiver(h)
          /\ strayed' = (strayed \/ receiver[h] # None)
       \/ \E o \in {p \in Objects : TypeOf[p] # ErrorType} :
              /\ SetReceiver(h, o)
              /\ strayed' = (strayed \/ InUse(o) \/ receiver[h] # None)
    /\ Return(g, None)
    /\ UNCHANGED <<class, classes, answers>>

-----------------------------------------------------------------------------
Step(g) ==
    \/ Lookup(g) \/ MakeError(g) \/ Instance(g) \/ Receive(g) \/ EndConstruct(g)
    \/ BeginPrototype(g) \/ TakeBase(g) \/ EndPrototype(g)
    \/ LookupConstructor(g) \/ EndConstructor(g)
    \/ ConstructorReturns(g) \/ EndUse(g)

Start(g) ==
    \/ \E o \in Objects : BeginCreate(g, o)
    \/ \E type \in Constructed, shared \in BOOLEAN : BeginConstructor(g, type, shared)
    \/ \E t \in Templates : BeginNew(g, t)
    \/ \E h \in Handles, n \in Names : UseMember(g, h, n)

Next ==
    \E g \in Goroutines :
        \/ (Start(g) \/ Step(g)) /\ UNCHANGED jammed
        \/ LookupPanics(g)

Spec == Init /\ [][Next]_vars

-----------------------------------------------------------------------------
(* Properties *)

(* Everything has its type. *)
TypeOK ==
    /\ receivers \in [Addresses -> Handles \cup {None}]
    /\ receiver \in [Handles -> Objects \cup {None}]
    /\ class \in [Handles -> Templates \cup {ErrorType, None}]
    /\ answers \subseteq Objects \X Handles
    /\ strayed \in BOOLEAN /\ jammed \in BOOLEAN

(***************************************************************************)
(* The wrapper that receivers remembers for an address (v8_create.go:211,  *)
(* 298) is one whose receiver is at that address: create never answers a   *)
(* wrapper of an object elsewhere, also when constructors have replaced    *)
(* receivers in between (v8_value.go:923-933) and goroutines joined.  It   *)
(* can be another object's: a struct and its first field share an address. *)
(***************************************************************************)
ReceiversAgree ==
    \A a \in Addresses : receivers[a] # None =>
        \E o \in Objects : AddressOf[o] = a /\ receiver[receivers[a]] = o

(***************************************************************************)
(* create answers one wrapper per Go object (v8_create.go:208, 297), also  *)
(* when the V8Construct that create calls (line 309) asks for the wrapper  *)
(* of its struct in the middle, and when constructors fail, as long as     *)
(* nothing strayed.  It is no property of goroutines that joined, nor of a *)
(* V8Construct called on first use (line 645) that asks for the wrapper of *)
(* its struct: that gets a second one, since SetReceiver comes after it.   *)
(***************************************************************************)
OneWrapperPerObject ==
    ~strayed => \A a, b \in answers : a[1] = b[1] => a[2] = b[2]

(***************************************************************************)
(* The objects of a type that have the shared class have the same one      *)
(* (v8_create.go:543), the class its constructor makes (line 465): an      *)
(* object wrapped in Go is an instance of the constructor that JavaScript  *)
(* was given, whichever came first.                                        *)
(***************************************************************************)
OneClassPerType ==
    ~strayed => \A h \in Handles : class[h] \in Templates =>
        LET t == class[h]  type == templates[t].type IN
        templates[t].shared => prototypes[type] = t /\ constructors[type] \in {None, t}

(* The members a type has by embedding, at any depth. *)
Promoted ==
    LET f[type \in Types] == Own[type] \cup UNION {f[Bases[type][i]] : i \in DOMAIN Bases[type]}
    IN f

(***************************************************************************)
(* An instance has every member its Go type has by embedding: those of its *)
(* first base by inheritance, those of the others by copies                *)
(* (v8_create.go:594-612).  The later bases themselves have no base class  *)
(* in this statement: what they inherit is not copied.                     *)
(***************************************************************************)
PromotedMembersFound ==
    \A h \in Handles : class[h] \in Templates =>
        LET type == templates[class[h]].type IN
        (\A sub \in Types : \A i \in 2..Len(Bases[sub]) : Bases[Bases[sub][i]] = <<>>) =>
            \A n \in Promoted[type] : Found(n)[class[h]] # None

(***************************************************************************)
(* A class that has instances is settled: its members and its base class   *)
(* do not change any more (native code refuses to change a template that   *)
(* was instantiated), whatever joins.                                      *)
(***************************************************************************)
SettledClassesStay ==
    [][\A h \in Handles : class[h] \in Templates =>
          /\ templates'[class[h]].members = templates[class[h]].members
          /\ templates'[class[h]].parent = templates[class[h]].parent]_vars
=============================================================================
