---------------------------- MODULE FacadeProofs ----------------------------
(***************************************************************************)
(* Proofs about Facade for any number of calls, tools, fields and          *)
(* arguments.  The runtime's invariant holds here too, since every step of *)
(* the facade is a step of the runtime or leaves it alone; what is added   *)
(* is where the keys come from and how calls divide an iterator.           *)
(***************************************************************************)
EXTENDS Facade, RuntimeProofs, SequenceTheorems

Distinct(fields) == \A i, j \in DOMAIN fields : fields[i] = fields[j] => i = j

Disjoint(fields, others) ==
    \A i \in DOMAIN fields, j \in DOMAIN others : fields[i] # others[j]

\* The calls of the wrapper of n, and whether its fields come from an iterator.
CallsOf(n) == {c \in Calls : phase[c] # "idle" /\ bound[c].tool = n}

Iterated(n) == wrappers[n] # None /\ wrappers[n].choice # None /\ wrappers[n].choice.iterator

\* A tool is registered when it is protected, under the contract of its wrapper.
ProtectedIsRegistered ==
    \A n \in Names :
        IF wrappers[n] = None THEN registered[n] = None
        ELSE registered[n] = wrappers[n].contract /\ wrappers[n].contract.name = n

\* A call that was made is the call of a wrapper.
CallsAreBound ==
    \A c \in Calls :
        IF phase[c] = "idle" THEN taken[c] = <<>>
        ELSE bound[c] # None /\ wrappers[bound[c].tool] # None

\* The runtime was called with the intent that the wrapper built.
IntentsAreBuilt ==
    \A c \in Calls :
        phase[c] = "executing" => \E key \in KeysFor(c) : action[c] = IntentOf(c, key)

(***************************************************************************)
(* Calls divide the fields of an iterator: no two of them get more than    *)
(* there is, and no field goes to two calls unless it is there twice.      *)
(***************************************************************************)
FieldsAreDivided ==
    \A n \in Names : Iterated(n) =>
        LET declared == wrappers[n].choice.fields
        IN  /\ Len(rest[n]) <= Len(declared)
            /\ \A c \in CallsOf(n) : Len(taken[c]) + Len(rest[n]) <= Len(declared)
            /\ \A c, d \in CallsOf(n) :
                  c # d => Len(taken[c]) + Len(taken[d]) + Len(rest[n]) <= Len(declared)
            /\ Distinct(declared) =>
                  /\ Distinct(rest[n])
                  /\ \A c \in CallsOf(n) : Disjoint(taken[c], rest[n])
                  /\ \A c, d \in CallsOf(n) : c # d => Disjoint(taken[c], taken[d])

FInv ==
    /\ IInv
    /\ FacadeTypeOK
    /\ ProtectedIsRegistered
    /\ CallsAreBound
    /\ IntentsAreBuilt
    /\ FieldsAreDivided

-----------------------------------------------------------------------------
(***************************************************************************)
(* Keys.                                                                   *)
(***************************************************************************)

\* create_key() derives a key of Keys, from valid fields that the arguments have.
LEMMA KeysAreDerived ==
    ASSUME NEW fields \in Seq(Fields), NEW tool \in Names, NEW arguments \in Arguments,
           NEW key \in create_key(tool, arguments, fields)
    PROVE  /\ key \in Keys
           /\ _validate_key_material(fields)
           /\ \A i \in DOMAIN fields : fields[i] \in DOMAIN arguments
           /\ key = [tool |-> tool, fields |-> fields,
                     values |-> [i \in DOMAIN fields |-> arguments[fields[i]]]]
<1>1. /\ _validate_key_material(fields)
      /\ \A i \in DOMAIN fields : fields[i] \in DOMAIN arguments
      /\ key = [tool |-> tool, fields |-> fields,
                values |-> [i \in DOMAIN fields |-> arguments[fields[i]]]]
    BY DEF create_key
<1>2. PICK n : n = Len(fields)
    OBVIOUS
<1>3. n \in Nat /\ DOMAIN fields = 1..n /\ fields \in [1..n -> Fields]
    BY <1>2
<1>4. fields \in Injection(1..n, Fields)
    BY <1>1, <1>3 DEF _validate_key_material, Injection, IsInjective
<1>5. Cardinality(1..n) <= Cardinality(Fields) /\ Cardinality(Fields) \in Nat
    BY <1>4, FS_Injection, FS_CardinalityType, FieldsAssumption
<1>6. Cardinality(1..n) = n
    BY <1>3, FS_Interval
<1>7. n \in 0..Cardinality(Fields)
    BY <1>3, <1>5, <1>6
<1>8. key \in Keys
    BY <1>1, <1>3, <1>7, KeysAssumption
<1> QED BY <1>1, <1>8

\* What a call of a wrapper refers to.
LEMMA CallTyped ==
    ASSUME FacadeTypeOK, CallsAreBound, NEW c \in Calls, phase[c] # "idle"
    PROVE  /\ bound[c].tool \in Names /\ bound[c].arguments \in Arguments
           /\ Called(c) \in Wrappers /\ Called(c).contract \in Contracts
           /\ Called(c).choice \in [fields : Seq(Fields), iterator : BOOLEAN] \cup {None}
           /\ SelectedFields(c) \in Seq(Fields)
<1>1. /\ bound[c].tool \in Names /\ bound[c].arguments \in Arguments
      /\ Called(c) \in Wrappers
    BY DEF FacadeTypeOK, CallsAreBound, Called
<1>2. /\ Called(c).contract \in Contracts
      /\ Called(c).choice \in [fields : Seq(Fields), iterator : BOOLEAN] \cup {None}
    BY <1>1, WrappersAssumption
<1>3. taken[c] \in Seq(Fields)
    BY DEF FacadeTypeOK
<1>4. _required_schema_fields(Called(c).contract) \in Seq(Fields)
    BY <1>2, RequiredAssumption DEF _required_schema_fields
<1>5. SelectedFields(c) \in Seq(Fields)
    BY <1>2, <1>3, <1>4 DEF SelectedFields
<1> QED BY <1>1, <1>2, <1>5

\* A wrapper calls the runtime with one of its intents.
LEMMA BuiltIntents ==
    ASSUME FInv, NEW c \in Calls, phase[c] # "idle", NEW key \in KeysFor(c)
    PROVE  /\ key \in Keys \cup {None}
           /\ IntentOf(c, key) \in Intents
<1>1. /\ bound[c].tool \in Names /\ bound[c].arguments \in Arguments
      /\ Called(c) \in Wrappers /\ Called(c).contract \in Contracts
      /\ SelectedFields(c) \in Seq(Fields)
    BY CallTyped DEF FInv
<1>2. key \in Keys \cup {None}
    BY <1>1, KeysAreDerived DEF KeysFor
<1>3. Called(c).contract.name \in Names
    BY <1>1, ContractsAssumption
<1> QED BY <1>1, <1>2, <1>3, DerivedIntentsAssumption DEF IntentOf

-----------------------------------------------------------------------------
(***************************************************************************)
(* The runtime underneath.                                                 *)
(***************************************************************************)

\* A step inside execute() is one of a call that was entered, and moves it on.
LEMMA StepsMoveOn ==
    ASSUME TypeOK, NEW c \in Calls, Step(c) \/ Interrupt(c)
    PROVE  /\ pc[c] # "idle"
           /\ \A d \in Calls : pc'[d] = "idle" <=> pc[d] = "idle"
           /\ UNCHANGED <<action, registered>>
<1>1. UNCHANGED <<action, registered>>
    BY DEF Step, Resolve, EvaluatePolicy, CheckApproval, ProceedWithoutKey, ClaimKey,
           CheckPreconditions, StartExecution, InvokeHandler, HandlerRaises, HandlerReturns,
           CheckPostconditions, CompleteClaim, Interrupt
<1>2. pc[c] # "idle"
    BY DEF Step, Resolve, EvaluatePolicy, CheckApproval, ProceedWithoutKey, ClaimKey,
           CheckPreconditions, StartExecution, InvokeHandler, HandlerRaises, HandlerReturns,
           CheckPostconditions, CompleteClaim, Interrupt
<1>3. \E site \in Sites \ {"idle"} : pc' = [pc EXCEPT ![c] = site]
    BY DEF Step, Resolve, EvaluatePolicy, CheckApproval, ProceedWithoutKey, ClaimKey,
           CheckPreconditions, StartExecution, InvokeHandler, HandlerRaises, HandlerReturns,
           CheckPostconditions, CompleteClaim, Interrupt, Refuse, Conclude, Goto, Sites
<1>4. \A d \in Calls : pc'[d] = "idle" <=> pc[d] = "idle"
    BY <1>2, <1>3 DEF TypeOK
<1> QED BY <1>1, <1>2, <1>4

\* A step of the facade is a step of the runtime, or none.
LEMMA StepsOfTheRuntime == ASSUME FInv, [FacadeNext]_allVars PROVE [Next]_vars
<1>1. ASSUME NEW new \in Wrappers, Protect(new) PROVE Next
    <2>1. new.contract \in Contracts
        BY WrappersAssumption
    <2> QED BY <1>1, <2>1 DEF Protect, Next
<1>2. ASSUME NEW c \in Calls, CallExecute(c) PROVE Next
    <2>1. PICK key \in KeysFor(c) : Receive(c, IntentOf(c, key))
        BY <1>2 DEF CallExecute
    <2>2. phase[c] # "idle"
        BY <1>2 DEF CallExecute, FieldsRead
    <2>3. IntentOf(c, key) \in Intents
        BY <2>2, BuiltIntents
    <2> QED BY <2>1, <2>3 DEF Next
<1>3. ASSUME NEW c \in Calls, RuntimeStep(c) \/ InterruptCall(c) PROVE Next
    BY <1>3 DEF RuntimeStep, InterruptCall, Next
<1>4. ASSUME NEW c \in Calls, TakeField(c) \/ WrapperRaises(c) PROVE UNCHANGED vars
    BY <1>4 DEF TakeField, WrapperRaises
<1>5. ASSUME NEW c \in Calls, NEW n \in Names, NEW arguments \in Arguments,
             CallWrapper(c, n, arguments)
      PROVE  UNCHANGED vars
    BY <1>5 DEF CallWrapper
<1>6. CASE FacadeQuiescent \/ UNCHANGED allVars
    BY <1>6 DEF FacadeQuiescent, allVars
<1> QED BY <1>1, <1>2, <1>3, <1>4, <1>5, <1>6 DEF FacadeNext, WrapperStep

\* The parts of FInv that do not look at the runtime.
LEMMA WrappersKept ==
    ASSUME FInv, TypeOK', UNCHANGED facadeVars, UNCHANGED <<action, registered>>,
           \A d \in Calls : pc'[d] = "idle" <=> pc[d] = "idle"
    PROVE  (FacadeTypeOK /\ ProtectedIsRegistered /\ CallsAreBound /\ IntentsAreBuilt
               /\ FieldsAreDivided)'
<1> USE DEF FInv, facadeVars
<1>1. FacadeTypeOK'
    BY DEF FacadeTypeOK
<1>2. ProtectedIsRegistered' /\ CallsAreBound'
    BY DEF ProtectedIsRegistered, CallsAreBound
<1>3. \A c \in Calls : KeysFor(c)' = KeysFor(c)
    BY DEF KeysFor, SelectedFields, Reads, Called
<1>4. IntentsAreBuilt'
    BY <1>3 DEF IntentsAreBuilt, IntentOf, Called
<1>5. FieldsAreDivided'
    BY DEF FieldsAreDivided, Iterated, CallsOf
<1> QED BY <1>1, <1>2, <1>4, <1>5

\* A step of the runtime in a call that the facade has handed over.
LEMMA RuntimeStepInv ==
    ASSUME FInv, NEW c \in Calls, RuntimeStep(c) \/ InterruptCall(c), IInv'
    PROVE  FInv'
<1>1. (Step(c) \/ Interrupt(c)) /\ UNCHANGED facadeVars
    BY DEF RuntimeStep, InterruptCall
<1>2. TypeOK /\ TypeOK'
    BY DEF FInv, IInv
<1>3. UNCHANGED <<action, registered>> /\ \A d \in Calls : pc'[d] = "idle" <=> pc[d] = "idle"
    BY <1>1, <1>2, StepsMoveOn
<1>4. (FacadeTypeOK /\ ProtectedIsRegistered /\ CallsAreBound /\ IntentsAreBuilt
          /\ FieldsAreDivided)'
    BY <1>1, <1>2, <1>3, WrappersKept
<1> QED BY <1>4 DEF FInv

-----------------------------------------------------------------------------
(***************************************************************************)
(* The wrapper.                                                            *)
(***************************************************************************)

\* What a call derives its key from stays when other wrappers come and go.
LEMMA SameSelection ==
    ASSUME NEW c \in Calls, Called(c)' = Called(c), bound'[c] = bound[c], taken'[c] = taken[c]
    PROVE  /\ KeysFor(c)' = KeysFor(c)
           /\ \A key : IntentOf(c, key)' = IntentOf(c, key)
BY DEF KeysFor, SelectedFields, Reads, IntentOf

\* A tool is protected: nobody has called it yet.
LEMMA ProtectInv ==
    ASSUME FInv, NEW new \in Wrappers, Protect(new), IInv'
    PROVE  FInv'
<1> USE DEF FInv
<1>1. PICK m : m = new.contract.name
    OBVIOUS
<1>2. /\ registered[m] = None
      /\ registered' = [registered EXCEPT ![m] = new.contract]
      /\ wrappers' = [wrappers EXCEPT ![m] = new]
      /\ rest' = [rest EXCEPT ![m] = IF new.choice # None /\ new.choice.iterator
                                     THEN new.choice.fields ELSE <<>>]
      /\ UNCHANGED <<phase, bound, taken, pc, action>>
    BY <1>1 DEF Protect, Register
<1>3. /\ new.contract \in Contracts /\ m \in Names /\ new # None /\ new.contract # None
      /\ new.choice \in [fields : Seq(Fields), iterator : BOOLEAN] \cup {None}
    BY <1>1, WrappersAssumption, ContractsAssumption, NoneIsNoWrapper, NoneAssumption
<1>4. wrappers[m] = None
    BY <1>2, <1>3, WrappersAssumption, NoneAssumption DEF ProtectedIsRegistered, FacadeTypeOK
<1>5. /\ wrappers'[m] = new /\ registered'[m] = new.contract
      /\ rest'[m] = IF new.choice # None /\ new.choice.iterator THEN new.choice.fields ELSE <<>>
      /\ \A n \in Names : n # m =>
            wrappers'[n] = wrappers[n] /\ registered'[n] = registered[n] /\ rest'[n] = rest[n]
    BY <1>2, <1>3 DEF FacadeTypeOK, IInv, TypeOK
<1>6. rest'[m] \in Seq(Fields)
    BY <1>3, <1>5
<1>7. FacadeTypeOK'
    <2>1. TypeOK'
        BY DEF IInv
    <2>2. rest' \in [Names -> Seq(Fields)]
        BY <1>2, <1>5, <1>6 DEF FacadeTypeOK
    <2>3. wrappers' \in [Names -> Wrappers \cup {None}]
        BY <1>2 DEF FacadeTypeOK
    <2> QED BY <1>2, <2>1, <2>2, <2>3 DEF FacadeTypeOK
<1>8. ProtectedIsRegistered'
    BY <1>1, <1>3, <1>5 DEF ProtectedIsRegistered
<1>9. \A c \in Calls : phase[c] # "idle" => bound[c].tool \in Names /\ bound[c].tool # m
    BY <1>4, CallTyped DEF CallsAreBound
<1>10. CallsAreBound'
    BY <1>2, <1>5, <1>9 DEF CallsAreBound
<1>11. IntentsAreBuilt'
    <2>1. ASSUME NEW c \in Calls, phase'[c] = "executing"
          PROVE  \E key \in KeysFor(c)' : action'[c] = IntentOf(c, key)'
        <3>1. phase[c] = "executing" /\ bound'[c] = bound[c] /\ taken'[c] = taken[c]
                /\ action'[c] = action[c]
            BY <1>2, <2>1
        <3>2. Called(c)' = Called(c)
            BY <1>5, <1>9, <3>1 DEF Called
        <3>3. KeysFor(c)' = KeysFor(c) /\ \A key : IntentOf(c, key)' = IntentOf(c, key)
            BY <3>1, <3>2, SameSelection
        <3> QED BY <3>1, <3>3 DEF IntentsAreBuilt
    <2> QED BY <2>1 DEF IntentsAreBuilt
<1>12. FieldsAreDivided'
    <2>1. CallsOf(m)' = {}
        BY <1>2, <1>9 DEF CallsOf
    <2>2. \A n \in Names : n # m => CallsOf(n)' = CallsOf(n) /\ (Iterated(n)' <=> Iterated(n))
        BY <1>2, <1>5 DEF CallsOf, Iterated
    <2>3. Iterated(m)' => rest'[m] = new.choice.fields /\ Len(rest'[m]) \in Nat
        BY <1>3, <1>5, <1>6 DEF Iterated
    <2>4. ASSUME NEW n \in Names, Iterated(n)', n = m
          PROVE  LET declared == wrappers'[n].choice.fields
                 IN  /\ Len(rest'[n]) <= Len(declared)
                     /\ Distinct(declared) => Distinct(rest'[n])
        BY <1>5, <2>3, <2>4
    <2> QED BY <1>2, <1>5, <2>1, <2>2, <2>4 DEF FieldsAreDivided
<1> QED BY <1>7, <1>8, <1>10, <1>11, <1>12

\* A wrapper is called.
LEMMA CallWrapperInv ==
    ASSUME FInv, NEW c \in Calls, NEW n \in Names, NEW arguments \in Arguments,
           CallWrapper(c, n, arguments), IInv'
    PROVE  FInv'
<1> USE DEF FInv
<1>1. /\ phase[c] = "idle" /\ wrappers[n] # None
      /\ bound' = [bound EXCEPT ![c] = [tool |-> n, arguments |-> arguments]]
      /\ UNCHANGED <<wrappers, rest, taken>> /\ UNCHANGED vars
    BY DEF CallWrapper
<1>2. PICK next \in {"fields", "refused"} : phase' = [phase EXCEPT ![c] = next]
    BY DEF CallWrapper
<1>3. /\ phase'[c] = next /\ bound'[c] = [tool |-> n, arguments |-> arguments]
      /\ \A d \in Calls : d # c => phase'[d] = phase[d] /\ bound'[d] = bound[d]
    BY <1>1, <1>2 DEF FacadeTypeOK
<1>4. bound'[c] # None /\ bound'[c].tool = n
    BY <1>3, NoneIsNoWrapper
<1>5. FacadeTypeOK'
    <2>1. TypeOK'
        BY DEF IInv
    <2>2. phase' \in [Calls -> {"idle", "fields", "executing", "refused"}]
        BY <1>2 DEF FacadeTypeOK
    <2>3. bound' \in [Calls -> [tool : Names, arguments : Arguments] \cup {None}]
        BY <1>1 DEF FacadeTypeOK
    <2>4. \A d \in Calls : phase'[d] = "executing" <=> pc'[d] # "idle"
        BY <1>1, <1>2, <1>3 DEF FacadeTypeOK, vars
    <2> QED BY <1>1, <2>1, <2>2, <2>3, <2>4 DEF FacadeTypeOK
<1>6. ProtectedIsRegistered'
    BY <1>1 DEF ProtectedIsRegistered, vars
<1>7. CallsAreBound'
    BY <1>1, <1>2, <1>3, <1>4 DEF CallsAreBound
<1>8. IntentsAreBuilt'
    <2>1. ASSUME NEW d \in Calls, phase'[d] = "executing"
          PROVE  \E key \in KeysFor(d)' : action'[d] = IntentOf(d, key)'
        <3>1. /\ d # c /\ phase[d] = "executing" /\ bound'[d] = bound[d] /\ taken'[d] = taken[d]
              /\ action'[d] = action[d]
            BY <1>1, <1>2, <1>3, <2>1 DEF vars
        <3>2. Called(d)' = Called(d)
            BY <1>1, <3>1 DEF Called
        <3>3. KeysFor(d)' = KeysFor(d) /\ \A key : IntentOf(d, key)' = IntentOf(d, key)
            BY <3>1, <3>2, SameSelection
        <3> QED BY <3>1, <3>3 DEF IntentsAreBuilt
    <2> QED BY <2>1 DEF IntentsAreBuilt
<1>9. FieldsAreDivided'
    <2>1. \A m \in Names : CallsOf(m)' \subseteq CallsOf(m) \cup {c}
        BY <1>3 DEF CallsOf
    <2>2. taken[c] = <<>> /\ DOMAIN taken[c] = {}
        BY <1>1 DEF CallsAreBound
    <2>8. Len(taken[c]) = 0
        BY <2>2
    <2>3. \A m \in Names : Iterated(m)' <=> Iterated(m)
        BY <1>1 DEF Iterated
    <2>4. \A d \in Calls : Len(taken[d]) \in Nat
        BY DEF FacadeTypeOK
    <2>5. \A m \in Names : Len(rest[m]) \in Nat
        BY DEF FacadeTypeOK
    <2>6. \A s : Disjoint(taken[c], s) /\ Disjoint(s, taken[c])
        BY <2>2 DEF Disjoint
    <2>7. ASSUME NEW m \in Names, Iterated(m)
          PROVE  LET declared == wrappers[m].choice.fields
                 IN  /\ Len(rest[m]) <= Len(declared)
                     /\ \A d \in CallsOf(m)' : Len(taken[d]) + Len(rest[m]) <= Len(declared)
                     /\ \A d, e \in CallsOf(m)' :
                           d # e => Len(taken[d]) + Len(taken[e]) + Len(rest[m]) <= Len(declared)
                     /\ Distinct(declared) =>
                           /\ Distinct(rest[m])
                           /\ \A d \in CallsOf(m)' : Disjoint(taken[d], rest[m])
                           /\ \A d, e \in CallsOf(m)' : d # e => Disjoint(taken[d], taken[e])
        <3> DEFINE declared == wrappers[m].choice.fields
        <3>1. /\ Len(rest[m]) <= Len(declared)
              /\ \A d \in CallsOf(m) : Len(taken[d]) + Len(rest[m]) <= Len(declared)
              /\ \A d, e \in CallsOf(m) :
                    d # e => Len(taken[d]) + Len(taken[e]) + Len(rest[m]) <= Len(declared)
            BY <2>7 DEF FieldsAreDivided
        <3>2. Distinct(declared) =>
                  /\ Distinct(rest[m])
                  /\ \A d \in CallsOf(m) : Disjoint(taken[d], rest[m])
                  /\ \A d, e \in CallsOf(m) : d # e => Disjoint(taken[d], taken[e])
            BY <2>7 DEF FieldsAreDivided
        <3> HIDE DEF declared
        <3>3. CallsOf(m) \subseteq Calls
            BY DEF CallsOf
        <3>4. \A d \in CallsOf(m)' : Len(taken[d]) + Len(rest[m]) <= Len(declared)
            <4> SUFFICES ASSUME NEW d \in CallsOf(m)'
                         PROVE  Len(taken[d]) + Len(rest[m]) <= Len(declared)
                OBVIOUS
            <4>1. CASE d = c
                <5>1. PICK left \in Nat : left = Len(rest[m])
                    BY <2>5
                <5>2. Len(taken[d]) + left = left
                    BY <2>8, <4>1
                <5> QED BY <3>1, <5>1, <5>2
            <4>2. CASE d # c
                BY <2>1, <3>1, <4>2
            <4> QED BY <4>1, <4>2
        <3>5. \A d, e \in CallsOf(m)' :
                  d # e => Len(taken[d]) + Len(taken[e]) + Len(rest[m]) <= Len(declared)
            <4> SUFFICES ASSUME NEW d \in CallsOf(m)', NEW e \in CallsOf(m)', d # e
                         PROVE  Len(taken[d]) + Len(taken[e]) + Len(rest[m]) <= Len(declared)
                OBVIOUS
            <4>1. d \in Calls /\ e \in Calls
                BY <2>1, <3>3
            <4>2. CASE d = c
                <5>1. PICK left \in Nat : left = Len(rest[m])
                    BY <2>5
                <5>2. PICK has \in Nat : has = Len(taken[e])
                    BY <2>4, <4>1
                <5>3. Len(taken[d]) + Len(taken[e]) + left = has + left
                    <6>1. Len(taken[d]) = 0
                        BY <2>8, <4>2
                    <6>2. 0 + has + left = has + left
                        OBVIOUS
                    <6> QED BY ONLY <5>2, <6>1, <6>2, Zenon
                <5> QED BY <3>4, <5>1, <5>2, <5>3
            <4>3. CASE e = c
                <5>1. PICK left \in Nat : left = Len(rest[m])
                    BY <2>5
                <5>2. PICK has \in Nat : has = Len(taken[d])
                    BY <2>4, <4>1
                <5>3. Len(taken[d]) + Len(taken[e]) + left = has + left
                    <6>1. Len(taken[e]) = 0
                        BY <2>8, <4>3
                    <6>2. has + 0 + left = has + left
                        OBVIOUS
                    <6> QED BY ONLY <5>2, <6>1, <6>2, Zenon
                <5> QED BY <3>4, <5>1, <5>2, <5>3
            <4>4. CASE d # c /\ e # c
                BY <2>1, <3>1, <4>4
            <4> QED BY <4>2, <4>3, <4>4
        <3>6. Distinct(declared) =>
                  /\ Distinct(rest[m])
                  /\ \A d \in CallsOf(m)' : Disjoint(taken[d], rest[m])
                  /\ \A d, e \in CallsOf(m)' : d # e => Disjoint(taken[d], taken[e])
            BY <2>1, <2>6, <3>2
        <3> QED BY <3>1, <3>4, <3>5, <3>6 DEF declared
    <2> QED BY <1>1, <2>3, <2>7 DEF FieldsAreDivided
<1> QED BY <1>5, <1>6, <1>7, <1>8, <1>9

\* What holds when the first field of left moves to the end of mine.
Moved(left, mine, more, less) ==
    /\ more \in Seq(Fields) /\ less \in Seq(Fields)
    /\ Len(more) = Len(mine) + 1 /\ Len(left) = Len(less) + 1
    /\ \A other : /\ Disjoint(mine, other) /\ Disjoint(other, left) => Disjoint(more, other)
                  /\ Disjoint(other, left) => Disjoint(other, less)
    /\ Distinct(left) /\ Disjoint(mine, left) => Disjoint(more, less) /\ Distinct(less)

\* One field moves from the front of a list to the end of another.
LEMMA MoveField ==
    ASSUME NEW left \in Seq(Fields), left # <<>>, NEW mine \in Seq(Fields),
           NEW field, field = Head(left), NEW more, more = Append(mine, field),
           NEW less, less = Tail(left)
    PROVE  Moved(left, mine, more, less)
<1>1. /\ field \in Fields /\ less \in Seq(Fields)
      /\ Len(left) \in Nat /\ Len(left) > 0 /\ Len(less) = Len(left) - 1
      /\ field = left[1] /\ 1 \in DOMAIN left
      /\ DOMAIN left = 1..Len(left) /\ DOMAIN less = 1..(Len(left) - 1)
      /\ \A i \in 1..(Len(left) - 1) : less[i] = left[i + 1]
    <2>1. Len(left) \in Nat /\ Len(left) > 0 /\ DOMAIN left = 1..Len(left)
        BY EmptySeq
    <2>2. /\ field \in Fields /\ less \in Seq(Fields) /\ field = left[1]
          /\ Len(less) = Len(left) - 1
          /\ \A i \in 1..(Len(left) - 1) : less[i] = left[i + 1]
        BY <2>1, HeadTailProperties
    <2>3. DOMAIN less = 1..(Len(left) - 1)
        BY <2>2
    <2> QED BY <2>1, <2>2, <2>3
<1>2. /\ more \in Seq(Fields) /\ Len(more) = Len(mine) + 1 /\ Len(mine) \in Nat
      /\ DOMAIN mine = 1..Len(mine) /\ DOMAIN more = 1..(Len(mine) + 1)
      /\ \A i \in 1..Len(mine) : more[i] = mine[i]
      /\ more[Len(mine) + 1] = field
    <2>1. /\ Append(mine, field) \in Seq(Fields)
          /\ Len(Append(mine, field)) = Len(mine) + 1
          /\ \A i \in 1..Len(mine) : Append(mine, field)[i] = mine[i]
          /\ Append(mine, field)[Len(mine) + 1] = field
        BY <1>1, AppendProperties
    <2>2. DOMAIN Append(mine, field) = 1..(Len(mine) + 1)
        BY <2>1
    <2> QED BY <2>1, <2>2
<1>3. \A i \in DOMAIN less : i + 1 \in DOMAIN left /\ i + 1 # 1 /\ less[i] = left[i + 1]
    BY <1>1
<1>4. \A i \in DOMAIN more : \/ i \in DOMAIN mine /\ more[i] = mine[i]
                             \/ more[i] = left[1]
    BY <1>1, <1>2
<1>5. ASSUME NEW other
      PROVE  /\ Disjoint(mine, other) /\ Disjoint(other, left) => Disjoint(more, other)
             /\ Disjoint(other, left) => Disjoint(other, less)
    <2>1. Disjoint(mine, other) /\ Disjoint(other, left) => Disjoint(more, other)
        BY <1>1, <1>4 DEF Disjoint
    <2>2. Disjoint(other, left) => Disjoint(other, less)
        BY <1>3 DEF Disjoint
    <2> QED BY <2>1, <2>2
<1>6. Distinct(left) => Distinct(less)
    <2>1. \A i, j \in DOMAIN less : i + 1 = j + 1 => i = j
        BY <1>1
    <2> QED BY <1>3, <2>1 DEF Distinct
<1>7. Distinct(left) /\ Disjoint(mine, left) => Disjoint(more, less)
    BY <1>1, <1>3, <1>4 DEF Distinct, Disjoint
<1>8. Len(left) = Len(less) + 1
    BY <1>1
<1> QED BY ONLY <1>1, <1>2, <1>5, <1>6, <1>7, <1>8 DEF Moved

\* A call reads the next field of an iterator.
LEMMA TakeFieldInv ==
    ASSUME FInv, NEW c \in Calls, TakeField(c), IInv'
    PROVE  FInv'
<1> USE DEF FInv
<1>1. PICK n : n = bound[c].tool
    OBVIOUS
<1>2. PICK left : left = rest[n]
    OBVIOUS
<1>3. PICK mine : mine = taken[c]
    OBVIOUS
<1>4. PICK field : field = Head(left)
    OBVIOUS
<1>4a. PICK more : more = Append(mine, field)
    OBVIOUS
<1>5. PICK less : less = Tail(left)
    OBVIOUS
<1>6. /\ phase[c] = "fields" /\ Reads(c) /\ left # <<>>
      /\ taken' = [taken EXCEPT ![c] = more]
      /\ rest' = [rest EXCEPT ![n] = less]
      /\ UNCHANGED <<wrappers, phase, bound>> /\ UNCHANGED vars
    BY <1>1, <1>2, <1>3, <1>4, <1>4a, <1>5 DEF TakeField
<1>7. n \in Names /\ left \in Seq(Fields) /\ mine \in Seq(Fields)
    BY <1>1, <1>2, <1>3, <1>6, CallTyped DEF FacadeTypeOK
<1>8. /\ more \in Seq(Fields) /\ less \in Seq(Fields)
      /\ Len(more) = Len(mine) + 1 /\ Len(left) = Len(less) + 1
      /\ \A other : /\ Disjoint(mine, other) /\ Disjoint(other, left) => Disjoint(more, other)
                    /\ Disjoint(other, left) => Disjoint(other, less)
      /\ Distinct(left) /\ Disjoint(mine, left) => Disjoint(more, less) /\ Distinct(less)
    <2>1. left # <<>>
        BY <1>6
    <2>2. Moved(left, mine, more, less)
        BY ONLY <1>4, <1>4a, <1>5, <1>7, <2>1, MoveField
    <2> QED BY ONLY <2>2 DEF Moved
<1>9. /\ taken'[c] = more /\ \A d \in Calls : d # c => taken'[d] = taken[d]
      /\ rest'[n] = less /\ \A m \in Names : m # n => rest'[m] = rest[m]
    BY <1>6, <1>7 DEF FacadeTypeOK
<1>10. FacadeTypeOK'
    <2>1. TypeOK'
        BY DEF IInv
    <2>2. taken' \in [Calls -> Seq(Fields)]
        BY <1>6, <1>8 DEF FacadeTypeOK
    <2>3. rest' \in [Names -> Seq(Fields)]
        BY <1>6, <1>8 DEF FacadeTypeOK
    <2>4. UNCHANGED <<wrappers, phase, bound, pc>>
        BY <1>6 DEF vars
    <2> QED BY <2>1, <2>2, <2>3, <2>4 DEF FacadeTypeOK
<1>11. ProtectedIsRegistered' /\ CallsAreBound'
    BY <1>6, <1>9 DEF ProtectedIsRegistered, CallsAreBound, vars
<1>12. IntentsAreBuilt'
    <2>1. ASSUME NEW d \in Calls, phase'[d] = "executing"
          PROVE  \E key \in KeysFor(d)' : action'[d] = IntentOf(d, key)'
        <3>1. /\ d # c /\ phase[d] = "executing" /\ bound'[d] = bound[d] /\ taken'[d] = taken[d]
              /\ action'[d] = action[d]
            BY <1>6, <1>9, <2>1 DEF vars
        <3>2. Called(d)' = Called(d)
            BY <1>6, <3>1 DEF Called
        <3>3. KeysFor(d)' = KeysFor(d) /\ \A key : IntentOf(d, key)' = IntentOf(d, key)
            BY <3>1, <3>2, SameSelection
        <3> QED BY <3>1, <3>3 DEF IntentsAreBuilt
    <2> QED BY <2>1 DEF IntentsAreBuilt
<1>13. FieldsAreDivided'
    <2>1. \A m \in Names : CallsOf(m)' = CallsOf(m) /\ (Iterated(m)' <=> Iterated(m))
        BY <1>6 DEF CallsOf, Iterated
    <2>2. /\ \A m \in Names : m # n => c \notin CallsOf(m)
          /\ \A m \in Names : CallsOf(m) \subseteq Calls
          /\ c \in CallsOf(n)
        BY <1>1, <1>6 DEF CallsOf
    <2>3. ASSUME NEW m \in Names, Iterated(m), m # n
          PROVE  LET declared == wrappers'[m].choice.fields
                 IN  /\ Len(rest'[m]) <= Len(declared)
                     /\ \A d \in CallsOf(m) : Len(taken'[d]) + Len(rest'[m]) <= Len(declared)
                     /\ \A d, e \in CallsOf(m) :
                           d # e => Len(taken'[d]) + Len(taken'[e]) + Len(rest'[m]) <= Len(declared)
                     /\ Distinct(declared) =>
                           /\ Distinct(rest'[m])
                           /\ \A d \in CallsOf(m) : Disjoint(taken'[d], rest'[m])
                           /\ \A d, e \in CallsOf(m) : d # e => Disjoint(taken'[d], taken'[e])
        <3>1. rest'[m] = rest[m] /\ wrappers' = wrappers /\ \A d \in CallsOf(m) : taken'[d] = taken[d]
            BY <1>6, <1>9, <2>2, <2>3
        <3> QED BY <2>3, <3>1 DEF FieldsAreDivided
    <2>4. Iterated(n)
        BY <1>1, <1>6 DEF Reads, Iterated, Called, CallsAreBound
    <2>5. PICK declared : declared = wrappers[n].choice.fields
        OBVIOUS
    <2>6. PICK size \in Nat : size = Len(declared)
        <3>1. wrappers[n] \in Wrappers /\ wrappers[n].choice # None
            BY <1>7, <2>4 DEF Iterated, FacadeTypeOK
        <3>2. wrappers[n].choice.fields \in Seq(Fields)
            BY <3>1, WrappersAssumption
        <3> QED BY <2>5, <3>2
    <2>7. PICK l \in Nat : l = Len(less) /\ Len(left) = l + 1
        BY <1>8
    <2>8. /\ l + 1 <= size
          /\ \A d \in CallsOf(n) : Len(taken[d]) + (l + 1) <= size
          /\ \A d, e \in CallsOf(n) : d # e => Len(taken[d]) + Len(taken[e]) + (l + 1) <= size
        BY <1>2, <1>7, <2>4, <2>5, <2>6, <2>7 DEF FieldsAreDivided
    <2>9. Distinct(declared) =>
              /\ Distinct(left)
              /\ \A d \in CallsOf(n) : Disjoint(taken[d], left)
              /\ \A d, e \in CallsOf(n) : d # e => Disjoint(taken[d], taken[e])
        BY <1>2, <1>7, <2>4, <2>5 DEF FieldsAreDivided
    <2>10. \A d \in Calls : Len(taken[d]) \in Nat
        BY DEF FacadeTypeOK
    <2>11. \A d \in CallsOf(n) :
              /\ d \in Calls /\ Len(taken[d]) \in Nat
              /\ d # c => Len(taken'[d]) = Len(taken[d])
              /\ d = c => Len(taken'[d]) = Len(taken[d]) + 1
        <3>1. ASSUME NEW d \in CallsOf(n), d # c PROVE Len(taken'[d]) = Len(taken[d])
            BY <1>7, <1>9, <2>2, <3>1
        <3>2. Len(taken'[c]) = Len(taken[c]) + 1
            BY ONLY <1>3, <1>8, <1>9
        <3>3. \A d \in CallsOf(n) : d \in Calls /\ Len(taken[d]) \in Nat
            BY <1>7, <2>2, <2>10
        <3> QED BY ONLY <3>1, <3>2, <3>3
    <2>12. ASSUME NEW d \in CallsOf(n) PROVE Len(taken'[d]) + l <= size
        <3>1. PICK a \in Nat : a = Len(taken[d])
            BY <2>11
        <3>2. a + (l + 1) <= size
            BY <2>8, <3>1
        <3>3. PICK b \in {a, a + 1} : b = Len(taken'[d])
            BY <2>11, <3>1
        <3>4. b + l <= size
            BY <3>2
        <3> QED BY <3>3, <3>4
    <2>13. ASSUME NEW d \in CallsOf(n), NEW e \in CallsOf(n), d # e
           PROVE  Len(taken'[d]) + Len(taken'[e]) + l <= size
        <3>1. PICK a \in Nat : a = Len(taken[d])
            BY <2>11
        <3>2. PICK b \in Nat : b = Len(taken[e])
            BY <2>11
        <3>3. a + b + (l + 1) <= size
            BY <2>8, <2>13, <3>1, <3>2
        <3>4. PICK p : p = Len(taken'[d])
            OBVIOUS
        <3>5. PICK q : q = Len(taken'[e])
            OBVIOUS
        <3>6. /\ p = a \/ (p = a + 1 /\ d = c)
              /\ q = b \/ (q = b + 1 /\ e = c)
            BY ONLY <2>11, <3>1, <3>2, <3>4, <3>5, d \in CallsOf(n), e \in CallsOf(n)
        <3>7. p + q + l <= size
            BY <2>13, <3>3, <3>6
        <3> QED BY <3>4, <3>5, <3>7
    <2>14. l <= size
        BY <2>8
    <2>15. Distinct(declared) =>
              /\ Distinct(less)
              /\ \A d \in CallsOf(n) : Disjoint(taken'[d], less)
              /\ \A d, e \in CallsOf(n) : d # e => Disjoint(taken'[d], taken'[e])
        <3> SUFFICES ASSUME Distinct(declared)
                     PROVE  /\ Distinct(less)
                            /\ \A d \in CallsOf(n) : Disjoint(taken'[d], less)
                            /\ \A d, e \in CallsOf(n) : d # e => Disjoint(taken'[d], taken'[e])
            OBVIOUS
        <3>1. Distinct(less) /\ Disjoint(more, less)
            BY <1>3, <1>8, <2>2, <2>9
        <3>2. \A d \in CallsOf(n) : Disjoint(taken'[d], less)
            <4>1. ASSUME NEW d \in CallsOf(n), d # c PROVE Disjoint(taken'[d], less)
                <5>1. taken'[d] = taken[d] /\ Disjoint(taken[d], left)
                    BY <1>7, <1>9, <2>2, <2>9, <4>1
                <5>2. Disjoint(taken[d], left) => Disjoint(taken[d], less)
                    BY ONLY <1>8
                <5> QED BY ONLY <5>1, <5>2
            <4>2. Disjoint(taken'[c], less)
                BY ONLY <1>9, <3>1
            <4> QED BY ONLY <4>1, <4>2
        <3>3. \A d \in CallsOf(n) : d # c => Disjoint(more, taken[d])
            BY <1>3, <1>8, <2>2, <2>9
        <3>4. \A s, u : Disjoint(s, u) => Disjoint(u, s)
            BY DEF Disjoint
        <3>5. \A d, e \in CallsOf(n) : d # e => Disjoint(taken'[d], taken'[e])
            <4>1. ASSUME NEW d \in CallsOf(n), NEW e \in CallsOf(n), d # e
                  PROVE  Disjoint(taken'[d], taken'[e])
                <5>1. d \in Calls /\ e \in Calls
                    BY <1>7, <2>2
                <5>2. CASE d = c
                    BY ONLY <1>9, <3>3, <4>1, <5>1, <5>2
                <5>3. CASE e = c
                    BY ONLY <1>9, <3>3, <3>4, <4>1, <5>1, <5>3
                <5>4. CASE d # c /\ e # c
                    BY <1>9, <2>9, <4>1, <5>1, <5>4
                <5> QED BY <5>2, <5>3, <5>4
            <4> QED BY ONLY <4>1
        <3> QED BY <3>1, <3>2, <3>5
    <2>16. ASSUME NEW m \in Names, Iterated(m), m = n
           PROVE  LET fields == wrappers'[m].choice.fields
                  IN  /\ Len(rest'[m]) <= Len(fields)
                      /\ \A d \in CallsOf(m) : Len(taken'[d]) + Len(rest'[m]) <= Len(fields)
                      /\ \A d, e \in CallsOf(m) :
                            d # e => Len(taken'[d]) + Len(taken'[e]) + Len(rest'[m]) <= Len(fields)
                      /\ Distinct(fields) =>
                            /\ Distinct(rest'[m])
                            /\ \A d \in CallsOf(m) : Disjoint(taken'[d], rest'[m])
                            /\ \A d, e \in CallsOf(m) : d # e => Disjoint(taken'[d], taken'[e])
        <3>1. wrappers'[m].choice.fields = declared /\ rest'[m] = less
            BY <1>6, <1>9, <2>5, <2>16
        <3> QED BY <2>6, <2>7, <2>12, <2>13, <2>14, <2>15, <2>16, <3>1
    <2> QED BY <2>1, <2>3, <2>16 DEF FieldsAreDivided
<1> QED BY <1>10, <1>11, <1>12, <1>13

\* The phase of a call goes on from "fields"; nothing else of the facade changes.
LEMMA LeaveFieldsInv ==
    ASSUME FInv, NEW c \in Calls, FieldsRead(c), NEW next \in {"executing", "refused"},
           phase' = [phase EXCEPT ![c] = next], UNCHANGED <<wrappers, rest, bound, taken>>,
           registered' = registered, \A d \in Calls : d # c => action'[d] = action[d],
           \A d \in Calls : phase'[d] = "executing" <=> pc'[d] # "idle",
           next = "executing" => \E key \in KeysFor(c) : action'[c] = IntentOf(c, key),
           IInv'
    PROVE  FInv'
<1> USE DEF FInv
<1>1. /\ phase[c] = "fields" /\ phase'[c] = next
      /\ \A d \in Calls : d # c => phase'[d] = phase[d]
    BY DEF FieldsRead, FacadeTypeOK
<1>2. FacadeTypeOK'
    <2>1. TypeOK'
        BY DEF IInv
    <2>2. phase' \in [Calls -> {"idle", "fields", "executing", "refused"}]
        BY DEF FacadeTypeOK
    <2> QED BY <2>1, <2>2 DEF FacadeTypeOK
<1>3. ProtectedIsRegistered' /\ CallsAreBound'
    BY <1>1 DEF ProtectedIsRegistered, CallsAreBound
<1>4. \A d \in Calls : KeysFor(d)' = KeysFor(d) /\ \A key : IntentOf(d, key)' = IntentOf(d, key)
    BY SameSelection DEF Called
<1>5. IntentsAreBuilt'
    BY <1>1, <1>4 DEF IntentsAreBuilt
<1>6. FieldsAreDivided'
    <2>1. \A n : CallsOf(n)' = CallsOf(n)
        BY <1>1 DEF CallsOf
    <2> QED BY <2>1 DEF FieldsAreDivided, Iterated
<1> QED BY <1>2, <1>3, <1>5, <1>6

\* The runtime is called, or the wrapper raises before it is.
LEMMA CallExecuteInv ==
    ASSUME FInv, NEW c \in Calls, CallExecute(c) \/ WrapperRaises(c), IInv'
    PROVE  FInv'
<1> USE DEF FInv
<1>1. FieldsRead(c) /\ phase[c] = "fields" /\ UNCHANGED <<wrappers, rest, bound, taken>>
    BY DEF CallExecute, WrapperRaises, FieldsRead
<1>2. CASE CallExecute(c)
    <2>1. PICK key \in KeysFor(c) : Receive(c, IntentOf(c, key))
        BY <1>2 DEF CallExecute
    <2>2. phase' = [phase EXCEPT ![c] = "executing"]
        BY <1>2 DEF CallExecute
    <2>3. /\ registered' = registered
          /\ action' = [action EXCEPT ![c] = IntentOf(c, key)]
          /\ \E site \in {"resolve", "returned"} : pc' = [pc EXCEPT ![c] = site]
        BY <2>1 DEF Receive, Goto
    <2>4. action'[c] = IntentOf(c, key) /\ \A d \in Calls : d # c => action'[d] = action[d]
        BY <2>3 DEF IInv, TypeOK
    <2>5. \A d \in Calls : phase'[d] = "executing" <=> pc'[d] # "idle"
        BY <2>2, <2>3 DEF FacadeTypeOK, TypeOK
    <2> QED BY <1>1, <2>2, <2>3, <2>4, <2>5, LeaveFieldsInv
<1>3. CASE WrapperRaises(c)
    <2>1. phase' = [phase EXCEPT ![c] = "refused"] /\ UNCHANGED vars
        BY <1>3 DEF WrapperRaises
    <2>2. \A d \in Calls : phase'[d] = "executing" <=> pc'[d] # "idle"
        BY <1>1, <2>1 DEF FacadeTypeOK, vars
    <2>3. registered' = registered /\ \A d \in Calls : d # c => action'[d] = action[d]
        BY <2>1 DEF vars
    <2> QED BY <1>1, <2>1, <2>2, <2>3, LeaveFieldsInv
<1> QED BY <1>2, <1>3

\* Nothing is protected and nobody has called yet.
LEMMA InitFInv == FacadeInit => FInv
<1> SUFFICES ASSUME FacadeInit PROVE FInv
    OBVIOUS
<1>1. IInv
    BY InitInvariant DEF FacadeInit
<1>2. FacadeTypeOK
    <2>1. TypeOK /\ pc = [c \in Calls |-> "idle"]
        BY <1>1 DEF IInv, FacadeInit, Init
    <2>2. rest \in [Names -> Seq(Fields)] /\ taken \in [Calls -> Seq(Fields)]
        BY EmptySeq DEF FacadeInit
    <2> QED BY <2>1, <2>2 DEF FacadeInit, FacadeTypeOK
<1>3. ProtectedIsRegistered
    BY DEF FacadeInit, Init, ProtectedIsRegistered
<1>4. CallsAreBound /\ IntentsAreBuilt /\ FieldsAreDivided
    BY DEF FacadeInit, CallsAreBound, IntentsAreBuilt, FieldsAreDivided, Iterated
<1> QED BY <1>1, <1>2, <1>3, <1>4 DEF FInv

\* Every step of the facade keeps FInv.
LEMMA NextFInv == FInv /\ [FacadeNext]_allVars => FInv'
<1> SUFFICES ASSUME FInv, [FacadeNext]_allVars PROVE FInv'
    OBVIOUS
<1>1. IInv'
    <2>1. [Next]_vars
        BY StepsOfTheRuntime
    <2> QED BY <2>1, NextInvariant DEF FInv
<1>2. ASSUME NEW new \in Wrappers, Protect(new) PROVE FInv'
    BY ONLY FInv, <1>1, <1>2, ProtectInv
<1>3. ASSUME NEW c \in Calls, NEW n \in Names, NEW arguments \in Arguments,
             CallWrapper(c, n, arguments)
      PROVE  FInv'
    BY ONLY FInv, <1>1, <1>3, CallWrapperInv
<1>4. ASSUME NEW c \in Calls, WrapperStep(c) PROVE FInv'
    BY ONLY FInv, <1>1, <1>4, TakeFieldInv, CallExecuteInv DEF WrapperStep
<1>5. ASSUME NEW c \in Calls, RuntimeStep(c) \/ InterruptCall(c) PROVE FInv'
    BY ONLY FInv, <1>1, <1>5, RuntimeStepInv
<1>6. CASE UNCHANGED allVars
    <2>1. UNCHANGED facadeVars /\ UNCHANGED <<action, registered, pc>>
        BY <1>6 DEF allVars, vars
    <2>2. TypeOK'
        BY <1>1 DEF IInv
    <2>3. \A d \in Calls : pc'[d] = "idle" <=> pc[d] = "idle"
        BY <2>1
    <2>4. (FacadeTypeOK /\ ProtectedIsRegistered /\ CallsAreBound /\ IntentsAreBuilt
              /\ FieldsAreDivided)'
        BY ONLY FInv, <2>1, <2>2, <2>3, WrappersKept
    <2> QED BY <1>1, <2>4 DEF FInv
<1> QED BY <1>2, <1>3, <1>4, <1>5, <1>6 DEF FacadeNext, FacadeQuiescent

(***************************************************************************)
(* FInv holds of the facade in every reachable state.                      *)
(***************************************************************************)
THEOREM FacadeInvariantHolds == FacadeSpec => []FInv
BY InitFInv, NextFInv, PTL DEF FacadeSpec

(***************************************************************************)
(* The facade uses the runtime as any host may: what it does to the        *)
(* runtime is a behaviour of the runtime.                                  *)
(***************************************************************************)
THEOREM FacadeUsesTheRuntime == FacadeSpec => Init /\ [][Next]_vars
<1>1. FacadeInit => Init
    BY DEF FacadeInit
<1>2. FInv /\ [FacadeNext]_allVars => [Next]_vars
    BY StepsOfTheRuntime
<1> QED BY <1>1, <1>2, FacadeInvariantHolds, PTL DEF FacadeSpec

(***************************************************************************)
(* FacadeTypeOK holds of the facade in every reachable state.              *)
(***************************************************************************)
THEOREM FacadeTypeCorrect == FacadeSpec => []FacadeTypeOK
<1>1. FInv => FacadeTypeOK
    BY DEF FInv
<1> QED BY <1>1, FacadeInvariantHolds, PTL

-----------------------------------------------------------------------------
\* The key of a call in the runtime is the one its wrapper derived.
LEMMA KeyOfCall ==
    ASSUME FInv, NEW c \in Calls, pc[c] # "idle", action[c].key # None
    PROVE  LET fields == SelectedFields(c)
           IN  /\ fields \in Seq(Fields)
               /\ _validate_key_material(fields)
               /\ \A i \in DOMAIN fields : fields[i] \in DOMAIN bound[c].arguments
               /\ action[c].key =
                     [tool |-> bound[c].tool, fields |-> fields,
                      values |-> [i \in DOMAIN fields |-> bound[c].arguments[fields[i]]]]
<1> USE DEF FInv
<1>1. phase[c] = "executing"
    BY DEF FacadeTypeOK
<1>2. PICK key \in KeysFor(c) : action[c] = IntentOf(c, key)
    BY <1>1 DEF IntentsAreBuilt
<1>3. action[c].key = key
    BY <1>2 DEF IntentOf
<1>4. key \in create_key(bound[c].tool, bound[c].arguments, SelectedFields(c))
    BY <1>2, <1>3 DEF KeysFor
<1>5. /\ bound[c].tool \in Names /\ bound[c].arguments \in Arguments
      /\ SelectedFields(c) \in Seq(Fields)
    BY <1>1, CallTyped
<1> QED BY <1>3, <1>4, <1>5, KeysAreDerived

\* A call that entered the function runs under the contract of its wrapper.
LEMMA ContractOfCall ==
    ASSUME FInv, NEW c \in invoked
    PROVE  c \in Calls /\ pc[c] # "idle" /\ contract[c] = Called(c).contract
<1> USE DEF FInv
<1>1. c \in Calls /\ pc[c] # "idle"
    BY DEF IInv, TypeOK, StartGate
<1>2. phase[c] = "executing"
    BY <1>1 DEF FacadeTypeOK
<1>3. PICK key \in KeysFor(c) : action[c] = IntentOf(c, key)
    BY <1>1, <1>2 DEF IntentsAreBuilt
<1>4. bound[c].tool \in Names /\ Called(c) # None
    BY <1>1, <1>2, CallTyped, NoneIsNoWrapper
<1>5. Called(c).contract.name = bound[c].tool /\ registered[bound[c].tool] = Called(c).contract
    BY <1>4 DEF ProtectedIsRegistered, Called
<1>6. action[c].tool = bound[c].tool
    BY <1>3, <1>5 DEF IntentOf
<1>7. registered[action[c].tool] = contract[c]
    BY <1>1 DEF IInv, ResolvedGate
<1> QED BY <1>1, <1>5, <1>6, <1>7

\* Two calls of one wrapper read the same way, and want the same fields.
LEMMA SameWrapper ==
    ASSUME NEW c, NEW d, bound[c].tool = bound[d].tool
    PROVE  Called(c) = Called(d) /\ (Reads(c) <=> Reads(d))
BY DEF Called, Reads

\* A wrapper without an iterator uses the declared fields.
LEMMA DeclaredFields ==
    ASSUME NEW c, ~ReadInPart(c)
    PROVE  SelectedFields(c) = Declared(bound[c].tool)
BY DEF ReadInPart, SelectedFields, Declared, Called, Reads

\* What two calls of one iterator have read.
LEMMA DividedFields ==
    ASSUME FInv, NEW c \in Calls, NEW d \in Calls, c # d, pc[c] # "idle", pc[d] # "idle",
           bound[c].tool = bound[d].tool, Reads(c)
    PROVE  LET declared == Declared(bound[c].tool)
           IN  /\ declared \in Seq(Fields)
               /\ Len(taken[c]) + Len(taken[d]) <= Len(declared)
               /\ Distinct(declared) => Disjoint(taken[c], taken[d])
<1> USE DEF FInv
<1>1. phase[c] # "idle" /\ phase[d] # "idle"
    BY DEF FacadeTypeOK
<1>2. PICK n : n = bound[c].tool
    OBVIOUS
<1>3. /\ n \in Names /\ Called(c) \in Wrappers /\ Called(c) = wrappers[n]
      /\ Called(c).choice \in [fields : Seq(Fields), iterator : BOOLEAN] \cup {None}
    BY <1>1, <1>2, CallTyped DEF Called
<1>4. c \in CallsOf(n) /\ d \in CallsOf(n)
    BY <1>1, <1>2 DEF CallsOf
<1>5. Iterated(n)
    BY <1>3, NoneIsNoWrapper DEF Iterated, Reads
<1>6. PICK declared : declared = wrappers[n].choice.fields
    OBVIOUS
<1>7. Declared(n) = declared /\ declared \in Seq(Fields)
    BY <1>3, <1>5, <1>6 DEF Declared, Iterated
<1>8. PICK a \in Nat : a = Len(taken[c])
    BY DEF FacadeTypeOK
<1>9. PICK b \in Nat : b = Len(taken[d])
    BY DEF FacadeTypeOK
<1>10. PICK r \in Nat : r = Len(rest[n])
    BY <1>3 DEF FacadeTypeOK
<1>11. PICK size \in Nat : size = Len(declared)
    BY <1>7
<1>12. /\ a + b + r <= size
       /\ Distinct(declared) => Disjoint(taken[c], taken[d])
    BY <1>3, <1>4, <1>5, <1>6, <1>8, <1>9, <1>10, <1>11 DEF FieldsAreDivided
<1>13. a + b <= size
    BY <1>12
<1> QED BY ONLY <1>2, <1>7, <1>8, <1>9, <1>11, <1>12, <1>13

\* A call that read all the fields leaves none to another: that one has no key.
LEMMA NoneLeft ==
    ASSUME FInv, NEW c \in Calls, NEW d \in Calls, c # d, pc[c] # "idle", pc[d] # "idle",
           bound[c].tool = bound[d].tool, Reads(c), ~ReadInPart(c)
    PROVE  action[d].key = None
<1>1. PICK declared : declared = Declared(bound[c].tool)
    OBVIOUS
<1>2. declared \in Seq(Fields) /\ Len(taken[c]) + Len(taken[d]) <= Len(declared)
    BY <1>1, DividedFields
<1>3. taken[c] = declared
    BY <1>1 DEF ReadInPart
<1>4. PICK size \in Nat : size = Len(declared)
    BY <1>2
<1>5. taken[d] \in Seq(Fields)
    BY DEF FInv, FacadeTypeOK
<1>6. PICK b \in Nat : b = Len(taken[d])
    BY <1>5
<1>7. size + b <= size
    BY ONLY <1>2, <1>3, <1>4, <1>6
<1>8. b = 0
    BY ONLY <1>4, <1>6, <1>7
<1>9. taken[d] = <<>>
    BY ONLY <1>5, <1>6, <1>8, EmptySeq
<1>10. SelectedFields(d) = <<>>
    BY <1>9, SameWrapper DEF SelectedFields
<1> QED BY <1>10, KeyOfCall DEF _validate_key_material

(***************************************************************************)
(* A protected tool that requires a key acts once per action, whatever the *)
(* calls, their arguments and their interleaving, unless they divided the  *)
(* fields of an iterator.                                                  *)
(***************************************************************************)
THEOREM ProtectedToolsActOnce == FacadeSpec => []OneEffectPerAction
<1>1. FInv => OneEffectPerAction
    <2> SUFFICES ASSUME FInv, NEW c \in invoked, NEW d \in invoked,
                        contract[c].idempotency_key_required, SameAction(c, d), c # d
                 PROVE  ReadInPart(c) /\ ReadInPart(d)
        BY DEF OneEffectPerAction
    <2>1. /\ c \in Calls /\ pc[c] # "idle" /\ contract[c] = Called(c).contract
          /\ d \in Calls /\ pc[d] # "idle" /\ contract[d] = Called(d).contract
        BY ContractOfCall
    <2>2. PICK n : n = bound[c].tool /\ n = bound[d].tool
        BY DEF SameAction
    <2>3. Called(c) = Called(d) /\ (Reads(c) <=> Reads(d))
        BY <2>2, SameWrapper
    <2>4. action[c].key # None /\ action[d].key # None
        BY <2>1, <2>3 DEF FInv, IInv, ClaimGate
    <2>5. CASE Reads(c)
        BY <2>1, <2>2, <2>3, <2>4, <2>5, NoneLeft
    <2>6. CASE ~Reads(c)
        <3>1. PICK fields : fields = Declared(n)
            OBVIOUS
        <3>2. SelectedFields(c) = fields /\ SelectedFields(d) = fields
            BY <2>2, <2>3, <2>6, <3>1, DeclaredFields DEF ReadInPart
        <3>3. /\ \A i \in DOMAIN fields : fields[i] \in DOMAIN bound[c].arguments
              /\ action[c].key =
                    [tool |-> n, fields |-> fields,
                     values |-> [i \in DOMAIN fields |-> bound[c].arguments[fields[i]]]]
            BY <2>1, <2>2, <2>4, <3>2, KeyOfCall
        <3>4. action[d].key =
                 [tool |-> n, fields |-> fields,
                  values |-> [i \in DOMAIN fields |-> bound[d].arguments[fields[i]]]]
            BY <2>1, <2>2, <2>4, <3>2, KeyOfCall
        <3>5. \A i \in DOMAIN fields :
                 bound[c].arguments[fields[i]] = bound[d].arguments[fields[i]]
            BY <2>2, <3>1, <3>3 DEF SameAction
        <3>6. action[c].key = action[d].key
            BY ONLY <3>3, <3>4, <3>5
        <3>7. AtMostOneInvocationPerKey
            BY OneInvocation DEF FInv
        <3> QED BY <2>1, <2>4, <3>6, <3>7 DEF AtMostOneInvocationPerKey, SameKey
    <2> QED BY <2>5, <2>6
<1> QED BY <1>1, FacadeInvariantHolds, PTL

(***************************************************************************)
(* An outcome that stems from another call is one of the same action,      *)
(* unless calls divided an iterator that names a field twice.              *)
(***************************************************************************)
THEOREM ReplaysAreOfTheSameAction == FacadeSpec => []DerivedKeysDoNotAlias
<1>1. FInv => DerivedKeysDoNotAlias
    <2> SUFFICES ASSUME FInv, NEW c \in Calls, result[c] # None, result[c].execution # c
                 PROVE  \/ SameAction(c, result[c].execution)
                        \/ /\ ReadInPart(c)
                           /\ ~_validate_key_material(Declared(bound[c].tool))
        BY DEF DerivedKeysDoNotAlias
    <2>1. PICK d : d = result[c].execution
        OBVIOUS
    <2>2. d \in Calls /\ d # c /\ pc[c] # "idle"
        BY <2>1 DEF FInv, IInv, TypeOK, ExecutionResult, Entered
    <2>3. SameKey(c, d) /\ acquired[d]
        BY <2>1, <2>2 DEF FInv, IInv, ReplaySource, ReplayedFrom
    <2>4. pc[d] # "idle"
        BY <2>2, <2>3 DEF FInv, IInv, ClaimHasRecord
    <2>5. action[c].key = action[d].key /\ action[c].key # None
        BY <2>3 DEF SameKey
    <2>6. PICK fields : fields = SelectedFields(c)
        OBVIOUS
    <2>7. PICK others : others = SelectedFields(d)
        OBVIOUS
    <2>8. /\ fields \in Seq(Fields) /\ _validate_key_material(fields)
          /\ action[c].key =
                [tool |-> bound[c].tool, fields |-> fields,
                 values |-> [i \in DOMAIN fields |-> bound[c].arguments[fields[i]]]]
        BY <2>2, <2>5, <2>6, KeyOfCall
    <2>9. action[d].key =
             [tool |-> bound[d].tool, fields |-> others,
              values |-> [i \in DOMAIN others |-> bound[d].arguments[others[i]]]]
        BY <2>2, <2>4, <2>5, <2>7, KeyOfCall
    <2>10. bound[c].tool = bound[d].tool /\ fields = others
        <3>1. PICK values : values = [i \in DOMAIN fields |-> bound[c].arguments[fields[i]]]
            OBVIOUS
        <3>2. PICK theirs :
                 theirs = [i \in DOMAIN others |-> bound[d].arguments[others[i]]]
            OBVIOUS
        <3>3. [tool |-> bound[c].tool, fields |-> fields, values |-> values]
                 = [tool |-> bound[d].tool, fields |-> others, values |-> theirs]
            BY ONLY <2>5, <2>8, <2>9, <3>1, <3>2
        <3> QED BY ONLY <3>3
    <2>11. \A i \in DOMAIN fields :
              bound[c].arguments[fields[i]] = bound[d].arguments[fields[i]]
        <3>1. PICK values : values = [i \in DOMAIN fields |-> bound[c].arguments[fields[i]]]
            OBVIOUS
        <3>2. PICK theirs :
                 theirs = [i \in DOMAIN fields |-> bound[d].arguments[fields[i]]]
            OBVIOUS
        <3>3. [tool |-> bound[c].tool, fields |-> fields, values |-> values]
                 = [tool |-> bound[c].tool, fields |-> fields, values |-> theirs]
            BY ONLY <2>5, <2>8, <2>9, <2>10, <3>1, <3>2
        <3>4. values = theirs
            BY ONLY <3>3
        <3> QED BY ONLY <3>1, <3>2, <3>4
    <2>12. CASE ~ReadInPart(c)
        <3>1. fields = Declared(bound[c].tool)
            BY <2>6, <2>12, DeclaredFields
        <3>2. SameAction(c, d)
            BY ONLY <2>10, <2>11, <3>1 DEF SameAction
        <3> QED BY <2>1, <3>2
    <2>13. CASE ReadInPart(c)
        <3>1. Reads(c) /\ Reads(d)
            BY <2>10, <2>13, SameWrapper DEF ReadInPart
        <3>2. taken[c] = fields /\ taken[d] = fields
            BY <2>6, <2>7, <2>10, <3>1 DEF SelectedFields
        <3>3. Distinct(Declared(bound[c].tool)) => Disjoint(fields, fields)
            BY <2>2, <2>4, <2>10, <3>1, <3>2, DividedFields
        <3>4. 1 \in DOMAIN fields
            BY <2>8, EmptySeq DEF _validate_key_material
        <3>5. ~Disjoint(fields, fields)
            BY <3>4 DEF Disjoint
        <3>6. ~_validate_key_material(Declared(bound[c].tool))
            BY <3>3, <3>5 DEF _validate_key_material, Distinct
        <3> QED BY <2>13, <3>6
    <2> QED BY <2>12, <2>13
<1> QED BY <1>1, FacadeInvariantHolds, PTL

(***************************************************************************)
(* What the LangGraph adapter hands on as a bare output is the output of a *)
(* function that ran and passed its checks; all else says it is no success.*)
(***************************************************************************)
THEOREM BareOutputsAreSuccesses == FacadeSpec => []OutputMeansSuccess
<1>1. FInv => OutputMeansSuccess
    <2> SUFFICES ASSUME FInv, NEW c \in Calls, pc[c] = "returned"
                 PROVE  LET response == _serialize_result(result[c], "output")
                        IN  IF response.bare
                            THEN result[c].execution \in invoked /\ result[c].code = "succeeded"
                            ELSE ~response.content.succeeded
        BY DEF OutputMeansSuccess
    <2>1. result[c] # None
        BY DEF FInv, IInv, ResultStage
    <2>2. result[c].code \in EffectCodes <=> result[c].execution \in invoked
        BY <2>1, ResultsAreTruthful DEF FInv, TruthfulResult
    <2>3. CASE result[c].code = "succeeded"
        BY ONLY <2>2, <2>3 DEF _serialize_result, EffectCodes
    <2>4. CASE result[c].code # "succeeded"
        BY ONLY <2>4 DEF _serialize_result, model_dump
    <2> QED BY <2>3, <2>4
<1> QED BY <1>1, FacadeInvariantHolds, PTL
=============================================================================
