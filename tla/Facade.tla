------------------------------- MODULE Facade -------------------------------
(***************************************************************************)
(* The facade AgentActum (src/agentactum/facade.py) on top of the runtime: *)
(* protect() registers a function and wraps it, and a call of the wrapper  *)
(* binds its arguments, derives the idempotency key (idempotency/keys.py)  *)
(* and calls execute().  The LangGraph adapter (langgraph.py) wraps the    *)
(* wrapper once more.                                                      *)
(*                                                                         *)
(* idempotency_fields may be an iterator: it is shared by all calls of the *)
(* wrapper, and calls that read it at the same time divide its fields.     *)
(***************************************************************************)
EXTENDS SingleActionRuntime

CONSTANTS
    Fields,         \* names of parameters
    Arguments,      \* the JSON objects the parameters may be bound to
    Wrappers        \* [contract, choice]: what protect() may be called with

(***************************************************************************)
(* A contract also has `required', the value of "required" in its input    *)
(* schema as a tuple of names, or None when it is no list of strings.  The *)
(* `choice' of a wrapper is its idempotency_fields, or None.               *)
(***************************************************************************)
ASSUME RequiredAssumption ==
    \A known \in Contracts : known.required \in Seq(Fields) \cup {None}

ASSUME WrappersAssumption ==
    Wrappers \subseteq
        [contract : Contracts, choice : [fields : Seq(Fields), iterator : BOOLEAN] \cup {None}]

ASSUME FieldsAssumption == IsFiniteSet(Fields)

ASSUME NoneIsNoWrapper ==
    None \notin Wrappers /\ None \notin [tool : Names, arguments : Arguments]

VARIABLES
    wrappers,       \* [Names -> Wrappers or None]: the protected functions
    rest,           \* [Names -> what the wrapper's iterator still holds]
    phase,          \* where a call is in the wrapper
    bound,          \* the tool and the arguments a call was made with
    taken           \* the fields a call has read so far

facadeVars == <<wrappers, rest, phase, bound, taken>>

allVars == <<vars, facadeVars>>

FacadeTypeOK ==
    /\ TypeOK
    /\ wrappers \in [Names -> Wrappers \cup {None}]
    /\ rest \in [Names -> Seq(Fields)]
    /\ phase \in [Calls -> {"idle", "fields", "executing", "refused"}]
    /\ bound \in [Calls -> [tool : Names, arguments : Arguments] \cup {None}]
    /\ taken \in [Calls -> Seq(Fields)]
    /\ \A c \in Calls : phase[c] = "executing" <=> pc[c] # "idle"

FacadeInit ==
    /\ Init
    /\ wrappers = [n \in Names |-> None]
    /\ rest     = [n \in Names |-> <<>>]
    /\ phase    = [c \in Calls |-> "idle"]
    /\ bound    = [c \in Calls |-> None]
    /\ taken    = [c \in Calls |-> <<>>]

-----------------------------------------------------------------------------
_required_schema_fields(known) == IF known.required = None THEN <<>> ELSE known.required

\* protect() and its decorator: a name that is taken raises in register().
Protect(new) ==
    LET n == new.contract.name
    IN  /\ Register(new.contract)
        /\ wrappers' = [wrappers EXCEPT ![n] = new]
        /\ rest' = [rest EXCEPT ![n] = IF new.choice # None /\ new.choice.iterator
                                       THEN new.choice.fields ELSE <<>>]
        /\ UNCHANGED <<phase, bound, taken>>

\* The wrapper of the tool that c calls, and whether it reads an iterator.
Called(c) == wrappers[bound[c].tool]

Reads(c) ==
    /\ Called(c).contract.idempotency_key_required
    /\ Called(c).choice # None
    /\ Called(c).choice.iterator

(***************************************************************************)
(* A wrapper is called.  Arguments that cannot be bound to the parameters, *)
(* or are not JSON-compatible, raise (_bind_json_arguments).               *)
(***************************************************************************)
CallWrapper(c, n, arguments) ==
    /\ phase[c] = "idle"
    /\ wrappers[n] # None
    /\ bound' = [bound EXCEPT ![c] = [tool |-> n, arguments |-> arguments]]
    /\ \E next \in {"fields", "refused"} : phase' = [phase EXCEPT ![c] = next]
    /\ UNCHANGED <<vars, wrappers, rest, taken>>

\* tuple(idempotency_fields) takes one more field of an iterator.
TakeField(c) ==
    /\ phase[c] = "fields"
    /\ Reads(c)
    /\ LET n == bound[c].tool
       IN  /\ rest[n] # <<>>
           /\ taken' = [taken EXCEPT ![c] = Append(@, Head(rest[n]))]
           /\ rest' = [rest EXCEPT ![n] = Tail(@)]
    /\ UNCHANGED <<vars, wrappers, phase, bound>>

\* @mutant of SelectedFields: explicit idempotency_fields are overlooked.
RequiredFieldsAlways(c) == _required_schema_fields(Called(c).contract)

\* @mutant of SelectedFields: only the first of the required fields counts.
FirstRequiredField(c) ==
    IF Reads(c) THEN taken[c]
    ELSE IF Called(c).choice # None THEN Called(c).choice.fields
    ELSE IF Called(c).contract.required = None THEN <<>>
    ELSE <<Head(Called(c).contract.required)>>

\* The fields that the wrapper hands to create_key().
SelectedFields(c) ==
    IF Reads(c) THEN taken[c]
    ELSE IF Called(c).choice # None THEN Called(c).choice.fields
    ELSE _required_schema_fields(Called(c).contract)

\* Blank names are no member of Fields.
_validate_key_material(fields) ==
    /\ fields # <<>>
    /\ \A i, j \in DOMAIN fields : fields[i] = fields[j] => i = j

\* @mutant of create_key: the names of the fields make the key, not their values.
KeyWithoutValues(tool, arguments, fields) ==
    IF _validate_key_material(fields) /\ \A i \in DOMAIN fields : fields[i] \in DOMAIN arguments
    THEN {[tool |-> tool, fields |-> fields, values |-> <<>>]} ELSE {}

(***************************************************************************)
(* The key, or none when create_key() raises.  The digest stands for its   *)
(* material: JSON with sorted keys is canonical, SHA-256 taken injective.  *)
(***************************************************************************)
create_key(tool, arguments, fields) ==
    IF _validate_key_material(fields) /\ \A i \in DOMAIN fields : fields[i] \in DOMAIN arguments
    THEN {[tool |-> tool, fields |-> fields,
           values |-> [i \in DOMAIN fields |-> arguments[fields[i]]]]}
    ELSE {}

(***************************************************************************)
(* Keys and Intents hold what the facade may hand to the runtime: the keys *)
(* of all tuples of distinct fields, and the intents with those keys.      *)
(***************************************************************************)
ASSUME KeysAssumption ==
    \A n \in 0..Cardinality(Fields) : \A fields \in [1..n -> Fields] :
        \A tool \in Names, arguments \in Arguments :
            (\A i \in 1..n : fields[i] \in DOMAIN arguments) /\ _validate_key_material(fields) =>
                [tool |-> tool, fields |-> fields,
                 values |-> [i \in 1..n |-> arguments[fields[i]]]] \in Keys

ASSUME DerivedIntentsAssumption ==
    [id : Calls, tool : Names, version : {known.version : known \in Contracts},
     arguments : Arguments, key : Keys \cup {None}] \subseteq Intents

\* The keys a call may go on with.
KeysFor(c) ==
    IF Called(c).contract.idempotency_key_required
    THEN create_key(bound[c].tool, bound[c].arguments, SelectedFields(c)) ELSE {None}

\* The ActionIntent; uuid4() is drawn once per call.
IntentOf(c, key) ==
    [id |-> c, tool |-> Called(c).contract.name, version |-> Called(c).contract.version,
     arguments |-> bound[c].arguments, key |-> key]

\* All the fields there are have been read.
FieldsRead(c) == phase[c] = "fields" /\ (Reads(c) => rest[bound[c].tool] = <<>>)

\* The intent is built and execute() called.
CallExecute(c) ==
    /\ FieldsRead(c)
    /\ \E key \in KeysFor(c) : Receive(c, IntentOf(c, key))
    /\ phase' = [phase EXCEPT ![c] = "executing"]
    /\ UNCHANGED <<wrappers, rest, bound, taken>>

(***************************************************************************)
(* create_key(), the clock, or the context factory raises: the caller gets *)
(* the exception, the runtime is not called.                               *)
(***************************************************************************)
WrapperRaises(c) ==
    /\ FieldsRead(c)
    /\ phase' = [phase EXCEPT ![c] = "refused"]
    /\ UNCHANGED <<vars, wrappers, rest, bound, taken>>

WrapperStep(c) == TakeField(c) \/ CallExecute(c) \/ WrapperRaises(c)

RuntimeStep(c) == Step(c) /\ UNCHANGED facadeVars

InterruptCall(c) == Interrupt(c) /\ UNCHANGED facadeVars

\* Every call is over and the host makes no more.
FacadeQuiescent ==
    /\ \A c \in Calls : phase[c] = "refused" \/ Ended(c)
    /\ UNCHANGED allVars

FacadeNext ==
    \/ \E new \in Wrappers : Protect(new)
    \/ \E c \in Calls, n \in Names, arguments \in Arguments : CallWrapper(c, n, arguments)
    \/ \E c \in Calls : WrapperStep(c) \/ RuntimeStep(c) \/ InterruptCall(c)
    \/ FacadeQuiescent

\* A thread inside a wrapper or inside execute() keeps running.
FacadeFairness ==
    \A c \in Calls : WF_allVars(WrapperStep(c)) /\ WF_allVars(RuntimeStep(c))

FacadeSpec == FacadeInit /\ [][FacadeNext]_allVars /\ FacadeFairness

-----------------------------------------------------------------------------
\* @mutant of _serialize_result: an output is shown whenever there is one.
SerializeAnyOutput(r, return_mode) ==
    IF return_mode = "output" /\ r.output # None
    THEN [bare |-> TRUE, content |-> r.output] ELSE [bare |-> FALSE, content |-> model_dump(r)]

\* What the LangGraph adapter hands to the graph: a bare output or a document.
_serialize_result(r, return_mode) ==
    IF return_mode = "output" /\ r.code = "succeeded"
    THEN [bare |-> TRUE, content |-> r.output] ELSE [bare |-> FALSE, content |-> model_dump(r)]

-----------------------------------------------------------------------------
\* The fields that identify a call of the tool, as its host declared them.
Declared(n) ==
    IF wrappers[n].choice = None THEN _required_schema_fields(wrappers[n].contract)
    ELSE wrappers[n].choice.fields

(***************************************************************************)
(* Two calls of one protected tool mean the same action: they agree on     *)
(* every declared field.                                                   *)
(***************************************************************************)
SameAction(c, d) ==
    /\ bound[c].tool = bound[d].tool
    /\ LET fields == Declared(bound[c].tool)
       IN  \A field \in {fields[i] : i \in DOMAIN fields} \cap DOMAIN bound[c].arguments :
              bound[c].arguments[field] = bound[d].arguments[field]

\* The fields came from an iterator, and c did not get all of them.
ReadInPart(c) == Reads(c) /\ taken[c] # Declared(bound[c].tool)

(***************************************************************************)
(* A protected tool that requires a key acts once per action: of all calls *)
(* that agree on the declared fields at most one enters the function,      *)
(* unless calls divided the fields of an iterator (facade.py:76).          *)
(***************************************************************************)
OneEffectPerAction ==
    \A c, d \in invoked :
        contract[c].idempotency_key_required /\ SameAction(c, d) /\ c # d =>
            ReadInPart(c) /\ ReadInPart(d)

(***************************************************************************)
(* Derived keys do not alias: an outcome that stems from another call is   *)
(* only returned for the same action, also when the fields came from an    *)
(* iterator that was used up or divided (keys.py:40-73).  The exception is *)
(* a divided iterator that names a field twice: read whole it is refused,  *)
(* but three calls that divide it may derive one key from that field.      *)
(***************************************************************************)
DerivedKeysDoNotAlias ==
    \A c \in Calls :
        result[c] # None /\ result[c].execution # c =>
            \/ SameAction(c, result[c].execution)
            \/ ReadInPart(c) /\ ~_validate_key_material(Declared(bound[c].tool))

(***************************************************************************)
(* A graph that receives a bare output from the adapter can rely on it:    *)
(* the function ran, here or in the call whose outcome is replayed, and    *)
(* its postconditions held; every other end comes as a document that says  *)
(* it is no success (langgraph.py:80-89).                                  *)
(***************************************************************************)
OutputMeansSuccess ==
    \A c \in Calls :
        pc[c] = "returned" =>
            LET response == _serialize_result(result[c], "output")
            IN  IF response.bare
                THEN result[c].execution \in invoked /\ result[c].code = "succeeded"
                ELSE ~response.content.succeeded
=============================================================================
