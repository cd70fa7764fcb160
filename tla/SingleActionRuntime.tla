------------------------ MODULE SingleActionRuntime -------------------------
(***************************************************************************)
(* SingleActionRuntime.execute (src/agentactum/execution/runtime.py) called *)
(* by many threads on one runtime, with the registry, the policy engine,   *)
(* the idempotency backend and the ledger it drives.                       *)
(*                                                                         *)
(* A member of Calls is one call of execute(); it also names the uuid4()s  *)
(* drawn for it, the execution_id and the owner token of its claim.  The   *)
(* steps of a call are the pieces of execute() between two accesses to     *)
(* state that other calls share.  A critical section of the backend or of  *)
(* the registry is one step (IdempotencyBackend shows why that is sound).  *)
(* Host callbacks (policies, approval checker, conditions, handler,        *)
(* ledger) may answer anything, raise, and, in the handler's case, take    *)
(* any time.                                                               *)
(***************************************************************************)
EXTENDS Policies

CONSTANTS
    Calls,          \* calls of execute()
    Names,          \* tool names
    Contracts,      \* [name, version, risk, accepts, idempotency_key_required]
    Intents,        \* [id, tool, version, arguments, key]
    Keys,           \* idempotency keys
    PolicyAnswers,  \* the tuples of answers the engine's policies may give
    Checker,        \* the approval checker: "none", "static" or "host"
    ApprovedIds     \* the intent ids a StaticApprovalChecker approves

(***************************************************************************)
(* `version' stands for contract_id and version together, `accepts' for    *)
(* the arguments that the input schema accepts.                            *)
(***************************************************************************)
ASSUME ContractsAssumption ==
    \A contract \in Contracts :
        contract.name \in Names /\ contract.risk \in RiskLevels
          /\ contract.idempotency_key_required \in BOOLEAN

ASSUME IntentsAssumption ==
    \A intent \in Intents : intent.tool \in Names /\ intent.key \in Keys \cup {None}

ASSUME PolicyAnswersAssumption == PolicyAnswers \subseteq Seq(Answer)

ASSUME CheckerAssumption == Checker \in {"none", "static", "host"}

ASSUME NoneAssumption ==
    None \notin Calls /\ None \notin Keys /\ None \notin Contracts /\ None \notin Intents

-----------------------------------------------------------------------------
(***************************************************************************)
(* Execution results.  "succeeded" stands for succeeded=True without an    *)
(* error; every other code is the code of the FailureDetail.               *)
(***************************************************************************)
RefusalCodes ==
    {"ledger_error", "unknown_tool", "contract_mismatch", "input_validation_failed",
     "policy_denied", "approval_required", "idempotency_key_missing",
     "idempotency_in_progress", "precondition_failed"}

EffectCodes ==
    {"tool_execution_failed", "output_validation_failed", "postcondition_failed",
     "succeeded"}

Codes == RefusalCodes \cup EffectCodes

ExecutionResult == [execution : Calls, code : Codes, output : {"value", None}]

Result(c, code, output) == [execution |-> c, code |-> code, output |-> output]

\* model_dump(mode="json"): the JSON document that a completed record stores
Documents == [execution_id : Calls, succeeded : BOOLEAN,
              error : Codes \cup {None}, output : {"value", None}]

ASSUME NoneIsNoResult == None \notin ExecutionResult /\ None \notin Documents

\* @mutant of model_dump: the stored document leaves the output out.
DumpLosesOutput(r) ==
    [execution_id |-> r.execution, succeeded |-> r.code = "succeeded",
     error |-> IF r.code = "succeeded" THEN None ELSE r.code, output |-> None]

model_dump(r) ==
    [execution_id |-> r.execution, succeeded |-> r.code = "succeeded",
     error |-> IF r.code = "succeeded" THEN None ELSE r.code, output |-> r.output]

_decode_execution_result(doc) ==
    [execution |-> doc.execution_id,
     code      |-> IF doc.succeeded THEN "succeeded" ELSE doc.error,
     output    |-> doc.output]

Idempotency == INSTANCE IdempotencyRecords
                 WITH Tokens <- Calls, Results <- Documents

(***************************************************************************)
(* What a handler hands back.  `conforms' is the verdict of the output     *)
(* schema on the value's type.  By form, a "value" is JSON, "serializable" *)
(* passes json.dumps() but is no JsonValue (a tuple, a dict with integer   *)
(* keys), and "opaque" cannot be serialized.                               *)
(***************************************************************************)
Forms == {"value", "serializable", "opaque"}

Outputs == [conforms : BOOLEAN, form : Forms]

EventTypes ==
    {"action_received", "tool_unknown", "contract_mismatch", "input_validation_failed",
     "contract_validated", "policy_evaluated", "approval_required",
     "idempotency_key_missing", "idempotency_replayed", "precondition_failed",
     "execution_started", "execution_failed", "output_validation_failed",
     "postcondition_failed", "execution_succeeded"}

Sites ==
    {"idle", "resolve", "policy", "approval", "claim", "preconditions", "start",
     "invoke", "running", "postconditions", "complete",
     "returned",        \* execute() returned a result
     "raised",          \* an Exception left execute()
     "interrupted"}     \* a BaseException left execute()

VARIABLES
    registered,     \* [Names -> Contracts or None]: the tool registry
    records,        \* [Keys -> Record]: the idempotency backend
    audit,          \* [Calls -> event types the ledger stored for the call]
    invoked,        \* the calls whose handler was entered
    pc,             \* where each call is
    action,         \* the intent a call was made with
    contract,       \* the contract resolved for it
    decision,       \* the composed policy decision
    approved,       \* whether the approval checker approved it
    acquired,       \* whether the call owns its claim
    output,         \* what the handler returned, between validation and result
    result          \* the ExecutionResult built so far

vars == <<registered, records, audit, invoked, pc, action, contract, decision,
          approved, acquired, output, result>>

TypeOK ==
    /\ registered \in [Names -> Contracts \cup {None}]
    /\ records \in [Keys -> Idempotency!Record]
    /\ audit \in [Calls -> SUBSET EventTypes]
    /\ invoked \subseteq Calls
    /\ pc \in [Calls -> Sites]
    /\ action \in [Calls -> Intents \cup {None}]
    /\ contract \in [Calls -> Contracts \cup {None}]
    /\ decision \in [Calls -> PolicyDecisions \cup {None}]
    /\ approved \in [Calls -> BOOLEAN]
    /\ acquired \in [Calls -> BOOLEAN]
    /\ output \in [Calls -> Forms \cup {None}]
    /\ result \in [Calls -> ExecutionResult \cup {None}]

Init ==
    /\ registered = [n \in Names |-> None]
    /\ records    = [k \in Keys |-> Idempotency!Absent]
    /\ audit      = [c \in Calls |-> {}]
    /\ invoked    = {}
    /\ pc         = [c \in Calls |-> "idle"]
    /\ action     = [c \in Calls |-> None]
    /\ contract   = [c \in Calls |-> None]
    /\ decision   = [c \in Calls |-> None]
    /\ approved   = [c \in Calls |-> FALSE]
    /\ acquired   = [c \in Calls |-> FALSE]
    /\ output     = [c \in Calls |-> None]
    /\ result     = [c \in Calls |-> None]

-----------------------------------------------------------------------------
Goto(c, site) == pc' = [pc EXCEPT ![c] = site]

\* ledger.append() succeeded, or raised and _append_event() returned False
Recorded(c, event)  == audit' = [audit EXCEPT ![c] = @ \cup {event}]
NotRecorded         == UNCHANGED audit
_append_event(c, event) == Recorded(c, event) \/ NotRecorded

Build(c, code, out) == result' = [result EXCEPT ![c] = Result(c, code, out)]

\* An early return: the event is logged if the ledger takes it.
Refuse(c, code, event) ==
    /\ _append_event(c, event)
    /\ Build(c, code, None)
    /\ Goto(c, "returned")

\* A failure that still has to complete the call's claim.
Conclude(c, code, event, out) ==
    /\ _append_event(c, event)
    /\ Build(c, code, out)
    /\ Goto(c, "complete")

\* ToolRegistry.register(); a name that is taken raises and changes nothing
Register(new) ==
    /\ registered[new.name] = None
    /\ registered' = [registered EXCEPT ![new.name] = new]
    /\ UNCHANGED <<records, audit, invoked, pc, action, contract, decision,
                   approved, acquired, output, result>>

\* execute() is called: nothing happens before action_received is recorded.
Receive(c, intent) ==
    /\ pc[c] = "idle"
    /\ action' = [action EXCEPT ![c] = intent]
    /\ \/ Recorded(c, "action_received") /\ Goto(c, "resolve") /\ UNCHANGED result
       \/ NotRecorded /\ Build(c, "ledger_error", None) /\ Goto(c, "returned")
    /\ UNCHANGED <<registered, records, invoked, contract, decision, approved,
                   acquired, output>>

_action_matches_contract(intent, known) ==
    intent.tool = known.name /\ intent.version = known.version

_validate_against_schema(arguments, known) == arguments \in known.accepts

\* registry.get(), the contract match and the input schema
Resolve(c) ==
    LET intent == action[c]
        known  == registered[action[c].tool]
    IN  /\ pc[c] = "resolve"
        /\ IF known = None THEN
              Refuse(c, "unknown_tool", "tool_unknown") /\ UNCHANGED contract
           ELSE IF ~_action_matches_contract(intent, known) THEN
              Refuse(c, "contract_mismatch", "contract_mismatch") /\ UNCHANGED contract
           ELSE IF ~_validate_against_schema(intent.arguments, known) THEN
              /\ Refuse(c, "input_validation_failed", "input_validation_failed")
              /\ UNCHANGED contract
           ELSE
              /\ _append_event(c, "contract_validated")
              /\ contract' = [contract EXCEPT ![c] = known]
              /\ Goto(c, "policy")
              /\ UNCHANGED result
        /\ UNCHANGED <<registered, records, invoked, action, decision, approved,
                       acquired, output>>

\* PolicyEngine.evaluate(); a composition error leaves execute() unhandled.
EvaluatePolicy(c) ==
    /\ pc[c] = "policy"
    /\ \E answers \in PolicyAnswers :
          LET composed == Evaluate(contract[c].risk, answers)
          IN  IF composed = ValidationError THEN
                 Goto(c, "raised") /\ UNCHANGED <<audit, decision, result>>
              ELSE
                 /\ decision' = [decision EXCEPT ![c] = composed]
                 /\ _append_event(c, "policy_evaluated")
                 /\ IF composed.type = "deny" THEN
                       Build(c, "policy_denied", None) /\ Goto(c, "returned")
                    ELSE
                       /\ Goto(c, IF composed.type = "require_approval"
                                  THEN "approval" ELSE "claim")
                       /\ UNCHANGED result
    /\ UNCHANGED <<registered, records, invoked, action, contract, approved,
                   acquired, output>>

\* What is_approved() may answer; an exception counts as FALSE.
is_approved(intent) ==
    CASE Checker = "none"   -> {FALSE}
      [] Checker = "static" -> {intent.id \in ApprovedIds}
      [] Checker = "host"   -> BOOLEAN

\* @mutant of CheckApproval: the checker is asked but its answer is ignored.
ApprovalIgnored(c) ==
    /\ pc[c] = "approval"
    /\ \E answer \in is_approved(action[c]) :
          approved' = [approved EXCEPT ![c] = answer]
    /\ Goto(c, "claim")
    /\ UNCHANGED <<registered, records, audit, invoked, action, contract, decision,
                   acquired, output, result>>

CheckApproval(c) ==
    /\ pc[c] = "approval"
    /\ \E answer \in is_approved(action[c]) :
          /\ approved' = [approved EXCEPT ![c] = answer]
          /\ IF answer
             THEN Goto(c, "claim") /\ UNCHANGED <<audit, result>>
             ELSE Refuse(c, "approval_required", "approval_required")
    /\ UNCHANGED <<registered, records, invoked, action, contract, decision,
                   acquired, output>>

\* @mutant of Replay: the stored document is returned without decoding it.
ReplayUndecoded(c, record) ==
    IF record.status = "completed" /\ record.result # None
    THEN record.result
    ELSE Result(c, "idempotency_in_progress", None)

\* The outcome for a call whose key another call has claimed.
Replay(c, record) ==
    IF record.status = "completed" /\ record.result # None
    THEN _decode_execution_result(record.result)
    ELSE Result(c, "idempotency_in_progress", None)

\* No key: refused when the contract wants one, else there is no claim.
ProceedWithoutKey(c) ==
    /\ pc[c] = "claim"
    /\ action[c].key = None
    /\ IF contract[c].idempotency_key_required
       THEN Refuse(c, "idempotency_key_missing", "idempotency_key_missing")
       ELSE Goto(c, "preconditions") /\ UNCHANGED <<audit, result>>
    /\ UNCHANGED <<registered, records, invoked, action, contract, decision, approved,
                   acquired, output>>

\* backend.claim(): the owner goes on, everyone else gets the recorded outcome.
ClaimKey(c) ==
    LET key    == action[c].key
        effect == Idempotency!claim(records[key], c)
        owns   == effect.answer.outcome = "acquired"
    IN  /\ pc[c] = "claim"
        /\ key # None
        /\ records' = [records EXCEPT ![key] = effect.record]
        /\ acquired' = [acquired EXCEPT ![c] = owns]
        /\ IF owns
           THEN Goto(c, "preconditions") /\ UNCHANGED <<audit, result>>
           ELSE /\ _append_event(c, "idempotency_replayed")
                /\ result' = [result EXCEPT ![c] = Replay(c, effect.answer.record)]
                /\ Goto(c, "returned")
        /\ UNCHANGED <<registered, invoked, action, contract, decision, approved, output>>

\* @mutant of CheckPreconditions: the early return forgets the claim.
PreconditionsForgetClaim(c) ==
    /\ pc[c] = "preconditions"
    /\ \/ Goto(c, "start") /\ UNCHANGED <<audit, result>>
       \/ Refuse(c, "precondition_failed", "precondition_failed")
    /\ UNCHANGED <<registered, records, invoked, action, contract, decision, approved,
                   acquired, output>>

\* All preconditions pass, or the first that fails or raises ends the call.
CheckPreconditions(c) ==
    /\ pc[c] = "preconditions"
    /\ \/ Goto(c, "start") /\ UNCHANGED <<audit, result>>
       \/ Conclude(c, "precondition_failed", "precondition_failed", None)
    /\ UNCHANGED <<registered, records, invoked, action, contract, decision, approved,
                   acquired, output>>

\* The audit gate: no handler runs unless execution_started was recorded.
StartExecution(c) ==
    /\ pc[c] = "start"
    /\ \/ Recorded(c, "execution_started") /\ Goto(c, "invoke") /\ UNCHANGED result
       \/ NotRecorded /\ Build(c, "ledger_error", None) /\ Goto(c, "complete")
    /\ UNCHANGED <<registered, records, invoked, action, contract, decision, approved,
                   acquired, output>>

\* The handler is entered; from here on its effect may have happened.
InvokeHandler(c) ==
    /\ pc[c] = "invoke"
    /\ invoked' = invoked \cup {c}
    /\ Goto(c, "running")
    /\ UNCHANGED <<registered, records, audit, action, contract, decision, approved,
                   acquired, output, result>>

\* The handler raises an Exception.
HandlerRaises(c) ==
    /\ pc[c] = "running"
    /\ Conclude(c, "tool_execution_failed", "execution_failed", None)
    /\ UNCHANGED <<registered, records, invoked, action, contract, decision, approved,
                   acquired, output>>

\* The ExecutionResult constructor rejects an output that is no JsonValue.
Constructible(form) == form # "serializable"

\* The JsonValue that a result of this form carries (_json_or_none).
_json_or_none(form) == IF form = "value" THEN "value" ELSE None

\* The handler returns and the output schema is applied.
HandlerReturns(c, out) ==
    /\ pc[c] = "running"
    /\ IF out.conforms /\ out.form # "opaque" THEN
          /\ output' = [output EXCEPT ![c] = out.form]
          /\ Goto(c, "postconditions")
          /\ UNCHANGED <<audit, result>>
       ELSE
          /\ UNCHANGED output
          /\ IF Constructible(out.form)
             THEN Conclude(c, "output_validation_failed", "output_validation_failed",
                           _json_or_none(out.form))
             ELSE Goto(c, "raised") /\ UNCHANGED <<audit, result>>
    /\ UNCHANGED <<registered, records, invoked, action, contract, decision, approved,
                   acquired>>

\* @mutant of CheckPostconditions: a lost success event becomes ledger_error.
SuccessNeedsEvent(c) ==
    /\ pc[c] = "postconditions"
    /\ IF ~Constructible(output[c]) THEN Goto(c, "raised") /\ UNCHANGED <<audit, result>>
       ELSE \/ Recorded(c, "execution_succeeded") /\ Build(c, "succeeded", "value")
                 /\ Goto(c, "complete")
            \/ NotRecorded /\ Build(c, "ledger_error", None) /\ Goto(c, "complete")
            \/ Conclude(c, "postcondition_failed", "postcondition_failed", "value")
    /\ output' = [output EXCEPT ![c] = None]
    /\ UNCHANGED <<registered, records, invoked, action, contract, decision, approved,
                   acquired>>

\* The postconditions run, then the final result is built and logged.
CheckPostconditions(c) ==
    /\ pc[c] = "postconditions"
    /\ IF ~Constructible(output[c]) THEN Goto(c, "raised") /\ UNCHANGED <<audit, result>>
       ELSE \/ Conclude(c, "succeeded", "execution_succeeded", "value")
            \/ Conclude(c, "postcondition_failed", "postcondition_failed", "value")
    /\ output' = [output EXCEPT ![c] = None]
    /\ UNCHANGED <<registered, records, invoked, action, contract, decision, approved,
                   acquired>>

\* _complete_claim() with the result in JSON form, then return.
CompleteClaim(c) ==
    LET key    == action[c].key
        effect == Idempotency!mark_completed(records[key], c, model_dump(result[c]))
    IN  /\ pc[c] = "complete"
        /\ IF acquired[c] THEN
              /\ records' = [records EXCEPT ![key] = effect.record]
              /\ Goto(c, IF effect.answer.outcome = "completed" THEN "returned" ELSE "raised")
           ELSE UNCHANGED records /\ Goto(c, "returned")
        /\ UNCHANGED <<registered, audit, invoked, action, contract, decision, approved,
                       acquired, output, result>>

Ended(c) == pc[c] \in {"returned", "raised", "interrupted"}

\* Every call has ended and the host makes no more.
Quiescent == (\A c \in Calls : Ended(c)) /\ UNCHANGED vars

\* A BaseException (shutdown, interrupt) crosses execute(), which catches none.
Interrupt(c) ==
    /\ pc[c] # "idle"
    /\ ~Ended(c)
    /\ Goto(c, "interrupted")
    /\ UNCHANGED <<registered, records, audit, invoked, action, contract, decision,
                   approved, acquired, output, result>>

\* A step of execute() after it was entered.
Step(c) ==
    \/ Resolve(c) \/ EvaluatePolicy(c) \/ CheckApproval(c)
    \/ ProceedWithoutKey(c) \/ ClaimKey(c)
    \/ CheckPreconditions(c) \/ StartExecution(c) \/ InvokeHandler(c)
    \/ HandlerRaises(c)
    \/ \E out \in Outputs : HandlerReturns(c, out)
    \/ CheckPostconditions(c) \/ CompleteClaim(c)

Next ==
    \/ \E new \in Contracts : Register(new)
    \/ \E c \in Calls, intent \in Intents : Receive(c, intent)
    \/ \E c \in Calls : Step(c) \/ Interrupt(c)
    \/ Quiescent

(***************************************************************************)
(* A thread inside execute() keeps running and callbacks come back, the    *)
(* handler included; execute() itself has no timeout.                      *)
(***************************************************************************)
Fairness == \A c \in Calls : WF_vars(Step(c))

Spec == Init /\ [][Next]_vars /\ Fairness

-----------------------------------------------------------------------------
SameKey(c, d) == action[c].key # None /\ action[c].key = action[d].key

(***************************************************************************)
(* No duplicate release (INV-IDEM-02): of all the calls made with one key, *)
(* concurrent or later, at most one ever enters a handler.                 *)
(***************************************************************************)
AtMostOneInvocationPerKey ==
    \A c, d \in invoked : SameKey(c, d) => c = d

(***************************************************************************)
(* No effect without its gates: when a handler has been entered, the tool  *)
(* was and still is registered under the contract the intent names, its    *)
(* arguments satisfied the input schema, policy did not deny, high risk or *)
(* a required approval was approved, a required key was given and claimed, *)
(* and the ledger holds action_received and execution_started.  Excluded   *)
(* are contract_validated and policy_evaluated: execute() ignores that     *)
(* they could not be appended (runtime.py:189, 201), although INV-AUD-04   *)
(* (docs/security-invariants.md:194) has the failure to record a required  *)
(* decision prevent the effect.                                            *)
(***************************************************************************)
NoUngatedEffect ==
    \A c \in invoked :
        /\ registered[action[c].tool] = contract[c]
        /\ _action_matches_contract(action[c], contract[c])
        /\ action[c].arguments \in contract[c].accepts
        /\ decision[c].type # "deny"
        /\ contract[c].risk >= HIGH \/ decision[c].risk >= HIGH
              \/ decision[c].type = "require_approval" => approved[c]
        /\ contract[c].idempotency_key_required => action[c].key # None
        /\ action[c].key # None => records[action[c].key].owner = c
        /\ {"action_received", "execution_started"} \subseteq audit[c]

(***************************************************************************)
(* Terminal replay (INV-IDEM-04): a result that stems from another call is *)
(* the very result that call built, under the same key, and survived the   *)
(* round trip through JSON.                                                *)
(***************************************************************************)
ReplayIsFaithful ==
    \A c \in Calls :
        result[c] # None /\ result[c].execution # c =>
            LET owner == result[c].execution
            IN  SameKey(c, owner) /\ acquired[owner] /\ result[c] = result[owner]

(***************************************************************************)
(* Results are truthful: a refusal is only reported for an execution whose *)
(* handler never ran, and an effect code only for one whose handler ran,   *)
(* also when the result is a replay.                                       *)
(***************************************************************************)
TruthfulResult ==
    \A c \in Calls :
        result[c] # None =>
            (result[c].code \in EffectCodes <=> result[c].execution \in invoked)

(***************************************************************************)
(* A handler is only entered while the store still says that this very     *)
(* call owns the key: no recorded outcome is ever followed by an effect.   *)
(***************************************************************************)
EffectUnderOwnClaim ==
    [][\A c \in invoked' \ invoked :
          action[c].key # None =>
            records[action[c].key] = Idempotency!InProgress(c)]_vars

(***************************************************************************)
(* Claims settle: a claimed key is eventually completed, whatever path the *)
(* owner takes through execute(), unless an exception left execute().      *)
(***************************************************************************)
ClaimsSettle ==
    \A c \in Calls :
        acquired[c] ~>
            \/ acquired[c] /\ records[action[c].key].status = "completed"
            \/ pc[c] \in {"raised", "interrupted"}

(***************************************************************************)
(* "Same-key/different-fingerprint use is rejected and audited; it never   *)
(* aliases to an existing outcome" (docs/security-invariants.md:120-121):  *)
(* an outcome is only returned for the tool and arguments it came from.    *)
(***************************************************************************)
ConflictOnChangedIntent ==
    \A c \in Calls :
        result[c] # None =>
            LET source == action[result[c].execution]
            IN  source.tool = action[c].tool /\ source.arguments = action[c].arguments

(***************************************************************************)
(* "Validation, policy, approval, idempotency, precondition, execution,    *)
(* and postcondition failures return structured failures"                  *)
(* (docs/product-spec.md:169-170): once the handler was entered, no        *)
(* ordinary exception leaves execute(), and with it the claim settles.     *)
(***************************************************************************)
FailuresAreStructured ==
    \A c \in invoked : pc[c] # "raised"

(***************************************************************************)
(* "If a required event cannot be recorded after an effect may have        *)
(* happened, the runtime surfaces an indeterminate outcome"                *)
(* (docs/security-invariants.md:197-199): success implies a complete log.  *)
(***************************************************************************)
SuccessIsAudited ==
    \A c \in Calls :
        pc[c] = "returned" /\ result[c].code = "succeeded" =>
            "execution_succeeded" \in audit[result[c].execution]
=============================================================================
